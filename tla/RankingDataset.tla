--------------------------- MODULE RankingDataset ---------------------------
(***************************************************************************)
(* From a served feed to a training row.  Posts are edited and embedded,   *)
(* the recommendation API serves requests of one user with the context it  *)
(* reads (recommendation_api/app/serving_context.py, db.py), the client    *)
(* reports behaviour that reaches the database late, and build_dataset.py  *)
(* turns what is stored into rows for any extraction time.                 *)
(*                                                                         *)
(* Every request shows every post.  A row carries stamps taken when its    *)
(* statement began and becomes visible when it commits, so the one step    *)
(* that inserts it picks a stamp from the past: that is how an extraction  *)
(* can meet a row older than itself that it did not see.                   *)
(***************************************************************************)
EXTENDS EngagementLabel, FiniteSets

CONSTANTS
    Posts,
    Texts,
    Requests,
    EventTypes,   \* event types the client sends
    Window,       \* label_window_hours
    HistoryLimit, \* history_recent_limit + history_long_term_limit
    LookupSlack,  \* history_lookup_slack
    NoText,       \* no candidate_content_hash in the snapshot
    MaxTime,      \* bound on the clock
    MaxLag,       \* bound on the time from a click or a stamp to its commit or response
    MaxEdits,     \* bound on the edits of posts
    MaxEvents     \* bound on the events

ASSUME DatasetAssumption ==
    /\ {HistoryLimit, LookupSlack, MaxTime, MaxLag, MaxEdits, MaxEvents} \subseteq Nat
    /\ Window \in Nat \ {0}
    /\ NoText \notin Texts
    /\ IsFiniteSet(Posts) /\ Texts # {}

VARIABLES
    now,       \* the clock all hosts share
    versions,  \* what each post has said, and its updated_at then
    features,  \* post_content_features: post, text, source, computed
    requests,  \* the impressions of each request and the context it had
    events     \* behavior_events

datasetVars == <<now, versions, features, requests, events>>

NoRequest == [served |-> FALSE]
Served == {r \in Requests : requests[r].served}

DatasetInit ==
    /\ now = 0
    /\ \E t \in Texts :
         versions = {[post |-> p, text |-> t, at |-> 0] : p \in Posts}
    /\ features = {}
    /\ requests = [r \in Requests |-> NoRequest]
    /\ events = {}

Tick ==
    /\ now < MaxTime
    /\ now' = now + 1
    /\ UNCHANGED <<versions, features, requests, events>>

(***************************************************************************)
(* Posts and their features                                                *)
(***************************************************************************)

\* The rows of posts a reader may have seen at time at.
ReadAt(p, at) ==
    {v \in versions : /\ v.post = p /\ v.at <= at
                      /\ ~\E w \in versions :
                           w.post = p /\ v.at < w.at /\ w.at < at}

\* update_post: at most one edit of a post at a time.
Edit(p, t) ==
    /\ Cardinality(versions) < Cardinality(Posts) + MaxEdits
    /\ \A v \in versions : v.post = p => v.at < now
    /\ \A v \in ReadAt(p, now) : v.text # t
    /\ versions' = versions \cup {[post |-> p, text |-> t, at |-> now]}
    /\ UNCHANGED <<now, features, requests, events>>

\* A request served before this row came, which would have looked at it.
Late(pred(_)) == [r \in Requests |->
    IF requests[r].served /\ pred(requests[r].ref)
    THEN [requests[r] EXCEPT !.late = TRUE] ELSE requests[r]]

FeatureRow(v, computed) ==
    [post |-> v.post, text |-> v.text, source |-> v.at, computed |-> computed]

\* EmbeddingService.process: the text, its updated_at and the clock are read
\* before the encoder runs, and insert_feature comes some time after.  A text
\* that has a feature keeps its first one.
InsertFeature(p, computed) ==
    /\ \E v \in ReadAt(p, computed) :
         /\ ~\E f \in features : f.post = p /\ f.text = v.text
         /\ features' = features \cup
              {FeatureRow(v, computed)}
    /\ requests' = Late(LAMBDA ref : computed < ref)
    /\ UNCHANGED <<now, versions, events>>

(***************************************************************************)
(* History of the user at a reference time                                 *)
(***************************************************************************)

\* _qualifies_for_history, and the WHERE clause of fetch_user_history.
QualifiesForHistory(e, ref) ==
    /\ e.type = "click"
    /\ e.occurred < ref
    /\ e.ingested <= ref

\* (occurred_at, id)
ClickedBefore(e, f) ==
    e.occurred < f.occurred \/ (e.occurred = f.occurred /\ e.id < f.id)

Latest(clicks, n) ==
    {e \in clicks : Cardinality({f \in clicks : ClickedBefore(e, f)}) < n}

Newer(f, g) ==
    \/ f.source > g.source
    \/ f.source = g.source /\ f.computed >= g.computed

\* The newest version of the text, whenever it was computed.
MUT_SelectFeature(fs, at) ==
    LET eligible == {f \in fs : f.source <= at} IN
    {f \in eligible : \A g \in eligible : Newer(f, g)}

\* _select_history_feature: the newest of the features that existed then, as
\* a set of at most one.
SelectFeature(fs, at) ==
    LET eligible == {f \in fs : f.source <= at /\ f.computed <= at} IN
    {f \in eligible : \A g \in eligible : Newer(f, g)}

\* build_history_snapshot over the stored rows es and fs: the last clicks,
\* those without a feature at the time of the click dropped.  Entries carry
\* their (engaged_at, event id), by which the code lists them.
History(es, fs, ref) ==
    LET clicks == {e \in es : QualifiesForHistory(e, ref)}
        last == Latest(clicks, HistoryLimit)
    IN UNION {{[event |-> e.id, engaged |-> e.occurred, feature |-> f] :
                 f \in SelectFeature({g \in fs : g.post = e.post}, e.occurred)}
              : e \in last}

\* fetch_user_history at a given time: LIMIT leaves some slack, and features
\* that are younger than the request are not looked at.
FetchUserHistory(ref) ==
    History(Latest({e \in events : QualifiesForHistory(e, ref)},
                   HistoryLimit + LookupSlack),
            {f \in features : f.source <= ref /\ f.computed <= ref},
            ref)

(***************************************************************************)
(* Serving                                                                 *)
(***************************************************************************)

\* load_nrms_records as of ref: a feature of the very text of a candidate.
CandidateFeature(p, text, ref) ==
    {f \in features : /\ f.post = p /\ f.text = text
                      /\ f.source <= ref /\ f.computed <= ref}

\* recommend_feed reads the candidates, then the clock (observed_at, ref),
\* then the context, and answers now.  With every feature at hand the
\* snapshot names the texts that were scored.  Otherwise, or when the context
\* misses its deadline, it names none; and when the API fails as a whole
\* feed-service serves without an observed_at.
Serve(r, ref) ==
    LET snapshot(at, hash, context) ==
            [served |-> TRUE, ref |-> at, at |-> now, hash |-> hash,
             context |-> context, late |-> FALSE]
        none == [p \in Posts |-> NoText]
    IN
    /\ ~requests[r].served
    /\ \/ \E shown \in [Posts -> Texts] :
            /\ \A p \in Posts : /\ \E v \in ReadAt(p, ref) : v.text = shown[p]
                               /\ CandidateFeature(p, shown[p], ref) # {}
            /\ requests' = [requests EXCEPT ![r] =
                 snapshot(ref, shown, FetchUserHistory(ref))]
       \/ requests' = [requests EXCEPT ![r] = snapshot(ref, none, {})]
       \/ requests' = [requests EXCEPT ![r] = snapshot(now, none, {})]
    /\ UNCHANGED <<now, versions, features, events>>

(***************************************************************************)
(* Behaviour                                                               *)
(***************************************************************************)

\* An event on an impression reaches the database: it occurred at some time
\* since the feed was served, waited in the client's queue, and its INSERT,
\* begun at the time ingested_at says, commits now.
Ingest(r, p, type, occurred, ingested) ==
    LET row == [id |-> Cardinality(events) + 1, request |-> r, post |-> p,
                type |-> type, occurred |-> occurred, ingested |-> ingested,
                long |-> FALSE]
    IN
    /\ r \in Served
    /\ requests[r].at <= occurred /\ occurred <= ingested
    /\ Cardinality(events) < MaxEvents
    /\ events' = events \cup {row}
    /\ requests' = Late(LAMBDA ref : QualifiesForHistory(row, ref))
    /\ UNCHANGED <<now, versions, features>>

Recent == {at \in 0..now : now - at <= MaxLag}

DatasetNext ==
    \/ Tick
    \/ \E p \in Posts, t \in Texts : Edit(p, t)
    \/ \E p \in Posts, at \in Recent : InsertFeature(p, at)
    \/ \E r \in Requests, at \in Recent : Serve(r, at)
    \/ \E r \in Requests, p \in Posts, type \in EventTypes,
         occurred \in Recent, ingested \in Recent :
            Ingest(r, p, type, occurred, ingested)

DatasetSpec == DatasetInit /\ [][DatasetNext]_datasetVars

(***************************************************************************)
(* The dataset an extraction at time t builds                              *)
(***************************************************************************)

\* Late events count as soon as they are there.
MUT_Known(rows, t) == {e \in rows : e.occurred <= t}

\* The events an extraction at time t reads.
Known(rows, t) == {e \in rows : e.occurred <= t /\ e.ingested <= t}

\* _verified_exposure_at, as a set of at most one time.
ExposureAt(served, linked) ==
    LET times == {e.occurred : e \in {f \in linked :
                                        /\ f.type \in {"visible", "click"}
                                        /\ f.occurred >= served}}
    IN {x \in times : \A y \in times : x <= y}

\* The label window of the impression is over.
Mature(seen, t) == seen + Window <= t

LabelEvents(served, seen, linked) ==
    {e \in linked : served <= e.occurred /\ e.occurred <= seen + Window}

\* The newest feature of the post, whatever the snapshot names.
MUT_Article(q, p, fs) == SelectFeature({f \in fs : f.post = p}, q.ref)

\* The feature of the candidate: of the text that was scored if the snapshot
\* names one, else the newest at the reference time.
Article(q, p, fs) ==
    SelectFeature({f \in fs : f.post = p /\ q.hash[p] \in {NoText, f.text}},
                  q.ref)

\* The rows of build_ranking_samples_v2 for one impression: none unless it was
\* seen and its label is due.  q.ref is reference_at.
RowsOf(r, p, q, es, fs, t) ==
    LET linked == {e \in es : e.request = r /\ e.post = p} IN
    {[request |-> r, post |-> p, served |-> q.at, seen |-> seen,
      click |-> \E e \in LabelEvents(q.at, seen, linked) : e.type = "click",
      label |-> Semantic(LabelEvents(q.at, seen, linked), "v2", TRUE),
      article |-> Article(q, p, fs),
      history |-> History(es, fs, q.ref)]
     : seen \in {x \in ExposureAt(q.at, linked) : Mature(x, t)}}

\* The dataset for an extraction time.
Dataset(reqs, es, fs, t) ==
    UNION {RowsOf(r, p, reqs[r], Known(es, t), {f \in fs : f.computed <= t}, t)
           : r \in {x \in Requests : reqs[x].served}, p \in Posts}

Rows(t) == Dataset(requests, events, features, t)

\* _validate_article_representation, for a feature that had to be there at
\* time available.
ArticleRefusals(article, available) ==
    {"missing article" : x \in {y \in {article} : y = {}}}
    \cup {"unordered feature" : f \in {g \in article : g.source > g.computed}}
    \cup {"future feature" : f \in {g \in article : g.computed > available}}

\* validate_dataset_v2: the reasons to refuse a set of rows as a whole.
Refusals(rows) ==
    (UNION {ArticleRefusals(row.article, row.served) : row \in rows})
    \cup (UNION {UNION {ArticleRefusals({h.feature}, h.engaged) : h \in row.history}
                 : row \in rows})
    \cup {"no rows" : x \in {y \in {rows} : y = {}}}
    \cup {"seen before served" : row \in {x \in rows : x.seen < x.served}}
    \cup {"no label" : row \in {x \in rows : x.label = "exposure"}}
    \cup {"history not before serving" : row \in {x \in rows :
            \E h \in x.history : h.engaged >= x.served}}
    \cup {"short request" : row \in {x \in rows :
            Cardinality({y \in rows : y.request = x.request}) < 2}}
    \cup {"histories differ" : row \in {x \in rows :
            \E y \in rows : y.request = x.request /\ y.history # x.history}}
    \cup {"one class" : x \in {y \in BOOLEAN : \A r \in rows : r.click = y}}
    \cup {"one class" : x \in {y \in BOOLEAN :
            \A r \in rows : (r.label \in PositiveSemantics) = y}}

(***************************************************************************)
(* Properties                                                              *)
(***************************************************************************)

\* The validator refuses a build for what the data lack, never because the
\* builder let something of the future into a row: no extraction time fails
\* on leakage.
BuilderMeetsValidator ==
    \A t \in 0..now : LET rows == Rows(t) IN
       rows # {} =>
         Refusals(rows) \subseteq {"missing article", "short request", "one class"}

\* The history a model was served with is the one it is trained with, unless
\* a row the server could not see yet carries an older stamp.
TrainedAsServed ==
    \A r \in Served : LET q == requests[r] IN
       (\A p \in Posts : q.hash[p] # NoText) /\ ~q.late
         => \A t \in q.at..now :
              History(Known(events, t),
                      {f \in features : f.computed <= t}, q.ref) = q.context

\* A snapshot that names the text that was scored gets the embedding of that
\* text, and no other, however often the post was edited since.
ScoredTextIsTrained ==
    \A t \in 0..now : \A row \in Rows(t) :
       LET hash == requests[row.request].hash[row.post] IN
       hash # NoText => {f.text : f \in row.article} = {hash}

\* An extraction time is a snapshot: repeating the build for an earlier time
\* gives the same rows, unless a row stamped before that time was inserted.
Reproducible ==
    [][\A t \in 0..now :
         \/ \E f \in features' \ features : f.computed <= t
         \/ \E e \in events' \ events : e.ingested <= t
         \/ Dataset(requests', events', features', t) = Rows(t)]_datasetVars

\* The embedding of a history entry is of a text the reader of that click can
\* have seen.
HistoryIsWhatWasRead ==
    \A t \in 0..now : \A row \in Rows(t) : \A h \in row.history :
       \E v \in ReadAt(h.feature.post, h.engaged) : v.text = h.feature.text
=============================================================================
