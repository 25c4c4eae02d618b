------------------------- MODULE RecommendationApi -------------------------
(***************************************************************************)
(* recommendation_api/app: POST /recommend/feed/{user_id}.  One event loop *)
(* serves all requests, so they interleave at every await; the model runs  *)
(* in a thread of its own, one at a time, and a request waits for it until *)
(* its deadline.  While a request is under way posts are hidden, seen,     *)
(* taken down, published, forgotten to have been seen and edited, and the  *)
(* NLP worker embeds them.                                                 *)
(*                                                                         *)
(* The requests are of one user.  Post n + 1 is newer than post n.  The    *)
(* contents of a post are numbered by its edits; a feature is a pair of a  *)
(* post and an edition.                                                    *)
(***************************************************************************)
EXTENDS Naturals, Sequences, FiniteSets, Functions

CONSTANTS
    PostCount,   \* the posts are 1..PostCount
    Hidden,      \* posts that may not be shown at the start
    Requests,
    Followed,    \* posts of authors the user follows
    Topical,     \* posts on the five topics the user likes best
    Similarity,  \* of a post to what the user has read
    Excluded,    \* exclude_post_ids of each request
    Pool,        \* candidate_pool of the request
    FeedPool,    \* feed_candidate_pool of the configuration
    SemanticWindow, \* LIMIT of candidates_semantic
    Limit,       \* limit of the answer
    Modes,       \* the values of RANKER_MODE to try
    Heuristic, Model, \* scores of a post, in hundredths
    Author, Topic,    \* of a post
    NoTask,      \* in RankerRuntime._inflight at the start
    MaxChanges   \* bound on the changes to posts

ASSUME ApiAssumption ==
    /\ {PostCount, Pool, FeedPool, SemanticWindow, Limit, MaxChanges} \subseteq Nat
    /\ Hidden \subseteq 1..PostCount
    /\ Followed \subseteq 1..PostCount /\ Topical \subseteq 1..PostCount
    /\ Modes \subseteq {"heuristic", "shadow", "ml"}
    /\ Excluded \in [Requests -> SUBSET (1..PostCount)]
    /\ {Similarity, Heuristic, Model} \subseteq [1..PostCount -> Nat]

Posts == 1..PostCount

VARIABLES
    mode,      \* RankerRuntime.mode
    predictor, \* what initialize could load: "nrms" requires a context
    eligible,  \* published, by an active author, not hidden, reported or seen
    edition,   \* of the contents of each post
    features,  \* post_content_features
    req,       \* the requests
    inflight,  \* the request whose task is in RankerRuntime._inflight
    task,      \* what became of the task of each request
    changes

world == <<eligible, edition, features, changes>>
runtime == <<inflight, task>>
apiVars == <<mode, predictor, world, req, runtime>>

NoRequest == [pc |-> "none"]

ApiInit ==
    /\ mode \in Modes
    /\ predictor \in IF mode = "heuristic" THEN {"none"}
                    ELSE {"none", "logistic", "nrms"}
    /\ eligible = Posts \ Hidden /\ edition = [p \in Posts |-> 0]
    /\ features = Posts \X {0}
    /\ req = [r \in Requests |-> NoRequest]
    /\ inflight = NoTask /\ task = [r \in Requests |-> "none"]
    /\ changes = 0

(***************************************************************************)
(* The world                                                               *)
(***************************************************************************)

UnderWay(r) == req[r].pc \notin {"none", "done"}

\* The user hides, reports or sees a post, or it is taken down.
Exclude(p) ==
    /\ changes < MaxChanges /\ changes' = changes + 1
    /\ p \in eligible /\ eligible' = eligible \ {p}
    /\ req' = [r \in Requests |-> IF UnderWay(r) THEN [req[r] EXCEPT !.steady = FALSE]
                                  ELSE req[r]]
    /\ UNCHANGED <<mode, predictor, edition, features, runtime>>

\* A post is published, its author active again, or its seen_cooldown_days over.
Admit(p) ==
    /\ changes < MaxChanges /\ changes' = changes + 1
    /\ p \notin eligible /\ eligible' = eligible \cup {p}
    /\ req' = [r \in Requests |-> IF UnderWay(r)
                 THEN [req[r] EXCEPT !.steady = FALSE, !.allowed = @ \cup {p}]
                 ELSE req[r]]
    /\ UNCHANGED <<mode, predictor, edition, features, runtime>>

Edit(p) ==
    /\ changes < MaxChanges /\ changes' = changes + 1
    /\ edition' = [edition EXCEPT ![p] = @ + 1]
    /\ UNCHANGED <<mode, predictor, eligible, features, req, runtime>>

Embed(p) ==
    /\ features' = features \cup {<<p, edition[p]>>}
    /\ features' # features
    /\ UNCHANGED <<mode, predictor, eligible, edition, req, changes, runtime>>

(***************************************************************************)
(* Retrieval                                                               *)
(***************************************************************************)

AtMost(n, size) == IF size < n THEN size ELSE n

\* (-retrieval_score, id): the higher key first, of equals the lower id.
Before(key, q, p) == key[q] > key[p] \/ (key[q] = key[p] /\ q < p)

\* A source: the n posts of a set that come first by a key among those that the
\* exclusion rules let pass, with the contents they have at that moment.
Top(set, n, key) ==
    LET all == set \cap eligible
        ranked(i) == CHOOSE p \in all :
                        Cardinality({q \in all : Before(key, q, p)}) = i - 1
    IN [i \in 1..AtMost(n, Cardinality(all)) |->
          [post |-> ranked(i), text |-> edition[ranked(i)]]]

Newest(set, n) == Top(set, n, [p \in Posts |-> p])

Ids(list) == {list[i].post : i \in 1..Len(list)}

\* The candidates of a source that are none of some posts, in their order.
Without(batch, posts) ==
    LET kept == {i \in DOMAIN batch : batch[i].post \notin posts}
        nth(n) == CHOOSE i \in kept : Cardinality({j \in kept : j < i}) = n - 1
    IN [n \in 1..Cardinality(kept) |-> batch[nth(n)]]

\* A post that two sources bring is listed twice.
MUT_Merge(list, batch, excluded) == list \o Without(batch, excluded)

\* Duplicates and the posts the caller has already are left out; the first
\* source to bring a post keeps it.
Merge(list, batch, excluded) == list \o Without(batch, Ids(list) \cup excluded)

OneThird == IF Pool \div 3 > 1 THEN Pool \div 3 ELSE 1

Advance(r, from, to, list) ==
    /\ req[r].pc = from
    /\ req' = [req EXCEPT ![r].pc = to, ![r].list = list]
    /\ UNCHANGED <<mode, predictor, world, runtime>>

Begin(r) ==
    /\ req[r].pc = "none"
    /\ req' = [req EXCEPT ![r] =
         [pc |-> "semantic", list |-> <<>>,
          allowed |-> eligible, steady |-> TRUE, known |-> {}, hashes |-> <<>>,
          records |-> FALSE, version |-> "", answer |-> <<>>]]
    /\ UNCHANGED <<mode, predictor, world, runtime>>

\* It is cut by the query and again by gather_candidates.
SemanticCount == AtMost(Pool \div 4, FeedPool \div 4)

\* candidates_semantic: of the newest posts those whose newest feature is of their
\* present contents, the most similar first; or none if it is not enabled, misses
\* its deadline or the user has no history.
FromSemantic(r) ==
    LET window == Ids(Newest(Posts, SemanticWindow))
        embedded == {p \in window : <<p, edition[p]>> \in features}
    IN \E found \in {<<>>, Top(embedded, SemanticCount, Similarity)} :
          Advance(r, "semantic", "follow", Merge(<<>>, found, Excluded[r]))

FromFollowed(r) ==
    Advance(r, "follow", "topic",
            Merge(req[r].list, Newest(Followed, OneThird), Excluded[r]))

FromTopics(r) ==
    Advance(r, "topic", "recent",
            Merge(req[r].list, Newest(Topical, OneThird), Excluded[r]))

RecentCount == IF Pool > 2 * OneThird THEN Pool - 2 * OneThird ELSE 1

FromRecent(r) ==
    Advance(r, "recent", "backfill",
            Merge(req[r].list, Newest(Posts, RecentCount), Excluded[r]))

\* As many as are missing.
MUT_BackfillCount(list, excluded) == Pool - Len(list)

\* Enough recent posts that those already held or excluded cannot crowd out
\* the missing ones.
BackfillCount(list, excluded) == Pool + Len(list) + Cardinality(excluded)

\* The pool is topped up and cut, and an empty one answered at once.
Backfill(r) ==
    LET list == req[r].list
        more == IF Len(list) < Pool
                THEN Merge(list, Newest(Posts, BackfillCount(list, Excluded[r])),
                           Excluded[r])
                ELSE list
        pool == SubSeq(more, 1, AtMost(Pool, Len(more)))
    IN
    /\ req[r].pc = "backfill"
    /\ req' = [req EXCEPT ![r].list = pool,
                          ![r].pc = IF pool = <<>> THEN "done" ELSE "observe",
                          ![r].version = IF pool = <<>> THEN "heuristic" ELSE ""]
    /\ UNCHANGED <<mode, predictor, world, runtime>>

(***************************************************************************)
(* Context and scoring                                                     *)
(***************************************************************************)

\* observed_at: only features computed by now will be used.  The context of the
\* authors is loaded too, or done without.
Observe(r) ==
    /\ req[r].pc = "observe"
    /\ req' = [req EXCEPT ![r].pc = "context", ![r].known = features]
    /\ UNCHANGED <<mode, predictor, world, runtime>>

\* The hash of what was retrieved, which is looked up among the features.
HashOf(c) == c.text

\* load_nrms_records.  Without the feature of a candidate's contents, or past
\* the deadline, the request falls back to the heuristic.
LoadRecords(r) ==
    LET list == req[r].list IN
    /\ req[r].pc = "context"
    /\ IF predictor # "nrms"
       THEN req' = [req EXCEPT ![r].pc = "score"]
       ELSE \/ req' = [req EXCEPT ![r].pc = "rank", ![r].version = "heuristic"]
            \/ /\ \A i \in 1..Len(list) :
                    <<list[i].post, HashOf(list[i])>> \in req[r].known
               /\ req' = [req EXCEPT ![r].pc = "score", ![r].records = TRUE,
                    ![r].hashes = [i \in 1..Len(list) |-> HashOf(list[i])]]
    /\ UNCHANGED <<mode, predictor, world, runtime>>

\* _inflight is there and not done.
Busy == inflight # NoTask /\ task[inflight] = "running"

\* score_async: the slot is taken, or the request does without the model.
StartScoring(r) ==
    /\ req[r].pc = "score"
    /\ IF predictor = "none" \/ Busy
       THEN /\ req' = [req EXCEPT ![r].pc = "rank", ![r].version = "heuristic"]
            /\ UNCHANGED runtime
       ELSE /\ req' = [req EXCEPT ![r].pc = "wait"]
            /\ inflight' = r /\ task' = [task EXCEPT ![r] = "running"]
    /\ UNCHANGED <<mode, predictor, world>>

\* The thread comes back with scores, or with an error it has caught.
FinishTask(r) ==
    /\ task[r] = "running"
    /\ \E outcome \in {"scored", "failed"} : task' = [task EXCEPT ![r] = outcome]
    /\ UNCHANGED <<mode, predictor, world, req, inflight>>

\* wait_for over the shielded task: its outcome, or the deadline.
EndWait(r) ==
    /\ req[r].pc = "wait"
    /\ req' = [req EXCEPT ![r].pc = "rank",
                 ![r].version = IF task[r] = "scored" THEN mode ELSE "heuristic"]
    /\ UNCHANGED <<mode, predictor, world, runtime>>

(***************************************************************************)
(* The answer                                                              *)
(***************************************************************************)

\* The scores the candidates carry.
ScoresOf(version) == IF version = "ml" THEN Model ELSE Heuristic

\* The penalty of diversity_rerank for putting p after the chosen ones.
Penalty(p, chosen) ==
    LET last == chosen[Len(chosen)]
        topics == {Topic[chosen[i]] : i \in 1..Len(chosen)}
    IN IF chosen = <<>> THEN 0
       ELSE (IF Author[p] = Author[last] THEN 8 ELSE 0)
            + (IF Topic[p] = Topic[last] THEN 5 ELSE 0)
            + (IF Topic[p] \in topics /\ Cardinality(topics) < 3 THEN 4 ELSE 0)

\* The i-th candidate is taken before the j-th: by score less penalty; of equals
\* the one with the higher score, then the one retrieved first.  (Values are
\* shifted by 17, the largest penalty.)
Precedes(i, j, posts, chosen, scores) ==
    LET value(k) == scores[posts[k]] + 17 - Penalty(posts[k], chosen)
        score(k) == scores[posts[k]]
    IN \/ value(i) > value(j)
       \/ value(i) = value(j) /\ score(i) > score(j)
       \/ value(i) = value(j) /\ score(i) = score(j) /\ i <= j

\* diversity_rerank: at each place the candidate that precedes all that are left.
DiversityRerank(posts, scores) ==
    LET picked[n \in 0..AtMost(Limit, Len(posts))] ==
            IF n = 0 THEN <<>>
            ELSE LET before == picked[n - 1]
                     chosen == [m \in 1..n - 1 |-> posts[before[m]]]
                     left == (1..Len(posts)) \ Range(before)
                 IN Append(before, CHOOSE i \in left : \A j \in left :
                                      Precedes(i, j, posts, chosen, scores))
        order == picked[AtMost(Limit, Len(posts))]
    IN [n \in DOMAIN order |-> posts[order[n]]]

\* In shadow the model's scores order the answer too.
MUT_Answer(posts, version) ==
    DiversityRerank(posts, ScoresOf(IF version = "shadow" THEN "ml" ELSE version))

Answer(posts, version) == DiversityRerank(posts, ScoresOf(version))

\* The retrieval telemetry is written within its deadline or not, and the
\* answer given.
Respond(r) ==
    /\ req[r].pc = "rank"
    /\ req' = [req EXCEPT ![r].pc = "done",
         ![r].answer = Answer([i \in 1..Len(req[r].list) |-> req[r].list[i].post],
                              req[r].version)]
    /\ UNCHANGED <<mode, predictor, world, runtime>>

RequestStep(r) ==
    \/ FromSemantic(r) \/ FromFollowed(r) \/ FromTopics(r) \/ FromRecent(r)
    \/ Backfill(r) \/ Observe(r) \/ LoadRecords(r) \/ StartScoring(r) \/ EndWait(r)
    \/ Respond(r)

ApiNext ==
    \/ \E p \in Posts : Exclude(p) \/ Admit(p) \/ Edit(p) \/ Embed(p)
    \/ \E r \in Requests :
         Begin(r) \/ RequestStep(r) \/ FinishTask(r)

ApiSpec == ApiInit /\ [][ApiNext]_apiVars

(***************************************************************************)
(* Properties                                                              *)
(***************************************************************************)

Answered(r) == req[r].pc = "done"
Retrieved(r) == req[r].pc \notin {"none", "semantic", "follow", "topic", "recent",
                                  "backfill"}

\* Sources overlap and the caller has seen posts already, yet the pool is as
\* large as the posts that may be shown allow, if those did not change
\* meanwhile.
PoolIsFilled ==
    \A r \in Requests : Retrieved(r) /\ req[r].steady =>
       Len(req[r].list) =
          AtMost(Pool, Cardinality(req[r].allowed \ Excluded[r]))

\* An answer holds no post twice, none the caller excluded and none that may not
\* have been shown at any time since the request began, however slow it was and
\* whatever was hidden and published meanwhile.  (Nothing is looked at twice: a
\* post hidden after its source was asked is still answered.)
NothingUnwanted ==
    \A r \in Requests : Answered(r) =>
       /\ IsInjective(req[r].answer)
       /\ Range(req[r].answer) \subseteq req[r].allowed \ Excluded[r]

\* An answer says truly who ranked it.  The model's name means that the task of
\* this very request scored it and that it was scored on embeddings of the
\* contents retrieved; any other answer has the order of the heuristic.
HonestVersion ==
    \A r \in Requests : Answered(r) /\ req[r].list # <<>> =>
       LET posts == [i \in 1..Len(req[r].list) |-> req[r].list[i].post]
       IN /\ req[r].version = "ml" =>
               /\ mode = "ml" /\ task[r] = "scored"
               /\ predictor = "nrms" => req[r].records
          /\ req[r].version # "ml" =>
               req[r].answer = DiversityRerank(posts, Heuristic)
=============================================================================
