# Oecophylla verification

TLA+ models of Oecophylla, a social network with a personalised feed: Rust
services behind a gateway, Python workers that turn interactions into preference
vectors and posts into embeddings, a recommendation API, an offline pipeline that
builds datasets and models, and a SvelteKit client, over PostgreSQL, Redis and Kafka.
Paths below are relative to the repository root (`src/`).

Contents: [inventory](#1-inventory) · [modules](#2-modules-and-their-code) ·
[runs](#3-runs) · [bounds](#4-bounds) · [fairness](#5-fairness) ·
[proofs](#6-proofs) · [findings](#7-findings) · [not modelled](#8-not-modelled) ·
[plan](#9-plan)

To repeat the checks: `tlc -config <cfg> <module>` for each row of section 3, and
`tlapm <module>` for each of `OutboxProofs`, `FeatureStoreWorkerProofs`,
`EventPipelineProofs`, `PreferencesProofs`, `InteractionsProofs`,
`ContentFeaturesProofs`, `RecommendationProofs` and `OfflinePipelineProofs`.

## 1. Inventory

### Parts, state and operations

| Part | State it keeps | Operations that change state | Talks to |
|---|---|---|---|
| interaction-service (`backend/services/interaction-service`) | `interactions` (like, save, share, hide, report), `reports`, `comments`, post counters, `behavior_events`, `interaction_event_outbox` | like, save, share, hide and their reversals, report, comment, delete comment, behaviour batch; outbox dispatch and cleanup | Kafka `interactions` (through the outbox), recommendation label |
| feature-store worker (`workers/feature_store_worker`, `workers/common`) | Kafka offsets, micro-batch buffer, `feature_event_receipts`, `user_preference_vectors`, `user_preference_vectors_v2`, recent topics, Redis `pref:*`, `trending:24h` | poll, flush, apply a user's events, refresh the cache, count trending, commit offsets, recent-topic refresh, backfill and replay of v2 | Kafka, PostgreSQL, Redis |
| content-service | posts | create, edit, publish, delete; publish `content.created`, `content.updated` | Kafka |
| NLP worker (`workers/nlp_worker`) | post topics, feature rows keyed by content hash and encoder version, offsets, the checkpoint of a rebuild | consume content events, classify, encode, rebuild | Kafka, PostgreSQL |
| recommendation API (`recommendation_api`) | vector cache, ranker runtime with one scoring slot | recommend, rebuild features, look up a vector, diversity re-rank | PostgreSQL, Redis |
| recommendation label (`recommendation_label`, `label_contract.rs`) | none | label of an impression from its behaviour events | - |
| offline ML pipeline (`ai_pipeline`) | dataset files, checkpoints, artifacts, reports, the directory of a model search | extract, validate and split a dataset; train with resume; evaluate; observe and approve; prepare, encode, train, select, benchmark | PostgreSQL, file system |
| notification-service | `notifications`, Redis `notif:unread_count:*`, broadcast channels per user | consume `interactions`, `user.followed`, `moderation.action`; mark read; SSE stream | Kafka, Redis, browser |
| feed-service | Redis `feed:*`, impression log | build, cache and page a feed; fall back to trending or recent posts | recommendation API, Redis |
| cache-invalidator | Kafka offsets | delete `feed:*` and `pref:*` on preference-changing events | Kafka, Redis |
| moderation-service | report status, post status, audit log | resolve, dismiss, restore under row locks; publish `moderation.action` after commit | Kafka |
| auth-service | users, Redis `session:refresh:*` | register, login, refresh, logout, change password, deactivate | Redis |
| user-service | profiles, `follows` | follow, unfollow, edit profile, upload avatar | Kafka `user.followed` |
| shared middleware (`backend/crates/common`) | Redis `rate:*` | rate limit, authenticate, produce to Kafka | Redis, Kafka |
| telemetry client (`frontend/src/lib/telemetry`, `lib/actions`) | queue of behaviour events in the browser | enqueue, flush, retry with the same `client_event_id`, dispose | interaction-service |
| notification store (`frontend/src/lib/stores/notifications.ts`) | list, unread counter, stream handle | open, recover, close the stream; mark read | notification-service |
| analytics service | none | read-only queries | PostgreSQL |

### The event path

A like is one PostgreSQL transaction of the interaction service: it changes `interactions`
and the post counter, writes the canonical `behavior_events` row and inserts the
envelope in `interaction_event_outbox`. Each replica runs a dispatcher that locks
the oldest unsent row with `FOR UPDATE SKIP LOCKED`, produces it to `interactions`
(keyed by post id, so the events of one user are spread over partitions), marks it
sent and commits. The feature-store worker reads the topic with manual offset
commits, claims a receipt per event in the transaction that updates the two
preference vectors, and afterwards refreshes the Redis copy. The notification
service and the cache invalidator read the same topic in groups of their own.

Nothing on this path is exactly-once: the dispatcher may die between the broker's
acknowledgement and its commit, a produce request may outlive its timeout, Kafka
redelivers after a crash or a rebalance, and a failed batch is retried. Receipts
make the effect on the vectors exactly-once. That end-to-end claim is what the
core of this project is about.

### The content and model path

A post that is created or edited is announced on a topic after its commit. The NLP
worker reads the post as it is by then, fills in topics if it has none and stores an
embedding keyed by the hash of the text; a rebuild does the same for all posts, page by
page. The recommendation API gathers candidates, loads their embeddings and the
reader's history, and lets the model score them within a deadline, or falls back to a
heuristic. What it served is recorded. Later `build_dataset.py` joins impressions,
behaviour and embeddings *as of the time of serving* into rows, splits them by time and
validates them; `train.py`, `evaluate.py` and `release_gate.py` turn them into an
approved model, and `continuation.py` searches among configurations with a sealed
holdout. Every one of these reads at one moment and writes at another, next to others
that do the same.

### What is hard, and what makes each part correct

| Part | Hard behaviour | Correct when |
|---|---|---|
| outbox | crash between acknowledgement and commit; late requests; several replicas; rows that always fail; cleanup | nothing committed is lost, nothing uncommitted is published, duplicates only from faults, a healthy row is published at some time |
| feature-store worker | redelivery, duplicates within a batch, failure of one user of a batch, unknown COMMIT, crash before the cache refresh, rebalance with a full buffer, cancellation during a flush, two workers during a rolling update | each event is in its vector at most once and never without its receipt, no offset passes an unfinished event, the cache is not older than the offset, trending never double-counts |
| stored preferences | workers, replay, backfill, topic refresh and the API write the same rows and keys | a vector is not older than its receipts, topics are those of the views in the window, keys and answers follow the rows |
| interaction handlers | crossing toggles of one row, deletions of one comment at once, a report while another is pending, transactions that start in one order and lock in another | counters are the rows behind them, the history replays to the rows |
| content and NLP | an edit committed between read and store; replays; refused labels; a rebuild that pages by a time stamp | no text without its vector, topics of the text beside them, the checkpoint covers what is behind it |
| feed request | posts change while it runs; one scoring slot; deadlines | pool filled, nothing hidden shown, the model named only where it ranked |
| dataset | rows that arrive late, edits between scoring, click and training | no future in a row, training sees what serving saw, a build can be repeated |
| training and release | kills and resumes, a dataset rebuilt in place, a model replaced under evaluation | an artifact is what its manifest says; approval on its own evidence |
| model search | stages that overlap or die between two files | the holdout is opened once, a search is stuck only after a fault |
| notification-service | redelivery without a receipt, handler errors with committed offsets, cache fill racing an invalidation, slow receivers | one notification per event and recipient, unread count equals the rows |
| feed, invalidator | a feed built from old preferences stored after the invalidation | a cached feed is not older than its last invalidation; paging shows no post twice |
| moderation | two administrators on one report; publish after commit | a report leaves `pending` once; the audit log agrees with the post |
| auth | two refreshes with one token; refresh racing password change or deactivation | one live session per rotated token; none after a password change |
| telemetry | answer lost, retry, page hidden, disposal | each event counted once, queue bounded |

`PROJECT.json` lists the hazards of the modelled parts line by line, with the property
that watches each of them.

## 2. Modules and their code

| Module | Models | Kind |
|---|---|---|
| `Outbox` | `outbox.rs`, the producer of `crates/common/src/kafka.rs`, `enqueue_outbox_events` | component |
| `FeatureStoreWorker` | `run`, `_flush`, `_apply_for_user` of `feature_store_worker/app/main.py`, `MicroBatchBuffer` | component |
| `FeatureLedger` | what the pipeline promises, without its machinery | abstract specification |
| `EventPipeline` | outbox and worker joined by the topic and the canonical rows | composition |
| `Preferences` | vectors, recent topics and keys of one user: the transactions of the worker, `rebuild_v2.py`, `rebuild_features`, `fetch_user_vector` | component |
| `Interactions` | `toggle_post`, `report_post`, `create_comment`, `delete_comment` and the statements of `repo.rs` they run | component |
| `ContentFeatures` | writes of content-service, `kafka_consumer.py`, `embedding_worker.py`, `repository.py`, `rebuild.py` | composition of three programs over one table |
| `RecommendationApi` | the feed request: `main.py`, candidate sources of `features.py`, `ranking.py`, `model_ranker.py` | component |
| `RankingDataset` | `serving_context.py`, `build_dataset.py` (dataset v2) with its validator | serving and extraction composed |
| `EngagementLabel` | the label of an impression, as a definition by sets | pure, reference definition |
| `BehaviorReplay` | the loop of `derive_label`, `build_preference_vector_v2`, `ranked_view_topics` | pure, against reference definitions |
| `DatasetSplit` | `_split_rows` and `_split_ranking_rows` | pure, over all small datasets |
| `ModelSearch` | `continuation.py` with the functions of `mind_large.py`, `finetune.py` and `benchmark.py` it runs | component |
| `ModelRelease` | `build_dataset.py` as a writer of files, `train.py`, `evaluate.py`, `release_gate.py` | component |
| `OutboxProofs`, `FeatureStoreWorkerProofs`, `EventPipelineProofs`, `PreferencesProofs`, `InteractionsProofs`, `ContentFeaturesProofs` | inductive invariants and theorems about the component each is named after | proofs |
| `RecommendationProofs` | the same about `RecommendationApi` and `BehaviorReplay` | proofs |
| `OfflinePipelineProofs` | the same about `ModelSearch`, `ModelRelease`, `RankingDataset` and `DatasetSplit` | proofs |
| `MC...` | constants for TLC; `MCInteractions`, `MCOfflineModels` and `MCAlgorithms` each put two specifications that share nothing into one instance, of which one moves while the other has not begun | instances |

Operators named `MUT_...` are deliberately wrong variants of the definition that
follows them, one for each way the code could plausibly go wrong; no specification
uses them. Replacing the definition by its variant must violate the property that
watches it, which shows that the property depends on that code.

### Outbox

`row[e]` is the life of a row: `none`, `open` (the inserting transaction has
started), `pending` (committed, unsent), `sent`, `deleted`. `started` is the order of
`created_at`, which is `NOW()`, that is the *start* of the transaction; rows can
therefore appear behind the dispatcher's back. `dpc`, `locked` and `attempted` are
the local state of each dispatcher.

| Action | Code |
|---|---|
| `BeginEvent`, `EnqueueEvent` | the request transaction begins; it commits with its outbox row |
| `SelectRow`, `EndBatch` | `dispatch_next` selects; `dispatch_batch` returns and `run` sleeps |
| `SendAck`, `SendFail`, `SendTimeout`, `LateAppend` | outcomes of `try_produce_json`; a timed-out request may still be appended |
| `CommitOutcome`, `CommitUnknown` | the `UPDATE` and `tx.commit()`; the latter's answer is lost |
| `Interrupt` | a database error or the death of the process |
| `Cleanup` | `cleanup_batch`; ages are not modelled, any sent rows may go |

### FeatureStoreWorker

Vectors are abstracted to the events they hold: `v1[u]` is a bag, because
`apply_topic_delta` adds weighted topic deltas, which commute; `v2[u]` is the set
of canonical rows the last replay saw, because `build_preference_vector_v2` is a
function of them. Events are of four kinds that the code tells apart: `Skipped`
(dropped by `_flush`), `Unweighted` (a `view_observed` event: receipt only),
`ZeroWeight` (no v1 and no trending contribution), and the rest. `Missing` users
have been deleted.

| Action | Code |
|---|---|
| `Poll` | `getmany`, `extend_records`, `ready`, and `_flush` up to its first await |
| `ClaimReceipts` | the transaction of `_apply_for_user` up to its last read |
| `CommitFeatures` | the writes and the COMMIT, and whether a refresh follows |
| `ApplyFails` | any exception up to the COMMIT, which may have taken effect |
| `RefreshCache`, `RefreshFails` | `_refresh_preference_cache`; a failure stops between any two commands |
| `FinishFlush` | trending, then re-queue of failed events or success |
| `CommitOffsets` | `consumer.commit()`: the positions of the partitions owned *at that time* |
| `Crash`, `Rebalance`, `Cancel`, `ExpireCache` | death, group rebalance, SIGINT, expiry of keys |

`ClaimReceipts` takes the receipt INSERT and the reads of the vectors in one step.
That loses no behaviour that matters: between them other workers can only commit
receipts the INSERT did not conflict with (it waits on those that do conflict), and
such a commit may as well be ordered before the INSERT, where it changes nothing the
INSERT sees. The wait on a conflicting uncommitted receipt is the third conjunct.

`Publish` stands for the outbox in runs of the worker alone: any committed event,
any number of times, in any order. In `EventPipeline` the real outbox takes its
place.

### EventPipeline and FeatureLedger

The components share `log` and `canonical`. `AcceptInteraction` is the commit of a
request transaction: the outbox row and the canonical row appear together.
`FeatureLedger` knows only accepted events and vectors; the refinement mapping is
`accepted <- O!Committed`, `vector <- v1`, and `ExactlyOnceEffects` is the refinement,
the ledger's fairness included.

### Interactions

Each request is a READ COMMITTED transaction in two steps: `Begin` fixes `NOW()`, and
the body runs later. The body of a toggle starts with the INSERT or DELETE that locks
the row of the user, post and type, and that of a report with the INSERT into the
partial unique index; a crossing request waits there, so the rest may be one step.
`delete_comment` reads the comment without a lock before its UPDATE: it is two steps
(`ReadComment`, `DeleteComment`). `history` holds the canonical `behavior_events`
rows; their envelopes have the same ids and are the subject of `Outbox`.
`MCInteractions` runs without deadlock checking: after `MaxStarts` requests the
service is idle, which is no error.

| Action | Code |
|---|---|
| `Begin`, `Abort` | `db.begin()` after authentication and validation; rollback on an error |
| `Toggle` | `toggle_post` for the eight routes `like_post` ... `unhide_post` |
| `Report`, `ResolveReport` | `report_post`; the moderation service resolves the report |
| `CreateComment`, `ReadComment`, `DeleteComment` | `create_comment`; `soft_delete_comment` and the counter |

### Preferences

One user. A weight is 1 or -1, so that the v1 vector is a number, the sum of its
deltas; the v2 vector is the number of behaviour rows it was replayed from; every view
has a topic of its own, so a set of topics is a set of views. A transaction is several
steps: it holds `locks` to its end, and a commit that writes what another open
transaction has read marks that reading `stale`. `torn` collects what was then written
from a stale reading: the lost updates the code permits, which the properties exempt by
name, so that they state what holds apart from them. `held` says which rows the v1
vector is the sum of: those of the like behind the interactions `rebuild_features` has
read, and those workers have added since. With it `InteractionsCountedOnce` needs no
exemption for its main half: a like is in the vector twice only if it is in both. The
keys are deleted by one command and set by one SETEX each; a key may expire, and the
process die, between any two of them.

| Action | Code |
|---|---|
| `Record`, `PassHour` | the user does something (row and event in one commit); time passes |
| `Claim`, `SaveVectors`, `ReadViews`, `UpdatePrefs`, `CommitApply` | `_apply_for_user` in the order of its statements |
| `DeleteKeys`, `SetKeys`, `Reread` | `_refresh_preference_cache` command by command, and the refresh after a batch of duplicates |
| `ExpireKey` | the time to live of a key |
| `Due`, `CommitDue` | `_refresh_due_recent_topics` |
| `Backfill`, `ReplayUser`, `CommitReplay` | `_backfill_v2`, `rebuild_v2.py` |
| `Aggregate`, `UpsertUserVector`, `SetPref` | `rebuild_features` of the API |
| `StartRead`, `ReadOn` | `fetch_user_vector`, one look-up at a time |
| `Fail`, `BreakDeadlock` | an error or death, and what the retry of the code makes of it; PostgreSQL rolls one of two deadlocked transactions back |

### ContentFeatures

A text stands for itself and for the topics inferred from it. `write` is the statement
in flight on a post: `updated_at` is its start, `CommitWrite` its end. `proc` holds the
call of `EmbeddingService.process` the consumer and the rebuild are in, with the row as
they read it.

| Action | Code |
|---|---|
| `BeginWrite`, `CommitWrite`, `Delete` | `create_post`, `update_post` (with `validate_update_post`), `delete_post` |
| `Announce` | `produce_json` after the commit; a failure is logged and dropped |
| `Consumer` | poll, `_process_batch`, `process`, commit, one statement at a time |
| `Reconnect` | an exception or a restart: back to the committed offset |
| `Process("rebuild")`, `FetchBatch`, `EndBatch`, `KillRebuild` | `rebuild.py`, the page query, the checkpoint, death |

The rebuild is modelled with its default concurrency of 1. A batch of the consumer has up
to 2n - 1 records: a poll of n may meet a buffer of n - 1, which is drained whole.

### RecommendationApi

A candidate is a post with the contents it had when a source returned it. `eligible` is
what the exclusion rules let pass: it loses posts that are hidden, reported, seen or taken
down, and gains those that are published or whose cooldown is over. A source is
ordered by its key and, where the keys are equal, by the id; the reranking orders by the
scores the candidates carry, which are the model's only in mode `ml`. The requests
interleave at every await; `inflight` is the single scoring slot. `allowed` holds the
posts that were eligible at some time since a request began, and `steady` says that there
was no change meanwhile.

| Action | Code |
|---|---|
| `Exclude`, `Admit`, `Edit`, `Embed` | the world moves: hides, publications, edits, embeddings |
| `Begin`, `FromSemantic`, `FromFollowed`, `FromTopics`, `FromRecent`, `Backfill` | `gather_candidates` source by source, with its deduplication; `candidates_semantic` with its window and its share of the pool |
| `Observe`, `LoadRecords` | the clock of the snapshot; `load_nrms_records` |
| `StartScoring`, `FinishTask`, `EndWait` | `score_async`, the scoring thread, the deadline |
| `Respond` | `diversity_rerank` and the answer |

### RankingDataset

A row carries stamps taken when its statement began and becomes visible when it
commits; the step that inserts it therefore picks its stamps from the past. The dataset
an extraction at time `t` builds is an operator of the stored rows and `t` (`Dataset`,
`Rows`), with the validator (`Refusals`) beside it: extraction reads one repeatable
snapshot, so the interesting interleaving is between the stored rows and `t`, and every
`t` is tried in every state.

| Action | Code |
|---|---|
| `Tick` | the clock |
| `Edit`, `InsertFeature` | `update_post`; `EmbeddingService.process` |
| `Serve` | `recommend_feed` and the impression snapshot, with every fallback |
| `Ingest` | a behaviour event of the client arrives |
| `Known`, `ExposureAt`, `History`, `Rows`, `Refusals` | `build_dataset.py`: extraction, `_verified_exposure_at`, `build_history_snapshot`, the rows, the validator |

### EngagementLabel, BehaviorReplay, DatasetSplit

Pure algorithms, checked in every state of a machine that only grows their input: all
histories of up to three events in any order of times and ids, all datasets of up to
fourteen requests in rising time. `EngagementLabel` says what a label *is*, by sets and
without an order of processing, for both label versions and for v1 with
`v1_any_view_positive`; `BehaviorReplay.DeriveLabel` is the loop of the code.

### ModelSearch

The files of one search directory and the processes that run a stage each. A file that
is being written is `Torn`; a directory that is being created is there. Stages read
their inputs at the start and write much later. All encodings write the one temporary file
`embeddings.tmp.npz`: of two that do so at once, the first to rename it publishes either
content or a mixture, which the other may still be changing, and the other may find nothing
to rename.

| Action | Code |
|---|---|
| `Prepare`, `StoreSalt`, `WriteDataset`, `WriteProtocol` | `--stage prepare` |
| `Encode`, `CacheEmbeddings`, `ReadChecksum`, `RegisterEmbeddings` | `--stage encode`, `cached_embeddings` |
| `Train`, `FitCandidate`, `ExportTrial`, `ReportTrial` | `train_candidates`, `export_artifact` |
| `Select`, `FreezeWinner`, `WriteSelection` | `select_winner`, `freeze_winner` |
| `Benchmark`, `OpenBenchmark`, `Evaluate`, `WriteTarget` | `benchmark_winner` |
| `Crash` | death between two files or within one |

### ModelRelease

Files are known by the dataset version they hold; weights are the sequence of the
versions their epochs went over.

| Action | Code |
|---|---|
| `WriteParquet`, `WriteMetadata` | `build_dataset.py` replaces its two files, one after the other |
| `StartTraining`, `ReadRows`, `PrepareTraining`, `TrainEpoch`, `WriteArtifact` | `train.py` with its checkpoint and its contract |
| `ScoreHoldout`, `WriteComparison` | `evaluate.py` |
| `PassTime`, `Deploy`, `EndWindow` | shadow and canary operation, whose evidence the operator collects |
| `Kill` | death of a process |
| `Approved` | `release_gate.py`, as a predicate on the evidence |

## 3. Runs

| Run | Module, cfg | Question | Result |
|---|---|---|---|
| `outbox` | `MCOutbox`, `MCOutbox.cfg` | Two dispatchers, two rows of which one always fails, three faults: is anything lost, duplicated without a fault, or held up by the bad row? | holds |
| `worker` | `MCFeatureStoreWorker`, `MCWorker.cfg` | One worker, redelivery, every failure path: are receipts, vectors, trending, cache and offsets consistent, and is every event consumed? | holds |
| `worker_pair` | `MCFeatureStoreWorker`, `MCWorkerPair.cfg` | Two workers that may be cancelled at any await, events of one user on two partitions: at most once? | holds |
| `worker_lost_update` | `MCFeatureStoreWorker`, `MCWorkerLostUpdate.cfg` | Two workers: does every receipt keep its contribution to the v1 vector? | violated (finding 1) |
| `pipeline` | `MCEventPipeline`, `MCEventPipeline.cfg` | Does the whole pipeline implement the ledger, liveness included, and is what is not applied still recoverable? | holds |
| `interactions_preferences` | `MCInteractions`, `MCInteractions.cfg` | Two users, two requests at a time: do counters follow the rows, and the history too? And what workers, a replay and the API store about one user: right but where two writers cross? | holds |
| `content_features` | `MCContentFeatures`, `MCContentFeatures.cfg` | Consumer and rebuild beside authors who edit: is a text forgotten, mislabelled, or skipped by the checkpoint? | holds |
| `dataset` | `MCRankingDataset`, `MCRankingDataset.cfg` | Late rows and edits in every order around two requests: does a row leak the future, or training see another history or text than serving? | holds |
| `dataset_stale_embedding` | `MCRankingDataset`, `MCStaleHistory.cfg` | Is a history entry embedded as the text its reader saw? | violated (finding 2) |
| `offline_models` | `MCOfflineModels`, `MCOfflineModels.cfg` | Overlapping and dying stages; datasets rebuilt under trainings: is the holdout opened once, an artifact exact, an approval earned? | holds |
| `serving` | `MCRecommendationApi`, `MCRecommendationApi.cfg` | Two feed requests, one scoring slot, a changing world: is the pool filled, nothing unwanted shown, the model named truly? | holds |
| `algorithms` | `MCAlgorithms`, `MCAlgorithms.cfg` | Do label loop, preference vector, topic ranking and splits compute what they should on all small inputs? | holds |

| Property | Says |
|---|---|
| `NoEventLost` | a row is sent or deleted only when the broker has its record |
| `DuplicatesNeedFaults` | the log holds at most as many extra copies as there were faults |
| `HealthyEventsPublished` | a committed row the broker takes is published at some time |
| `AppliedAtMostOnce` | no vector holds an event twice or without its receipt |
| `VectorsMatchReceipts` | every receipt of a weighted event has its contribution (one worker) |
| `NothingLost` | no offset is committed past an event that still needs work |
| `CacheReflectsCommitted` | past the offset the cached vector is not older than the row |
| `TrendingAtMostOnce` | trending counts an event at most once |
| `EverythingConsumed` | every record gets below the committed offset |
| `UnappliedIsRecoverable` | an accepted event is applied, in the topic ahead of the offset, or in the outbox |
| `ExactlyOnceEffects` | outbox, topic and worker refine `FeatureLedger` |
| `ReplayNotBehind`, `InteractionsCountedOnce`, `TopicsFollowViews` | v2 has all receipted behaviour and topics are those of the views, but for crossing writers; v1 is always a sum of rows each added once by a worker and once more at most by a rebuild, and lacks none but for crossing writers |
| `KeysFollowRows`, `AnswersAreCurrent` | a key is missing or right; a read answers with a value of its own duration |
| `CountersMatchRows`, `CommentCountNeverHigh`, `ReplayMatchesRows` | counters are the rows behind them; the history replays to the rows unless transactions overlapped |
| `NoTextForgotten`, `TopicsFollowText`, `CheckpointCovers`, `AnnouncedIsClassified` | vectors, topics and checkpoint follow the text, with the exceptions each names |
| `BuilderMeetsValidator`, `TrainedAsServed`, `ScoredTextIsTrained`, `Reproducible` | no future in a row, same history and text as served, same build for the same time |
| `HoldoutOpenedOnce`, `FittedOnRegistered`, `StuckOnlyByFaults` | one evaluation on the holdout, trials on registered embeddings, no dead end without a fault |
| `ResumeIsExact`, `ApprovedOnItsEvidence` | an artifact is what it claims; an approved model earned it |
| `PoolIsFilled`, `NothingUnwanted`, `HonestVersion` | as many candidates as there can be, none that could not be shown at any time since the request began, the ranker named truly |
| `LoopComputesLabel`, `VectorAgreesWithLabel`, `VisitsCountedOnce`, `OldViewsChangeNothing`, `NothingFromTheFuture` | loops against definitions, agreement between them, splits by time |

## 4. Bounds

Named in the cfg files; `MaxFaults` and its kin cap crashes, failed calls, lost answers
and rebalances.

- Outbox: two rows in a batch of two, the older of which the broker refuses for good,
  on two partitions; three faults allow a late request, a crash and an unknown commit.
- Worker: one partition of three records and batches of two give a full batch, a rest
  flushed by the timer, and a duplicate inside or across batches. A reader with a like
  and a view (whose application caches a vector without the like) and a deleted user:
  either may fail while the other is applied. Two faults give a failure and a crash.
- Two workers: two events of one user on two partitions, the least that makes the
  workers meet in one vector, and one that `_flush` drops; logs of two records, so that
  an event is redelivered; one fault: the rebalance or cancellation that separates them.
- Preferences: two tasks, two behaviour rows, three calls, one failure or expired key
  (`MaxMisses`). Two writers of
  one row or key meet in every order; a third adds no new pair of statements.
  `Window = 0` makes the hour a view leaves the window reachable within `MaxHour = 1`.
- Pipeline: one event and two faults in each half, four records, more than the outbox
  can produce with its faults. (Two events are within reach of neither the liveness
  check nor its graph; the components are checked with more.)
- Interactions: two users, an administrator among them, and one post, since no
  statement relates two posts; two requests at a time and `MaxStarts` = 4, enough for
  a like, an unlike and two requests that cross them, or for a comment, a reply and
  two deletions. `Types` is like, which has a counter, and hide, which has none: save
  and share take the same lines as like. Requests and comments are interchangeable.
- Content: two posts in a page of two (so batches of up to three), two writes, one
  fault, one retry of the encoder.
  The second write is the edit that crosses the readers of the first.
- Dataset: one post with one edit, two requests (a click on the first is history for
  the second), two events, three ticks with a lag of one. The stale-history run needs
  four ticks and no lag.
- Search: two stages at a time, two configurations, three scores (below, equal and above
  the parent), one fault. Release: two versions, two outputs, two epochs (a kill between
  them), two builds, one kill, two windows.
- Serving: four posts, of which one is hidden at first, and a pool of four, so that
  sources overlap and must be topped up; a semantic window of three, so that it does not
  reach the oldest post; two requests, one with an excluded post; one change of the world,
  which hides, publishes or edits a post.
- Algorithms: three events at three times with sixteen templates; fourteen requests are
  the least at which 70/15/15 gives each split more than one.

`CHECK_DEADLOCK FALSE` stands where the system is at rest once its bounded work is
done; the outbox, the worker and the pipeline, whose loops never end, are checked for
deadlock.

What the bounds leave open is closed by the theorems of section 6, for every safety
property under the hypotheses named there.

## 5. Fairness

- Outbox: `run` is an endless loop and every await in it returns or raises, hence
  weak fairness of selecting, ending a batch and committing. An outage of Kafka
  ends: a row that is tried again and again is acknowledged at some time (strong
  fairness of `SendAck` per row), unless the broker refuses it for good (`Poison`).
- Worker: weak fairness of the step of each worker. Failures are bounded by
  `MaxFaults`, that is, an outage ends.
- Content: weak fairness of the consumer's next step and of an announcement's outcome
  (`produce_json` returns). None for authors or for the rebuild, which a person starts.
- No fairness for requests, faults, cleanup, expiry or late appends; none at all for
  the offline stages, which are started by hand: they have no liveness property, and
  `StuckOnlyByFaults` says instead that some stage *could* go on.

## 6. Proofs

For every value of the constants, from the named assumptions of the modules only
(`OutboxAssumption`, `WorkerAssumption`, `PipelineAssumption`, `PreferencesAssumption`,
`InteractionsAssumption`, `ContentAssumption`, `SearchAssumption` and
`ContentsAssumption`, `ReleaseAssumption`, `DatasetAssumption`, `SplitAssumption`,
`ApiAssumption`, `ReplayAssumption`) and from the
hypotheses the third column names:

| Theorem | States | Hypothesis | Inductive invariant |
|---|---|---|---|
| `OutboxTypeCorrect` | `[]TypeOK` | | `OutboxInv` |
| `OutboxNoEventLost`, `OutboxNoPhantomEvent`, `OutboxRowLockExclusive` | nothing lost, nothing invented, no row held twice | | `OutboxInv` |
| `OutboxDuplicatesNeedFaults` | `[]DuplicatesNeedFaults` | | `PublishInv` |
| `WorkerTypeCorrect` | `[]TypeOK` | | itself |
| `WorkerAppliedAtMostOnce` | `[]AppliedAtMostOnce`, cancellation and any number of workers included | | `OnceInv` |
| `WorkerNothingLost` | `[]NothingLost` | `~Cancellable` | `LossInv` |
| `WorkerTrendingAtMostOnce` | `[]TrendingAtMostOnce` | | `TrendInv` |
| `WorkerVectorsMatchReceipts` | `[]VectorsMatchReceipts` | one worker | `MatchInv` |
| `WorkerCacheReflectsCommitted` | `[]CacheReflectsCommitted` | one worker, `~Cancellable` | `FreshInv` |
| `PipelineUnappliedIsRecoverable` | `[]UnappliedIsRecoverable` | | `PipelineInv` |
| `PipelineImplementsLedger` | `Ledger!Init /\ [][Ledger!Next]_(Ledger!vars)` | one worker | `LedgerInv` |
| `PreferencesTypeCorrect` | `[]PrefTypeOK` | | itself |
| `PreferencesReplayNotBehind` | `[]ReplayNotBehind` | | `ReplayInv` |
| `PreferencesInteractionsCountedOnce` | `[]InteractionsCountedOnce` | | `CountInv` |
| `PreferencesTopicsFollowViews` | `[]TopicsFollowViews` | | `TopicsInv` |
| `PreferencesKeysFollowRows` | `[]KeysFollowRows` | | `KeyInv` |
| `PreferencesAnswersAreCurrent` | `[]AnswersAreCurrent` | | `AnswerInv` |
| `InteractionsCountersMatchRows` | `[]CountersMatchRows` | | `RequestInv`, `CountersInv` |
| `InteractionsCommentCountNeverHigh` | `[]CommentCountNeverHigh` | | `RequestInv`, `CommentsInv` |
| `InteractionsReplayMatchesRows` | `[]ReplayMatchesRows` | | `RequestInv` |
| `ContentTopicsFollowText` | `[]TopicsFollowText` | | `PlaceInv` |
| `ContentNoTextForgotten` | `[]NoTextForgotten` | | `PlaceInv`, `TextsCovered` |
| `ContentCheckpointCovers` | `[]CheckpointCovers` | | `PlaceInv`, `CoverInv` |
| `ApiPoolIsFilled` | `[]PoolIsFilled` | | `ApiInv` |
| `ApiNothingUnwanted` | `[]NothingUnwanted` | | `ApiInv` |
| `ApiHonestVersion` | `[]HonestVersion` | | `ApiInv` |
| `ReplayLoopComputesLabel` | `[]LoopComputesLabel` | | `LogInv` |
| `ReplayVectorAgreesWithLabel` | `[]VectorAgreesWithLabel` | | `LogInv`; over the replay: `VectorOK` |
| `ReplayVisitsCountedOnce` | `[]VisitsCountedOnce` | | `LogInv`; over the replay: `VisitsOK` |
| `ReplayOldViewsChangeNothing` | `OldViewsChangeNothing` | | `LogInv` |
| `DatasetBuilderMeetsValidator` | `[]BuilderMeetsValidator` | | `DatasetInv` |
| `DatasetTrainedAsServed` | `[]TrainedAsServed` | | `DatasetInv` |
| `DatasetScoredTextIsTrained` | `[]ScoredTextIsTrained` | | `DatasetInv` |
| `DatasetReproducible` | `Reproducible` | | `DatasetInv` |
| `SplitNothingFromTheFuture` | `[]NothingFromTheFuture` | `TrainPercent + ValidationPercent > 25` | `SplitTimes` |
| `SearchHoldoutOpenedOnce` | `[]HoldoutOpenedOnce` for any number of stages at a time | | `SearchInv` |
| `SearchFittedOnRegistered` | `[]FittedOnRegistered` | | `FittedInv` |
| `SearchStuckOnlyByFaults` | `[]StuckOnlyByFaults` | | `GoesOnInv` |
| `ReleaseResumeIsExact` | `[]ResumeIsExact` | | `TrainingInv` |
| `ReleaseApprovedOnItsEvidence` | `[]ApprovedOnItsEvidence` | | `EvidenceInv` |

"One worker" is the deployment's single replica outside a rolling update; with two, run
`worker_lost_update` refutes the property. Cancellation is the other restriction of
section 7.

*Outbox.* None of the properties is inductive: that a row may be marked sent follows
from what the dispatcher saw earlier. `OutboxInv` ties a dispatcher's program counter
to its row: a locked row is pending, no two dispatchers lock the same one, an
acknowledged row is in the log, and late requests are for committed rows.
`DuplicatesNeedFaults` needs an account per event: its copies in the log, a late request
that may still add one, and the copy the outbox still *owes* (the row is not sent and
nobody holds its acknowledgement) are together at most one more than the faults. An
acknowledgement turns the owed copy into a real one; only a fault makes the row owed
again.

*At most once.* A transaction that has claimed receipts is going to add its events to
a vector it read earlier, so the invariant must speak of open transactions.
`OnceInv` says that claimed events have no receipt yet, belong to the transaction's
user, are claimed by no other open transaction, and that the vector read holds only
receipted events, each once. The commit of another worker can overwrite `v1[u]` with
a vector that lacks an event (finding 1) but never with one that holds an event
twice. `TrendInv` carries this on to the trending set, which is written after the
commit: what a worker has applied and not yet counted has a receipt, is not in
`trending`, and is on the way of no other worker. `MatchInv` is the converse for one
worker: the vector a transaction has read is still the one in the table.

*Nothing lost.* The committed offset becomes the fetch position, so the invariant
must account for every record between the two: `LossInv` says that each of them has a
receipt, is one `_flush` drops, or is held by the *owner* of its partition in its
buffer, its running flush or its failed list. A rebalance moves positions back to the
committed offsets, which makes that claim empty for the new owner; this is why
`commit()` after a rebalance is safe. Cancellation breaks exactly this invariant
(section 7), and the theorem assumes `~Cancellable`. `FreshInv` keeps the same account
for the cache: behind the position an event's effect is in every cached vector of its
user, or the event is still held.

*Pipeline.* The two components are proved apart and joined by instances of their proof
modules (`OP`, `WP`); `Same...` lemmas identify these instances with the ones the
specification is built from. `PipelineInv` adds what joins them: the worker's canonical
rows are the outbox's committed ones, and a record lies in the partition of its key.
`LedgerInv` adds `MatchInv`, and with it each step of outbox, topic and worker is
shown to be a step of `FeatureLedger` or to leave the ledger as it is.

*Preferences.* A task writes what it read some steps before. Each invariant therefore
has a part about the vectors *in the hands* of the tasks, valid as long as the reading
is not `stale`: it has every counted row (`V2Read`), it is the sum of the vector in the
table and the task's own deltas (`V1Read`), it has the topics of the views (`TopicsRead`).
`CountInv` says of the vector in the table and of every vector in the hands of a task,
stale or not, that it is the sum of the rows it holds (`SumOf`), that these have receipts
but for the task's own (`V1Read`), and, unless something stale was saved, that none is
missing (`NoneMissing`); and that the interactions row of the like is the sum of the like
and unlike events (`LikeTotal`), for `rebuild_features` counts that row instead of the
events. `KeyInv` says of each key by itself that it is missing, or right, or that a task
will still see to it (`SeesTo`): after a DELETE the keys of a worker become right one by
one. `AnswerInv` says that rows, keys and the values on their way to a key were all
stored at some moment of the read.

*Interactions.* Counters follow the rows because the statement that changes a row also
decides whether the counter moves; the proof counts `UsersOf` a post and type. For the
comment counter only an upper bound is inductive. `ReplayMatchesRows` rests on
`RequestInv`: the starts of transactions under way differ from each other and from all
recorded events, so that the last event of a row by start is the last by commit, unless
they overlapped.

*Content.* `PlaceInv` relates the program counter of the consumer and the rebuild to the
record in hand. `TextsCovered` is stronger than `NoTextForgotten`: the record that covers
a text has not been *passed* by the running batch (a record passed would be lost by the
commit of the offset), and if it is the one at work it was loaded with the present text.
`CoverInv` does for the page in hand what the checkpoint claims: a post behind the cursor
has its vector or is still to be processed, and a write that starts later gets a time
beyond every cursor.

*Serving.* `ApiInv` follows one request: its list names no post twice and only posts
that were eligible at some time since it began and are not excluded (`ListOK`); what is
eligible now is among those, and is all of them while the request is steady (`WorldOK`);
the version
`ml` stands only where the request's own task scored (`ScoringOK`), and the answer is
what the reranking makes of the list (`AnswerOK`). Other requests, which take the slot
or end their task meanwhile, disturb none of this. The rest is what the operators give.
A source takes the posts with fewer than n before them, and `Places` shows that in a
finite strict order every place is taken by one element. `BackfillSuffices` is the
arithmetic behind `pool_size + len(by_id) + len(excluded)`: either all eligible posts
come back, or so many that what is listed or excluded leaves enough. `Reranking` shows
that `diversity_rerank` gives as many candidates as fit, each once; the reranking is
defined by recursion, and `Recursion` proves that such a function exists and stays in a
family of sets. Its induction is written out by taking the least number for which it
would fail (`Least`), which needs no theorem with an operator parameter.

*Histories.* The loops of `derive_label` and `build_preference_vector_v2` read a history
in an order; the models say which event is the i-th by what comes before it, and
`ReadInOrder` turns this into a sequence of prefixes. What a loop knows after a prefix is
an invariant over the prefixes (`Induction`, from `Least` again). For the label it is
exact: `Summary` of the prefix, so that the last one is the definition by sets. For the
vector `VectorOK` says which actions stand and that a read of an impression or of a named
visit is counted once. Reads that only a session and a post identify need `VisitsOK`: a
visit under way ends with the last such read (`LastKnown`), one that is counted began
with a read that is and the reader stayed since (`CountedStayed`), and since every
counted read the reader has left or its visit is still under way with no dwell time above
those seen (`OpenOrLeft`). That a visit which is not counted holds no qualified read
(`ShortUncounted`) is what makes the dwell time of the counted one the longest.

*Dataset.* The builder runs at any later time, so `DatasetInv` says what the stored rows
owe to the time they were stored at: stamps lie in the order read, computed, stored
(`FeaturesOK`, `EventsOK`), a text of a post is embedded once (`EmbeddedOnce`), a
snapshot names only texts that were embedded by its reference time
(`ScoredIsEmbedded`), and its context is still the history of the rows stored by now
unless it is marked late (`ServedHistory`). The last part is preserved because a feature
computed after the reference time is younger than every click the history may hold. That
the API and the builder, which limit and filter their rows differently, agree at the
moment of serving is `FetchedIsHistory`: the n last of the n + s last clicks are the n
last of all. `HistoryIsPast` carries this to every later extraction time, and with
`RowFacts` (an impression is seen after it was served and before the extraction) the four
theorems follow: the reasons the validator could refuse for contradict the order of the
stamps, and a request that is served now has no events yet.

*Splits.* `DownClean` and `UpClean` say that the nearest clean boundary on either side
exists, by the induction of `Least`; `SomeBoundary` that between two requests of
different times there is a clean one, so that snapping (`SnapClean`) leaves both sides
populated. `Counts` bounds what the rounding takes for validation and test. The
hypothesis of the theorem is needed: with three quarters or more for the test split, two
requests both belong to it and none is left to train on.

*The holdout.* That `opened` holds at most one model is not inductive: it needs that at
most one process is between `mkdir` of `benchmark` and the end of the evaluation
(`SealedOnce`), and that the model this process evaluates is still the selected one.
The latter in turn needs that `model` and `selection.json` do not change after they are
complete, that is, that one process at most is between the creation of `model` and the
end of `selection.json` (`FrozenOnce`), and that what it copies is there (`LocalsOK`: a
winner is the parent or a trial on disk, and a trial on disk stays).

*The search goes on.* `FittedInv` follows the embeddings from the stage that checked
them against the protocol to the manifest of the trial it leaves: what the stage loaded
is what is registered unless two encodings wrote at the same time, which is what `raced`
records. `GoesOnInv` accounts for every file that would stop a stage: as long as nothing
died, a torn or unmatched file has a process at work that will finish it (`InputsInv`, `EncodedInv`,
`TrialsInv`, `ChosenInv`, `OpenedInv`), so that when all are idle every file is whole or absent, and
the stages up to it have left what the next one asks for.

*Training and release.* `TrainingInv` follows the version through the trainer: the rows
it holds, the contract it wrote, the checkpoint it resumes from are of one version as
long as no build replaced the parquet under a reader. `EvidenceInv` says that the
windows, the deployed model and the evaluator's rows are what the gate takes them for:
windows have real times, and the rows that were scored are those of the dataset the
report names. The arithmetic of the gate does the rest.

Every safety property a passing run checks is one of the theorems above. Only
model-checked:

- what needs fairness, which is out of the prover's reach: `HealthyEventsPublished`,
  `EverythingConsumed`, `AnnouncedIsClassified`, and the fairness half of
  `ExactlyOnceEffects`, whose safety half is `PipelineImplementsLedger`.

## 7. Findings

1. *Lost update of the v1 vector with two workers* (`main.py:250`,
   run `worker_lost_update`). Events of one user are on several partitions, the vector
   is read and written back without a lock, and a rolling update runs two workers. The
   receipt stays, so no replay repairs the vector.
2. *A history entry may carry the embedding of another text* (`build_dataset.py:271`,
   run `dataset_stale_embedding`). The newest feature that existed at the click is
   taken, of whatever text; after an edit that is not embedded yet this is the old text,
   where the contract asks for a missing embedding.

Restrictions the models need, and which a reader of the code may want to know:

- *A batch full of failing rows holds up the outbox* (`outbox.rs:94`): failed rows are
  skipped within a batch only, and the next batch begins with the same rows.
  `HealthyEventsPublished` is checked with fewer such rows than a batch holds.
- *Cancellation during a flush* (`main.py:136`): the events the interrupted `_flush`
  drained are in its local variables; the handler flushes an empty buffer and commits
  the positions. `NothingLost` assumes no cancellation, `AppliedAtMostOnce` does not.
- *`comment_count` may fall too low* (`repo.rs:571`): a second DELETE of a top-level
  comment, or two at once, decrement the counter again. It is never too high.
- *Order of `occurred_at`*: it is the start of the transaction, so an unlike that starts
  before the like it undoes sorts before it, and the v2 vector keeps the like.
  `ReplayMatchesRows` shows that only overlapping transactions do this.
- *Crossing writers of one user's preferences*: two topic refreshes that cross may hide
  the topics for good (`"topics" \in torn`); a backfill or replay may overwrite a newer
  v2 vector (`"v2"`), and a worker or `rebuild_features` a newer v1 vector (`"v1"`), which
  then lacks events; `rebuild_features` counts a like whose event was on its way, and the
  worker counts it again (it is in `held.likes` and in `held.events`), and forgets the
  reads (`held.before`); it sets `pref:{user}` only, which `pref:v1:{user}` hides
  (`"shadow"`). A death between commit and keys leaves the old keys of a replay or a
  rebuild (`"keys"`).
- *Events of one time*: the label orders an action and its reversal by `ingested_at`, the
  v2 vector by event id, so that they may disagree which came last (`features.py:138`).
  `VectorAgreesWithLabel` compares them on histories without such ties (`NoTies`).
- *A post hidden while a request runs*, after its source was asked, is answered
  (`main.py:104`): nothing is looked at twice. `NothingUnwanted` counts from the beginning
  of the request (`allowed`).
- *A rebuild of features* misses a post whose write began before a page was read and
  committed after (`late`); *the consumer* stands still at a post whose labels
  `normalize_topics` refuses; a lost announcement is made up for only by a later edit
  or a rebuild.
- *Two encodings that write at the same time* share one temporary file
  (`mind_large.py:245`): they may publish a torn file, register a checksum it no longer
  has, or fail at the rename, which stops the search (`raced`).
- *A build that replaces a parquet* while a training or an evaluation is between its
  rows and its checksum gives them the checksum of the new file (`overlapped`).

## 8. Not modelled

- Within the modelled parts: numerical weights, decay and normalisation of vectors;
  network, loss and metric arithmetic of the pipeline; dataset v1 beyond its split and
  the logistic baseline; reports and their layout; ages and sleep times; wording of log
  messages. Deltas in `apply_topic_delta` are rounded, so they commute up to the
  rounding only. A poll that returns records of two partitions is two polls. Concurrent
  rebuilds of embeddings. The writes of user-service to `topic_prefs`, which compete with
  the topic refresh; `user_recent_topic_preferences` has no migration in the
  repository, and its constraints are taken from the statements that use it.
- Not reached yet, with their hazards: notification-service (no receipt for an
  `event_id`; offsets committed after a failed handler; an unread count stored after an
  invalidation; slow SSE receivers), feed-service and cache-invalidator (a feed built
  from old preferences stored after the invalidation), moderation (the event is
  published after the commit), auth-service and the client's refresh-once, the telemetry
  client (a batch in flight when the viewer changes). The consumers of `workers/common`
  raise on a record that is not JSON and meet it again after a restart; a poison event of
  the feature-store worker keeps its offset back; a post that is reclassified between a
  like and its unlike leaves both deltas.
- Out of scope: image storage, search, templates and styling (plain I/O), the
  analytics service (read-only queries), deployment files (they justify replica counts
  and the rolling update but have no behaviour of their own).

## 9. Plan

In this order:

| Module | Content | Properties |
|---|---|---|
| `Notifications` | consumers of three topics, rows, unread cache, fan-out channel, client store and its stream | one notification per event and recipient; unread cache agrees with the rows when quiet; the client catches up |
| `Feed` | feed cache, invalidator, fallback ladder, paging, impression log | no feed older than its last invalidation, no post twice over pages |
| `Telemetry` | client queue, single flight, retry, disposal; the behaviour batch of the interaction service | one `behavior_events` row per `client_event_id`, no event under another viewer |
| `Sessions` | login, refresh rotation, logout, password change, deactivation; the client's refresh-once | no live session after a password change; a token is used once |
| `Moderation` | report life cycle, row locks, audit, publish after commit | a report is decided once; the audit agrees with the post |

`EventPipeline` then gets the notification service and the invalidator as further
consumers of the topic.
