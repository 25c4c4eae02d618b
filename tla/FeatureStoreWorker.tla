------------------------- MODULE FeatureStoreWorker -------------------------
(***************************************************************************)
(* The feature-store worker (workers/feature_store_worker/app/main.py and  *)
(* the MicroBatchBuffer of workers/common).                                *)
(*                                                                         *)
(* A worker polls the interactions topic into a micro-batch buffer and     *)
(* flushes it: for each user in the batch it claims event receipts and     *)
(* updates the preference vectors in one database transaction, then        *)
(* refreshes the preference cache in Redis.  Users whose update failed are *)
(* re-queued; the Kafka offsets are committed only after a flush in which  *)
(* nobody failed.  Several worker processes coexist during a rolling       *)
(* update and share the partitions.                                        *)
(*                                                                         *)
(* Data abstraction.  A v1 vector is the bag of events added to it (the    *)
(* deltas of apply_topic_delta commute), a v2 vector the set of canonical  *)
(* behaviour rows it was replayed from, the trending set the bag of events *)
(* it counted.  The keys pref:, pref:v1: and pref:v2: of a user are        *)
(* written together and are one cache entry here.                          *)
(***************************************************************************)
EXTENDS Naturals, FiniteSets, Sequences

CONSTANTS
    Events,       \* event ids
    Users,
    Partitions,
    Workers,      \* worker processes
    UserOf,       \* the user in the envelope of an event
    PartitionOf,  \* the partition the event's key hashes to
    Missing,      \* users that have been deleted
    Skipped,      \* events _flush drops: ignored, unknown or invalid
    Unweighted,   \* view_observed events: no vector update
    ZeroWeight,   \* events of WEIGHTS 0 (click, dwell, ...): v2 replay only
    BatchSize,    \* flush_batch_size
    MaxFaults,    \* bound on failures, crashes and rebalances
    MaxLog,       \* bound on the length of a partition
    NoUser,       \* "no transaction"
    Cancellable   \* whether the process receives SIGINT (task cancellation)

ASSUME WorkerAssumption ==
    /\ UserOf \in [Events -> Users]
    /\ PartitionOf \in [Events -> Partitions]
    /\ MaxLog \in Nat
    /\ Missing \subseteq Users
    /\ Skipped \subseteq Events
    /\ ZeroWeight \subseteq Events
    /\ Unweighted \subseteq ZeroWeight
    /\ BatchSize \in Nat \ {0}
    /\ MaxFaults \in Nat
    /\ NoUser \notin Users
    /\ Cancellable \in BOOLEAN

VARIABLES
    log,        \* the topic: per partition, the sequence of event ids
    canonical,  \* events whose behavior_events row is committed
    owner,      \* the worker each partition is assigned to
    position,   \* fetch position of the partition's owner
    committed,  \* committed offset of the consumer group
    receipts,   \* feature_event_receipts
    v1,         \* user_preference_vectors: how often each event was added
    v2,         \* user_preference_vectors_v2: the rows it was replayed from
    cache,      \* pref:{user}: the set of the v1 vector it holds, {} if none
    trending,   \* trending:24h: how often each event was counted
    wpc,        \* where each worker is in run
    buffer,     \* self._batch
    work,       \* classified events of the running flush, users not yet done
    tx,         \* the open or just committed transaction of _apply_for_user
    failed,     \* failed_events of the running flush
    applied,    \* trending_events of the running flush
    stopping,   \* the flush is the one of the CancelledError handler
    wfaults     \* faults so far

workerVars == <<owner, position, committed, receipts, v1, v2, cache, trending,
                wpc, buffer, work, tx, failed, applied, stopping, wfaults>>
vars == <<log, canonical, workerVars>>

Steps == {"poll", "apply", "claimed", "refresh", "commit"}

\* Bags of events: vectors, batches.
Bag == [Events -> Nat]
EmptyBag == [e \in Events |-> 0]
Plus(b, c) == [e \in Events |-> b[e] + c[e]]
Support(b) == {e \in Events : b[e] > 0}
Part(b, S) == [e \in Events |-> IF e \in S THEN b[e] ELSE 0]
Once(S) == [e \in Events |-> IF e \in S THEN 1 ELSE 0]
Size(b) == Cardinality(UNION {{e} \X (1..b[e]) : e \in Events})

NoTx == [user |-> NoUser, claimed |-> {}, vec |-> EmptyBag, rows |-> {}]

TypeOK ==
    /\ log \in [Partitions -> Seq(Events)]
    /\ canonical \subseteq Events
    /\ owner \in [Partitions -> Workers]
    /\ position \in [Partitions -> Nat]
    /\ committed \in [Partitions -> Nat]
    /\ receipts \subseteq Events
    /\ v1 \in [Users -> Bag]
    /\ v2 \in [Users -> SUBSET Events]
    /\ cache \in [Users -> SUBSET Bag]
    /\ trending \in Bag
    /\ wpc \in [Workers -> Steps]
    /\ buffer \in [Workers -> Bag]
    /\ work \in [Workers -> Bag]
    /\ tx \in [Workers -> [user : Users \cup {NoUser}, claimed : SUBSET Events,
                           vec : Bag, rows : SUBSET Events]]
    /\ failed \in [Workers -> Bag]
    /\ applied \in [Workers -> SUBSET Events]
    /\ stopping \in [Workers -> BOOLEAN]
    /\ wfaults \in 0..MaxFaults

Init ==
    /\ log = [p \in Partitions |-> << >>]
    /\ canonical = {}
    /\ owner \in [Partitions -> Workers]
    /\ position = [p \in Partitions |-> 0]
    /\ committed = [p \in Partitions |-> 0]
    /\ receipts = {}
    /\ v1 = [u \in Users |-> EmptyBag]
    /\ v2 = [u \in Users |-> {}]
    /\ cache = [u \in Users |-> {}]
    /\ trending = EmptyBag
    /\ wpc = [w \in Workers |-> "poll"]
    /\ buffer = [w \in Workers |-> EmptyBag]
    /\ work = [w \in Workers |-> EmptyBag]
    /\ tx = [w \in Workers |-> NoTx]
    /\ failed = [w \in Workers |-> EmptyBag]
    /\ applied = [w \in Workers |-> {}]
    /\ stopping = [w \in Workers |-> FALSE]
    /\ wfaults = 0

-----------------------------------------------------------------------------
(* The environment: what the interaction service and its outbox do.        *)

\* A request transaction commits its canonical behavior_events row.
RecordBehavior(e) ==
    /\ e \notin canonical
    /\ canonical' = canonical \cup {e}
    /\ UNCHANGED <<log, workerVars>>

\* The outbox delivers an envelope at least once, in any order.
Publish(e) ==
    /\ e \in canonical
    /\ Len(log[PartitionOf[e]]) < MaxLog
    /\ log' = [log EXCEPT ![PartitionOf[e]] = Append(@, e)]
    /\ UNCHANGED <<canonical, workerVars>>

-----------------------------------------------------------------------------
(* run: getmany, buffering, the start of a flush and its end.              *)

\* _flush up to its first await: drain the buffer and classify the events.
BeginFlush(w, events) ==
    /\ buffer' = [buffer EXCEPT ![w] = EmptyBag]
    /\ work' = [work EXCEPT ![w] = Part(events, Events \ Skipped)]
    /\ failed' = [failed EXCEPT ![w] = EmptyBag]
    /\ applied' = [applied EXCEPT ![w] = {}]
    /\ tx' = [tx EXCEPT ![w] = NoTx]
    /\ wpc' = [wpc EXCEPT ![w] = "apply"]

\* The next n records of a partition.
Fetched(p, n) ==
    [e \in Events |->
        Cardinality({i \in (position[p] + 1)..(position[p] + n) : log[p][i] = e})]

\* A buffer is flushed only once it is full.
MUT_FlushWhenFull(b) == Size(b) >= BatchSize

\* MicroBatchBuffer.ready may say yes: the buffer is full, or it holds anything
\* and the flush interval is over.
FlushDue(b) == b # EmptyBag

\* getmany returns n records of a partition (none on a timeout), they are
\* buffered, and the buffer is flushed if it is full or the flush interval is
\* over; a poll that returns records of two partitions is two polls here.
Poll(w) ==
    /\ wpc[w] = "poll"
    /\ \E p \in Partitions, n \in 0..BatchSize :
          LET buffered == Plus(buffer[w], Fetched(p, n))
          IN /\ n > 0 => owner[p] = w
             /\ position[p] + n <= Len(log[p])
             /\ position' = [position EXCEPT ![p] = @ + n]
             /\ \/ /\ Size(buffered) < BatchSize
                   /\ buffer' = [buffer EXCEPT ![w] = buffered]
                   /\ UNCHANGED <<wpc, work, failed, applied, tx>>
                \/ /\ FlushDue(buffered)
                   /\ BeginFlush(w, buffered)
    /\ UNCHANGED <<log, canonical, owner, committed, receipts, v1, v2, cache,
                   trending, stopping, wfaults>>

-----------------------------------------------------------------------------
(* _apply_for_user                                                         *)

\* The events of the running flush that are the user's.
UserEvents(w, u) == Part(work[w], {e \in Events : UserOf[e] = u})

\* The flush is done with the user.
NextUser(w, u) ==
    /\ work' = [work EXCEPT ![w] = Part(@, {e \in Events : UserOf[e] # u})]
    /\ tx' = [tx EXCEPT ![w] = NoTx]
    /\ wpc' = [wpc EXCEPT ![w] = "apply"]

\* The `except Exception' of _flush: the user's events will be re-queued.
FailUser(w, u) ==
    /\ wfaults < MaxFaults
    /\ wfaults' = wfaults + 1
    /\ failed' = [failed EXCEPT ![w] = Plus(@, UserEvents(w, u))]
    /\ NextUser(w, u)

\* Receipts are not consulted: every event of the batch is applied.
MUT_NewEvents(w, u) == Support(UserEvents(w, u))

\* The events INSERT ... ON CONFLICT DO NOTHING RETURNING event_id claims, of
\* the batch without its duplicates.
NewEvents(w, u) == Support(UserEvents(w, u)) \ receipts

\* Claim the receipts and read the vectors.  A receipt another transaction has
\* inserted but not committed makes the INSERT wait.  per_user is a dict; the
\* order of its users is left open.
ClaimReceipts(w, u) ==
    /\ wpc[w] = "apply"
    /\ UserEvents(w, u) # EmptyBag
    /\ \A o \in Workers \ {w} :
          wpc[o] = "claimed" => tx[o].claimed \cap Support(UserEvents(w, u)) = {}
    /\ tx' = [tx EXCEPT ![w] =
                 [user |-> u,
                  claimed |-> NewEvents(w, u),
                  vec |-> v1[u],
                  rows |-> {e \in canonical : UserOf[e] = u}]]
    /\ wpc' = [wpc EXCEPT ![w] = "claimed"]
    /\ UNCHANGED <<log, canonical, owner, position, committed, receipts, v1, v2,
                   cache, trending, buffer, work, failed, applied, stopping,
                   wfaults>>

\* The events of the transaction that change the vectors.
Weighted(w) ==
    IF tx[w].user \in Missing THEN {} ELSE tx[w].claimed \ Unweighted

\* The claimed events added to the vector that was read.
NewVector(w) == Plus(tx[w].vec, Once(Weighted(w) \ ZeroWeight))

\* The vectors are saved in a transaction of their own, after the receipts.
MUT_SaveReceiptsOnly(w) ==
    /\ receipts' = receipts \cup tx[w].claimed
    /\ UNCHANGED <<v1, v2>>

\* The transaction commits: receipts and vectors together.
SaveFeatures(w) ==
    LET u == tx[w].user IN
    /\ receipts' = receipts \cup tx[w].claimed
    /\ IF Weighted(w) = {}
       THEN UNCHANGED <<v1, v2>>
       ELSE /\ v1' = [v1 EXCEPT ![u] = NewVector(w)]
            /\ v2' = [v2 EXCEPT ![u] = IF tx[w].rows = {} THEN @ ELSE tx[w].rows]

\* A batch of duplicates needs no refresh: it has been applied before.
MUT_NeedsRefresh(w) == tx[w].user \notin Missing /\ tx[w].claimed # {}

\* The cache is refreshed whenever the user exists, even if nothing was new.
NeedsRefresh(w) == tx[w].user \notin Missing

\* The transaction commits and _refresh_preference_cache is next.
CommitFeatures(w) ==
    /\ wpc[w] = "claimed"
    /\ SaveFeatures(w)
    /\ IF NeedsRefresh(w)
       THEN /\ tx' = [tx EXCEPT ![w].vec = NewVector(w)]
            /\ wpc' = [wpc EXCEPT ![w] = "refresh"]
            /\ UNCHANGED work
       ELSE NextUser(w, tx[w].user)
    /\ UNCHANGED <<log, canonical, owner, position, committed, cache, trending,
                   buffer, failed, applied, stopping, wfaults>>

\* The pool, a query or the COMMIT fails; in the last case the transaction may
\* have committed all the same.
ApplyFails(w, u) ==
    /\ \/ /\ wpc[w] = "apply"
          /\ UserEvents(w, u) # EmptyBag
          /\ UNCHANGED <<receipts, v1, v2>>
       \/ /\ wpc[w] = "claimed" /\ u = tx[w].user
          /\ UNCHANGED <<receipts, v1, v2>>
       \/ /\ wpc[w] = "claimed" /\ u = tx[w].user
          /\ SaveFeatures(w)
    /\ FailUser(w, u)
    /\ UNCHANGED <<log, canonical, owner, position, committed, cache, trending,
                   buffer, applied, stopping>>

\* _refresh_preference_cache succeeds: the stale keys go and the new vector is
\* cached.  The claimed events now count for trending.
RefreshCache(w) ==
    /\ wpc[w] = "refresh"
    /\ cache' = [cache EXCEPT ![tx[w].user] = {tx[w].vec}]
    /\ applied' = [applied EXCEPT ![w] = @ \cup tx[w].claimed]
    /\ NextUser(w, tx[w].user)
    /\ UNCHANGED <<log, canonical, owner, position, committed, receipts, v1, v2,
                   trending, buffer, failed, stopping, wfaults>>

\* Redis fails before the DEL, between it and the SETEX commands, or after one
\* of them.
RefreshFails(w) ==
    /\ wpc[w] = "refresh"
    /\ \E c \in {cache[tx[w].user], {}, {tx[w].vec}} :
          cache' = [cache EXCEPT ![tx[w].user] = c]
    /\ FailUser(w, tx[w].user)
    /\ UNCHANGED <<log, canonical, owner, position, committed, receipts, v1, v2,
                   trending, buffer, applied, stopping>>

-----------------------------------------------------------------------------
(* The end of a flush.                                                     *)

\* The group fetches again from its committed offsets.
Resume(w) ==
    position' = [p \in Partitions |->
                    IF owner[p] = w THEN committed'[p] ELSE position[p]]

\* The process forgets what it had in memory.
Restarted(w) ==
    /\ Resume(w)
    /\ buffer' = [buffer EXCEPT ![w] = EmptyBag]
    /\ work' = [work EXCEPT ![w] = EmptyBag]
    /\ failed' = [failed EXCEPT ![w] = EmptyBag]
    /\ applied' = [applied EXCEPT ![w] = {}]
    /\ tx' = [tx EXCEPT ![w] = NoTx]
    /\ stopping' = [stopping EXCEPT ![w] = FALSE]
    /\ wpc' = [wpc EXCEPT ![w] = "poll"]

\* _update_trending in one pipeline, whose failures are swallowed; when the
\* answer is lost the increments have taken effect all the same.
UpdateTrending(w) ==
    LET counted == Plus(trending, Once(applied[w] \ ZeroWeight)) IN
    \/ /\ trending' = counted
       /\ wfaults' = wfaults
    \/ /\ applied[w] \ ZeroWeight # {}
       /\ wfaults < MaxFaults
       /\ wfaults' = wfaults + 1
       /\ trending' \in {trending, counted}

\* Failed events are dropped instead of re-queued.
MUT_FinishFlushDrops(w) ==
    /\ wpc[w] = "apply"
    /\ work[w] = EmptyBag
    /\ UpdateTrending(w)
    /\ wpc' = [wpc EXCEPT ![w] = "commit"]
    /\ UNCHANGED <<log, canonical, owner, committed, receipts, v1, v2, cache,
                   position, buffer, work, failed, applied, tx, stopping>>

\* The trending update is retried with the events that failed.
MUT_FinishFlushRetriesTrending(w) ==
    /\ wpc[w] = "apply"
    /\ work[w] = EmptyBag
    /\ UpdateTrending(w)
    /\ IF failed[w] = EmptyBag
       THEN /\ wpc' = [wpc EXCEPT ![w] = "commit"]
            /\ UNCHANGED <<position, buffer, work, failed, applied, tx, stopping>>
       ELSE /\ work' = [work EXCEPT ![w] = failed[w]]
            /\ failed' = [failed EXCEPT ![w] = EmptyBag]
            /\ UNCHANGED <<wpc, position, buffer, applied, tx, stopping>>
    /\ UNCHANGED <<log, canonical, owner, committed, receipts, v1, v2, cache>>

\* Trending is updated; failed events go back to the front of the buffer and
\* nothing is committed.  The final flush of a cancelled task then exits.
FinishFlush(w) ==
    /\ wpc[w] = "apply"
    /\ work[w] = EmptyBag
    /\ UpdateTrending(w)
    /\ UNCHANGED <<log, canonical, owner, committed, receipts, v1, v2, cache>>
    /\ CASE failed[w] = EmptyBag ->
              /\ wpc' = [wpc EXCEPT ![w] = "commit"]
              /\ UNCHANGED <<position, buffer, work, failed, applied, tx, stopping>>
         [] failed[w] # EmptyBag /\ ~stopping[w] ->
              /\ wpc' = [wpc EXCEPT ![w] = "poll"]
              /\ buffer' = [buffer EXCEPT ![w] = Plus(failed[w], @)]
              /\ failed' = [failed EXCEPT ![w] = EmptyBag]
              /\ applied' = [applied EXCEPT ![w] = {}]
              /\ UNCHANGED <<position, work, tx, stopping>>
         [] OTHER -> Restarted(w)

\* consumer.commit(): the positions of the partitions the worker owns now.
CommitPositions(w) ==
    committed' = [p \in Partitions |->
                     IF owner[p] = w THEN position[p] ELSE committed[p]]

\* A flush without failures is committed.
CommitOffsets(w) ==
    /\ wpc[w] = "commit"
    /\ CommitPositions(w)
    /\ IF stopping[w]
       THEN Restarted(w)
       ELSE /\ wpc' = [wpc EXCEPT ![w] = "poll"]
            /\ applied' = [applied EXCEPT ![w] = {}]
            /\ UNCHANGED <<position, buffer, work, failed, tx, stopping>>
    /\ UNCHANGED <<log, canonical, owner, receipts, v1, v2, cache, trending,
                   wfaults>>

-----------------------------------------------------------------------------
(* Crashes, rebalances, cancellation, expiry.                              *)

\* The process dies, or commit() or _refresh_due_recent_topics raises, which
\* ends run; it is restarted.
Crash(w) ==
    /\ wfaults < MaxFaults
    /\ wfaults' = wfaults + 1
    /\ committed' = committed
    /\ Restarted(w)
    /\ UNCHANGED <<log, canonical, owner, receipts, v1, v2, cache, trending>>

\* The group rebalances: partitions are assigned anew and every fetch position
\* goes back to the committed offset, while the buffers keep what they hold.
Rebalance ==
    /\ wfaults < MaxFaults
    /\ wfaults' = wfaults + 1
    /\ owner' \in [Partitions -> Workers]
    /\ position' = committed
    /\ UNCHANGED <<log, canonical, committed, receipts, v1, v2, cache, trending,
                   wpc, buffer, work, tx, failed, applied, stopping>>

\* SIGINT cancels the task at an await.  The handler flushes the buffer, which
\* is empty if a flush was under way, and commits if that flush succeeds.
Cancel(w) ==
    /\ Cancellable
    /\ ~stopping[w]
    /\ wfaults < MaxFaults
    /\ wfaults' = wfaults + 1
    /\ stopping' = [stopping EXCEPT ![w] = TRUE]
    /\ BeginFlush(w, buffer[w])
    /\ UNCHANGED <<log, canonical, owner, position, committed, receipts, v1, v2,
                   cache, trending>>

\* pref_ttl_seconds passes, or the cache invalidator or
\* _refresh_due_recent_topics deletes the key.
ExpireCache(u) ==
    /\ cache[u] # {}
    /\ cache' = [cache EXCEPT ![u] = {}]
    /\ UNCHANGED <<log, canonical, owner, position, committed, receipts, v1, v2,
                   trending, wpc, buffer, work, tx, failed, applied, stopping,
                   wfaults>>

-----------------------------------------------------------------------------
Step(w) ==
    \/ Poll(w)
    \/ \E u \in Users : ClaimReceipts(w, u)
    \/ CommitFeatures(w) \/ RefreshCache(w) \/ FinishFlush(w) \/ CommitOffsets(w)

WorkerNext ==
    \/ \E w \in Workers :
          \/ Step(w) \/ RefreshFails(w) \/ Crash(w) \/ Cancel(w)
          \/ \E u \in Users : ApplyFails(w, u)
    \/ Rebalance
    \/ \E u \in Users : ExpireCache(u)

Environment ==
    \E e \in Events : RecordBehavior(e) \/ Publish(e)

Next == Environment \/ WorkerNext

Spec == Init /\ [][Next]_vars

\* The loop of run goes on, and every await in it returns or raises.
Fairness == \A w \in Workers : WF_vars(Step(w))

FairSpec == Spec /\ Fairness

-----------------------------------------------------------------------------
(* Properties.                                                             *)

\* A receipt that stands for a contribution to the v1 vector.
Counted(e) == e \in receipts \ ZeroWeight /\ UserOf[e] \notin Missing

\* Replaying an event never double-counts it: whatever is redelivered,
\* re-queued or re-read after a crash or a rebalance, by however many workers,
\* a vector holds an event at most once, and only with its receipt
\* (CLAIM_RECEIPTS_SQL in the transaction of the vector update).
AppliedAtMostOnce ==
    \A u \in Users : \A e \in Events :
        v1[u][e] = 0 \/ (v1[u][e] = 1 /\ Counted(e) /\ UserOf[e] = u)

\* An offset is committed only past events that need no further work: every
\* event below it has its receipt or is one that _flush drops (run, lines
\* 127-132: a failed batch is "retried instead of lost").
NothingLost ==
    \A p \in Partitions : \A i \in 1..committed[p] :
        /\ i <= Len(log[p])
        /\ log[p][i] \in receipts \cup Skipped

\* With a receipt comes the contribution: the v1 vectors are exactly the
\* receipted events.  Holds for one worker only: the vector is read and
\* written back without a row lock.
VectorsMatchReceipts ==
    \A e \in Events : v1[UserOf[e]][e] = IF Counted(e) THEN 1 ELSE 0

\* Below the committed offset the cached vector is never older than the
\* event: a crash or a Redis failure between the database commit and the
\* cache refresh is repaired by the redelivery, although that finds only
\* duplicates (_apply_for_user refreshes whenever the user exists).
CacheReflectsCommitted ==
    \A p \in Partitions : \A i \in 1..committed[p] :
        LET e == log[p][i] IN
        Counted(e) /\ e \notin Skipped =>
            \A v \in cache[UserOf[e]] : v[e] = 1

\* Trending is approximate in one direction: an increment may be missed, but
\* no event is counted twice or without its receipt (_flush, lines 195-203).
TrendingAtMostOnce ==
    \A e \in Events : trending[e] = 0 \/ (trending[e] = 1 /\ e \in receipts)

\* Everything published is finished at some time: the group catches up with
\* the end of each partition, and stays there while nothing is published.
EverythingConsumed ==
    \A p \in Partitions :
        \A n \in 1..MaxLog : (Len(log[p]) >= n) ~> (committed[p] >= n)
=============================================================================
