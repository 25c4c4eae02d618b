------------------------ MODULE EventPipelineProofs -------------------------
(***************************************************************************)
(* Proofs about EventPipeline: what was accepted and is not yet applied    *)
(* can still be recovered, and the pipeline implements FeatureLedger.      *)
(*                                                                         *)
(* The invariants of the two components are taken over from OutboxProofs   *)
(* and FeatureStoreWorkerProofs, instantiated with the pipeline's          *)
(* constants.  The instances OP and WP hold the same definitions as O and  *)
(* W of EventPipeline; the first lemmas say so, operator by operator.      *)
(***************************************************************************)
EXTENDS EventPipeline, TLAPS

OP == INSTANCE OutboxProofs
         WITH BatchSize <- OutboxBatch, MaxFaults <- OutboxFaults

WP == INSTANCE FeatureStoreWorkerProofs
         WITH BatchSize <- FlushBatch, MaxFaults <- WorkerFaults,
              Cancellable <- FALSE

-----------------------------------------------------------------------------
(* The outbox of the pipeline is the one OutboxProofs is about.            *)

\* Initial states, rows other transactions see and inserts are the same.
LEMMA SameOutbox ==
    /\ O!Init => OP!Init
    /\ O!Committed = OP!Committed
    /\ \A e \in Events : O!EnqueueEvent(e) => OP!EnqueueEvent(e)
    /\ \A e : O!InLog(e) <=> OP!InLog(e)
<1>1. O!Init => OP!Init
  BY DEF O!Init, OP!Init
<1>2. O!Committed = OP!Committed
  BY DEF O!Committed, OP!Committed
<1>3. \A e \in Events : O!EnqueueEvent(e) => OP!EnqueueEvent(e)
  BY DEF O!EnqueueEvent, OP!EnqueueEvent
<1>4. \A e : O!InLog(e) <=> OP!InLog(e)
  BY DEF O!InLog, OP!InLog
<1> QED
  BY <1>1, <1>2, <1>3, <1>4

\* Both count the events attempted in a batch alike.
LEMMA SameCardinality ==
    ASSUME NEW S
    PROVE  O!Cardinality(S) = OP!Cardinality(S)
  BY DEF O!Cardinality, OP!Cardinality, O!IsFiniteSet, OP!IsFiniteSet

\* The steps of a dispatcher are the same.
LEMMA SameDispatch ==
    ASSUME NEW d \in Dispatchers, O!Dispatch(d)
    PROVE  OP!Dispatch(d)
<1>1. O!Eligible(d) = OP!Eligible(d)
  BY DEF O!Eligible, OP!Eligible
<1>2. \A S, e : O!Oldest(S, e) <=> OP!Oldest(S, e)
  BY DEF O!Oldest, OP!Oldest
<1>3. O!Cardinality(attempted[d]) = OP!Cardinality(attempted[d])
  BY SameCardinality
<1>4. CASE O!SelectRow(d)
  <2>1. OP!SelectRow(d)
    BY <1>1, <1>2, <1>3, <1>4 DEF O!SelectRow, OP!SelectRow
  <2> QED
    BY <2>1 DEF OP!Dispatch
<1>5. CASE O!EndBatch(d)
  <2>1. OP!EndBatch(d)
    BY <1>1, <1>3, <1>5 DEF O!EndBatch, OP!EndBatch
  <2> QED
    BY <2>1 DEF OP!Dispatch
<1>6. CASE O!SendAck(d)
  BY <1>6 DEF O!SendAck, OP!SendAck, O!AppendToLog, OP!AppendToLog, OP!Dispatch
<1>7. CASE O!SendFail(d)
  BY <1>7 DEF O!SendFail, OP!SendFail, OP!Dispatch
<1>8. CASE O!CommitOutcome(d)
  BY <1>8 DEF O!CommitOutcome, OP!CommitOutcome, O!RecordOutcome, OP!RecordOutcome,
              OP!Dispatch
<1> QED
  BY <1>4, <1>5, <1>6, <1>7, <1>8 DEF O!Dispatch

\* The other steps of OutboxStep, too.
LEMMA SameOutboxStep ==
    ASSUME OutboxStep
    PROVE  \/ \E e \in Events : OP!BeginEvent(e) \/ OP!LateAppend(e)
           \/ \E d \in Dispatchers :
                 \/ OP!Dispatch(d) \/ OP!SendTimeout(d)
                 \/ OP!Interrupt(d) \/ OP!CommitUnknown(d)
           \/ \E S \in SUBSET Events : OP!Cleanup(S)
<1>1. ASSUME NEW e \in Events, O!BeginEvent(e) \/ O!LateAppend(e)
      PROVE  OP!BeginEvent(e) \/ OP!LateAppend(e)
  BY <1>1 DEF O!BeginEvent, OP!BeginEvent, O!LateAppend, OP!LateAppend,
              O!AppendToLog, OP!AppendToLog
<1>2. ASSUME NEW d \in Dispatchers,
             O!SendTimeout(d) \/ O!Interrupt(d) \/ O!CommitUnknown(d)
      PROVE  OP!SendTimeout(d) \/ OP!Interrupt(d) \/ OP!CommitUnknown(d)
  BY <1>2 DEF O!SendTimeout, OP!SendTimeout, O!Interrupt, OP!Interrupt,
              O!CommitUnknown, OP!CommitUnknown, O!RecordOutcome, OP!RecordOutcome
<1>3. ASSUME NEW S \in SUBSET Events, O!Cleanup(S)
      PROVE  OP!Cleanup(S)
  BY <1>3 DEF O!Cleanup, OP!Cleanup, O!Expired, OP!Expired
<1> QED
  BY <1>1, <1>2, <1>3, SameDispatch DEF OutboxStep

-----------------------------------------------------------------------------
(* The worker of the pipeline is the one FeatureStoreWorkerProofs is       *)
(* about.                                                                  *)

\* Bags and the transaction record are the same.
LEMMA SameBags ==
    /\ W!EmptyBag = WP!EmptyBag
    /\ W!NoTx = WP!NoTx
    /\ \A b, c : W!Plus(b, c) = WP!Plus(b, c)
    /\ \A b, S : W!Part(b, S) = WP!Part(b, S)
    /\ \A S : W!Once(S) = WP!Once(S)
    /\ \A b : W!Support(b) = WP!Support(b)
  BY DEF W!EmptyBag, WP!EmptyBag, W!Plus, WP!Plus, W!Part, WP!Part, W!NoTx, WP!NoTx,
         W!Once, WP!Once, W!Support, WP!Support

\* So are the operators that count.
LEMMA SameCounts ==
    /\ \A b : W!Size(b) = WP!Size(b)
    /\ \A p, n : W!Fetched(p, n) = WP!Fetched(p, n)
<1>1. ASSUME NEW S PROVE W!Cardinality(S) = WP!Cardinality(S)
  BY DEF W!Cardinality, WP!Cardinality, W!IsFiniteSet, WP!IsFiniteSet
<1>2. ASSUME NEW b PROVE W!Size(b) = WP!Size(b)
  BY <1>1 DEF W!Size, WP!Size
<1>3. ASSUME NEW p, NEW n PROVE W!Fetched(p, n) = WP!Fetched(p, n)
  BY <1>1 DEF W!Fetched, WP!Fetched
<1> QED
  BY <1>2, <1>3

\* Polling and the start of a flush are the same.
LEMMA SamePoll ==
    /\ \A w, b : W!BeginFlush(w, b) <=> WP!BeginFlush(w, b)
    /\ \A w \in Workers : W!Poll(w) => WP!Poll(w)
<1>1. ASSUME NEW w, NEW b PROVE W!BeginFlush(w, b) <=> WP!BeginFlush(w, b)
  BY SameBags DEF W!BeginFlush, WP!BeginFlush
<1>2. ASSUME NEW w \in Workers, W!Poll(w) PROVE WP!Poll(w)
  BY <1>1, <1>2, SameBags, SameCounts DEF W!Poll, WP!Poll, W!FlushDue, WP!FlushDue
<1> QED
  BY <1>1, <1>2

\* The parts of _apply_for_user are the same.
LEMMA SameApplyParts ==
    ASSUME NEW w
    PROVE  /\ \A u : W!UserEvents(w, u) = WP!UserEvents(w, u)
           /\ \A u : W!NextUser(w, u) <=> WP!NextUser(w, u)
           /\ \A u : W!FailUser(w, u) <=> WP!FailUser(w, u)
           /\ W!NewVector(w) = WP!NewVector(w)
           /\ W!SaveFeatures(w) <=> WP!SaveFeatures(w)
<1>1. ASSUME NEW u PROVE W!UserEvents(w, u) = WP!UserEvents(w, u)
  BY SameBags DEF W!UserEvents, WP!UserEvents
<1>2. ASSUME NEW u PROVE W!NextUser(w, u) <=> WP!NextUser(w, u)
  BY SameBags DEF W!NextUser, WP!NextUser
<1>3. ASSUME NEW u PROVE W!FailUser(w, u) <=> WP!FailUser(w, u)
  BY <1>1, <1>2, SameBags DEF W!FailUser, WP!FailUser
<1>4. W!Weighted(w) = WP!Weighted(w)
  BY DEF W!Weighted, WP!Weighted
<1>5. W!NewVector(w) = WP!NewVector(w)
  BY <1>4, SameBags DEF W!NewVector, WP!NewVector
<1>6. W!SaveFeatures(w) <=> WP!SaveFeatures(w)
  BY <1>4, <1>5 DEF W!SaveFeatures, WP!SaveFeatures
<1> QED
  BY <1>1, <1>2, <1>3, <1>5, <1>6

\* The steps of _apply_for_user are the same.
LEMMA SameApply ==
    ASSUME NEW w \in Workers
    PROVE  /\ \A u \in Users : W!ClaimReceipts(w, u) => WP!ClaimReceipts(w, u)
           /\ \A u \in Users : W!ApplyFails(w, u) => WP!ApplyFails(w, u)
           /\ W!CommitFeatures(w) => WP!CommitFeatures(w)
           /\ W!RefreshCache(w) => WP!RefreshCache(w)
           /\ W!RefreshFails(w) => WP!RefreshFails(w)
<1>1. ASSUME NEW u \in Users, W!ClaimReceipts(w, u) PROVE WP!ClaimReceipts(w, u)
  <2>1. W!NewEvents(w, u) = WP!NewEvents(w, u)
    BY SameApplyParts, SameBags DEF W!NewEvents, WP!NewEvents
  <2> QED
    BY <1>1, <2>1, SameApplyParts, SameBags DEF W!ClaimReceipts, WP!ClaimReceipts
<1>2. ASSUME NEW u \in Users, W!ApplyFails(w, u) PROVE WP!ApplyFails(w, u)
  BY <1>2, SameApplyParts, SameBags DEF W!ApplyFails, WP!ApplyFails
<1>3. ASSUME W!CommitFeatures(w) PROVE WP!CommitFeatures(w)
  BY <1>3, SameApplyParts
     DEF W!CommitFeatures, WP!CommitFeatures, W!NeedsRefresh, WP!NeedsRefresh
<1>4. ASSUME W!RefreshCache(w) PROVE WP!RefreshCache(w)
  BY <1>4, SameApplyParts DEF W!RefreshCache, WP!RefreshCache
<1>5. ASSUME W!RefreshFails(w) PROVE WP!RefreshFails(w)
  BY <1>5, SameApplyParts DEF W!RefreshFails, WP!RefreshFails
<1> QED
  BY <1>1, <1>2, <1>3, <1>4, <1>5

\* The end of a flush, crashes and cancellation are the same.
LEMMA SameEnd ==
    ASSUME NEW w \in Workers
    PROVE  /\ W!FinishFlush(w) => WP!FinishFlush(w)
           /\ W!CommitOffsets(w) => WP!CommitOffsets(w)
           /\ W!Crash(w) => WP!Crash(w)
           /\ W!Cancel(w) => WP!Cancel(w)
<1>1. W!Restarted(w) <=> WP!Restarted(w)
  BY SameBags DEF W!Restarted, WP!Restarted, W!Resume, WP!Resume
<1>2. W!UpdateTrending(w) <=> WP!UpdateTrending(w)
  BY SameBags DEF W!UpdateTrending, WP!UpdateTrending
<1>3. W!FinishFlush(w) => WP!FinishFlush(w)
  BY <1>1, <1>2, SameBags DEF W!FinishFlush, WP!FinishFlush
<1>4. W!CommitOffsets(w) => WP!CommitOffsets(w)
  BY <1>1 DEF W!CommitOffsets, WP!CommitOffsets, W!CommitPositions, WP!CommitPositions
<1>5. W!Crash(w) => WP!Crash(w)
  BY <1>1 DEF W!Crash, WP!Crash
<1>6. W!Cancel(w) => WP!Cancel(w)
  BY DEF W!Cancel, WP!Cancel
<1> QED
  BY <1>3, <1>4, <1>5, <1>6

\* Hence the worker's steps and initial states are.
LEMMA SameWorker ==
    /\ W!Init => WP!Init
    /\ W!WorkerNext => WP!WorkerNext
<1>1. W!Init => WP!Init
  BY SameBags DEF W!Init, WP!Init
<1>2. ASSUME NEW w \in Workers, W!Step(w) PROVE WP!Step(w)
  BY <1>2, SamePoll, SameApply, SameEnd DEF W!Step, WP!Step
<1>3. W!Rebalance => WP!Rebalance
  BY DEF W!Rebalance, WP!Rebalance
<1>4. \A u \in Users : W!ExpireCache(u) => WP!ExpireCache(u)
  BY DEF W!ExpireCache, WP!ExpireCache
<1>5. W!WorkerNext => WP!WorkerNext
  BY <1>2, <1>3, <1>4, SameApply, SameEnd DEF W!WorkerNext, WP!WorkerNext
<1> QED
  BY <1>1, <1>5

-----------------------------------------------------------------------------
(* The invariant of the pipeline.                                          *)
(*                                                                         *)
(* Each component keeps its own invariant while the other moves: the topic *)
(* grows under the worker, whose invariant survives an append of any event *)
(* (AppendsQuiet), and the worker leaves the topic and the rows alone.     *)
(* What joins the two is that the request transaction commits the outbox   *)
(* row together with the behavior_events row, and that the outbox appends  *)
(* an event to the partition of its key, where the worker's offsets are.   *)

LogPlaced ==
    \A p \in Partitions : \A i \in 1..Len(log[p]) : PartitionOf[log[p][i]] = p

PipelineInv ==
    /\ OP!OutboxInv
    /\ WP!PublishedInv
    /\ canonical = OP!Committed
    /\ LogPlaced

\* Appending an event to the partition of its key keeps LogPlaced.
LEMMA AppendPlaced ==
    ASSUME PipelineInv, NEW e \in Events, OP!AppendToLog(e)
    PROVE  LogPlaced'
<1>1. /\ log \in [Partitions -> Seq(Events)] /\ PartitionOf[e] \in Partitions
      /\ LogPlaced
  BY PipelineAssumption DEF PipelineInv, OP!OutboxInv, OP!TypeOK
<1>2. SUFFICES ASSUME NEW p \in Partitions, NEW i \in 1..Len(log'[p])
               PROVE  PartitionOf[log'[p][i]] = p
  BY DEF LogPlaced
<1>3. CASE p = PartitionOf[e]
  <2>1. log'[p] = Append(log[p], e)
    BY <1>1, <1>3 DEF OP!AppendToLog
  <2>2. log[p] \in Seq(Events)
    BY <1>1
  <2>3. log'[p][i] = e \/ (i \in 1..Len(log[p]) /\ log'[p][i] = log[p][i])
    BY <2>1, <2>2
  <2> QED
    BY <1>1, <1>3, <2>3 DEF LogPlaced
<1>4. CASE p # PartitionOf[e]
  <2>1. log'[p] = log[p]
    BY <1>1, <1>4 DEF OP!AppendToLog
  <2> QED
    BY <1>1, <2>1 DEF LogPlaced
<1> QED
  BY <1>3, <1>4

\* A request transaction: the row and the behaviour row appear together.
LEMMA AcceptKeeps ==
    ASSUME PipelineInv, NEW e \in Events, AcceptInteraction(e)
    PROVE  /\ PipelineInv'
           /\ e \notin canonical /\ canonical' = canonical \cup {e}
           /\ UNCHANGED workerVars
<1>1. /\ OP!OutboxInv /\ WP!PublishedInv /\ canonical = OP!Committed /\ LogPlaced
      /\ OP!EnqueueEvent(e) /\ canonical' = canonical \cup {e} /\ UNCHANGED workerVars
  BY SameOutbox DEF PipelineInv, AcceptInteraction
<1>2. e \notin OP!Committed /\ OP!Committed' = OP!Committed \cup {e} /\ log' = log
  BY <1>1, OP!EnqueueEffect, PipelineAssumption
<1>3. OP!OutboxInv'
  BY <1>1, OP!EnqueueEventInv, PipelineAssumption
<1>4. WP!RecordBehavior(e)
  BY <1>1, <1>2 DEF workerVars, WP!RecordBehavior, WP!workerVars
<1>5. WP!PublishedInv'
  BY <1>1, <1>4, WP!PublishedNext, PipelineAssumption DEF WP!Next, WP!Environment
<1>6. LogPlaced'
  BY <1>1, <1>2 DEF LogPlaced
<1> QED
  BY <1>1, <1>2, <1>3, <1>5, <1>6 DEF PipelineInv

\* A step of the outbox appends at most one event, a committed one.
LEMMA OutboxStepEffect ==
    ASSUME PipelineInv, OutboxStep
    PROVE  /\ OP!OutboxInv' /\ OP!Committed' = OP!Committed
           /\ UNCHANGED <<canonical, workerVars>>
           /\ log' = log \/ \E e \in Events : OP!AppendToLog(e)
<1>1. OP!OutboxInv /\ UNCHANGED <<canonical, workerVars>>
  BY DEF PipelineInv, OutboxStep
<1>2. OP!Next
  BY SameOutboxStep DEF OP!Next
<1>3. OP!OutboxInv'
  BY <1>1, <1>2, OP!OutboxNextInv, PipelineAssumption
<1>4. /\ OP!Committed' = OP!Committed
      /\ log' = log \/ \E e \in OP!Committed : OP!AppendToLog(e)
  BY <1>1, SameOutboxStep, OP!OtherEffects, PipelineAssumption
<1> QED
  BY <1>1, <1>3, <1>4 DEF OP!Committed

\* An append of the outbox is one of the worker's Appends.
LEMMA SameAppend ==
    ASSUME NEW e, OP!AppendToLog(e), UNCHANGED <<canonical, workerVars>>
    PROVE  WP!Appends(e)
  BY DEF OP!AppendToLog, WP!Appends, workerVars, WP!workerVars

\* A step of the outbox keeps the invariant.
LEMMA OutboxKeeps ==
    ASSUME PipelineInv, OutboxStep
    PROVE  PipelineInv'
<1>1. /\ OP!OutboxInv' /\ OP!Committed' = OP!Committed
      /\ UNCHANGED <<canonical, workerVars>>
      /\ log' = log \/ \E e \in Events : OP!AppendToLog(e)
  BY OutboxStepEffect
<1>2. /\ WP!PublishedInv /\ canonical = OP!Committed /\ LogPlaced
  BY DEF PipelineInv
<1>3. ASSUME log' = log PROVE WP!PublishedInv' /\ LogPlaced'
  <2>1. UNCHANGED WP!vars
    BY <1>1, <1>3 DEF workerVars, WP!vars, WP!workerVars
  <2>2. WP!PublishedInv'
    BY <1>2, <2>1, WP!PublishedNext, PipelineAssumption
  <2> QED
    BY <1>2, <1>3, <2>2 DEF LogPlaced
<1>4. ASSUME NEW e \in Events, OP!AppendToLog(e) PROVE WP!PublishedInv' /\ LogPlaced'
  BY <1>1, <1>2, <1>4, SameAppend, AppendPlaced, WP!AppendsQuiet, PipelineAssumption
<1> QED
  BY <1>1, <1>2, <1>3, <1>4 DEF PipelineInv

\* So does a step of the worker.
LEMMA WorkerKeeps ==
    ASSUME PipelineInv, WorkerStep
    PROVE  PipelineInv' /\ UNCHANGED <<log, canonical>> /\ WP!WorkerNext
<1>1. WP!WorkerNext /\ UNCHANGED outboxVars
  BY SameWorker DEF WorkerStep
<1>2. UNCHANGED <<log, canonical>>
  BY <1>1, WP!WorkerLeaves, PipelineAssumption
<1>3. /\ OP!OutboxInv /\ WP!PublishedInv /\ canonical = OP!Committed /\ LogPlaced
  BY DEF PipelineInv
<1>4. UNCHANGED OP!vars
  BY <1>1, <1>2 DEF outboxVars, OP!vars, OP!outboxVars
<1>5. OP!OutboxInv'
  BY <1>3, <1>4, OP!OutboxNextInv, PipelineAssumption
<1>6. OP!Committed' = OP!Committed
  BY <1>4 DEF OP!vars, OP!outboxVars, OP!Committed
<1>7. WP!PublishedInv'
  BY <1>1, <1>3, WP!PublishedNext, PipelineAssumption DEF WP!Next
<1>8. LogPlaced'
  BY <1>2, <1>3 DEF LogPlaced
<1> QED
  BY <1>1, <1>2, <1>3, <1>5, <1>6, <1>7, <1>8 DEF PipelineInv

\* The pipeline starts in the invariant,
LEMMA PipelineInit == Init => PipelineInv
<1> SUFFICES ASSUME Init PROVE PipelineInv
  OBVIOUS
<1>1. OP!Init /\ WP!Init
  BY SameOutbox, SameWorker DEF Init
<1>2. OP!OutboxInv
  BY <1>1, OP!OutboxInitInv, PipelineAssumption
<1>3. WP!PublishedInv
  BY <1>1, WP!PublishedInit, PipelineAssumption
<1>4. canonical = OP!Committed
  BY <1>1 DEF OP!Init, WP!Init, OP!Committed
<1>5. LogPlaced
  BY <1>1 DEF OP!Init, LogPlaced
<1> QED
  BY <1>2, <1>3, <1>4, <1>5 DEF PipelineInv

\* and every step keeps it.
LEMMA PipelineNext == PipelineInv /\ [Next]_vars => PipelineInv'
<1> SUFFICES ASSUME PipelineInv, [Next]_vars PROVE PipelineInv'
  OBVIOUS
<1>1. ASSUME UNCHANGED vars PROVE PipelineInv'
  <2>1. UNCHANGED OP!vars /\ UNCHANGED WP!vars /\ UNCHANGED <<log, canonical>>
    BY <1>1 DEF vars, outboxVars, workerVars, OP!vars, OP!outboxVars, WP!vars,
                WP!workerVars
  <2>2. OP!OutboxInv' /\ WP!PublishedInv'
    BY <2>1, OP!OutboxNextInv, WP!PublishedNext, PipelineAssumption DEF PipelineInv
  <2>3. OP!Committed' = OP!Committed
    BY <2>1 DEF OP!vars, OP!outboxVars, OP!Committed
  <2> QED
    BY <2>1, <2>2, <2>3 DEF PipelineInv, LogPlaced
<1> QED
  BY <1>1, AcceptKeeps, OutboxKeeps, WorkerKeeps DEF Next

-----------------------------------------------------------------------------
(* Nothing accepted is out of reach.                                       *)

\* An accepted event without a receipt still has its unsent row, or lies in
\* its partition above the committed offset.
LEMMA InvRecoverable == PipelineInv => UnappliedIsRecoverable
<1> SUFFICES ASSUME PipelineInv, NEW e \in Events, e \in OP!Committed,
                    e \notin receipts, e \notin Skipped, row[e] # "pending"
             PROVE  \E i \in (committed[PartitionOf[e]] + 1)..Len(log[PartitionOf[e]]) :
                       log[PartitionOf[e]][i] = e
  BY SameOutbox DEF UnappliedIsRecoverable, OP!Committed
<1>1. /\ OP!NoEventLost /\ WP!NothingLost /\ WP!TypeOK /\ LogPlaced
  BY DEF PipelineInv, OP!OutboxInv, WP!PublishedInv, WP!LossInv
<1>2. row[e] \in {"sent", "deleted"}
  BY DEF OP!Committed
<1>3. OP!InLog(e)
  BY <1>1, <1>2 DEF OP!NoEventLost
<1>4. PICK p \in Partitions : \E i \in 1..Len(log[p]) : log[p][i] = e
  BY <1>3 DEF OP!InLog
<1>5. PICK i \in 1..Len(log[p]) : log[p][i] = e
  BY <1>4
<1>6. p = PartitionOf[e]
  BY <1>1, <1>5 DEF LogPlaced
<1>7. i \notin 1..committed[p]
  BY <1>1, <1>5 DEF WP!NothingLost
<1>8. committed[p] \in Nat /\ Len(log[p]) \in Nat
  BY <1>1 DEF WP!TypeOK
<1>9. i \in (committed[p] + 1)..Len(log[p])
  BY <1>7, <1>8
<1> QED
  BY <1>5, <1>6, <1>9

\* Cleanup, crashes on either side, rebalances and commits of offsets never
\* lose an accepted interaction between the two components, however many
\* dispatchers and workers run.
THEOREM PipelineUnappliedIsRecoverable == SafetySpec => []UnappliedIsRecoverable
  BY PipelineInit, PipelineNext, InvRecoverable, PTL DEF SafetySpec

-----------------------------------------------------------------------------
(* The pipeline implements FeatureLedger, with one worker.                 *)

LedgerInv == PipelineInv /\ WP!MatchInv

\* The initial states are those of the ledger.
LEMMA LedgerInit == Init => LedgerInv /\ Ledger!Init
<1> SUFFICES ASSUME Init PROVE LedgerInv /\ Ledger!Init
  OBVIOUS
<1>1. WP!Init /\ PipelineInv
  BY PipelineInit, SameWorker DEF Init
<1>2. WP!MatchInv
  BY <1>1, WP!MatchInit, PipelineAssumption
<1>3. v1 = [u \in Users |-> [e \in Events |-> 0]]
  BY <1>1 DEF WP!Init, WP!EmptyBag
<1>4. O!Committed = {}
  BY <1>1, SameOutbox DEF PipelineInv, WP!Init
<1> QED
  BY <1>1, <1>2, <1>3, <1>4 DEF LedgerInv, Ledger!Init

\* A request transaction is an Accept of the ledger.
LEMMA AcceptLedger ==
    ASSUME LedgerInv, NEW e \in Events, AcceptInteraction(e)
    PROVE  WP!MatchInv' /\ Ledger!Accept(e)
<1>1. /\ PipelineInv /\ PipelineInv' /\ WP!MatchInv
      /\ e \notin canonical /\ canonical' = canonical \cup {e}
      /\ UNCHANGED workerVars
  BY AcceptKeeps DEF LedgerInv
<1>2. log' = log
  BY DEF AcceptInteraction, O!EnqueueEvent
<1>3. WP!RecordBehavior(e)
  BY <1>1, <1>2 DEF workerVars, WP!RecordBehavior, WP!workerVars
<1>4. WP!MatchInv'
  <2>1. UNCHANGED <<receipts, v1, wpc, tx>>
    BY <1>1 DEF workerVars
  <2>2. WP!OnceInv'
    BY <1>1, <1>3, WP!OnceNext, PipelineAssumption
       DEF WP!MatchInv, WP!Next, WP!Environment
  <2> QED
    BY <1>1, <2>1, <2>2, WP!MatchFrame, PipelineAssumption
<1>5. O!Committed = canonical /\ O!Committed' = canonical'
  BY <1>1, SameOutbox DEF PipelineInv, O!Committed, OP!Committed
<1> QED
  BY <1>1, <1>4, <1>5 DEF Ledger!Accept, workerVars

\* A step of the outbox is none of the ledger's business.
LEMMA OutboxLedger ==
    ASSUME LedgerInv, OutboxStep
    PROVE  WP!MatchInv' /\ UNCHANGED Ledger!vars
<1>1. PipelineInv /\ PipelineInv' /\ WP!MatchInv
  BY OutboxKeeps DEF LedgerInv
<1>2. /\ UNCHANGED <<canonical, workerVars>>
      /\ log' = log \/ \E e \in Events : OP!AppendToLog(e)
  BY <1>1, OutboxStepEffect
<1>3. O!Committed' = O!Committed
  BY <1>1, <1>2, SameOutbox DEF PipelineInv, O!Committed, OP!Committed
<1>4. WP!PublishedInv'
  BY <1>1 DEF PipelineInv
<1>5. ASSUME log' = log PROVE WP!MatchInv'
  <2>1. UNCHANGED WP!vars
    BY <1>2, <1>5 DEF workerVars, WP!vars, WP!workerVars
  <2>2. WP!OnceInv'
    BY <1>1, <2>1, WP!OnceNext, PipelineAssumption DEF WP!MatchInv
  <2> QED
    BY <1>1, <2>1, <2>2, WP!MatchFrame, PipelineAssumption DEF WP!vars, WP!workerVars
<1>6. ASSUME NEW e \in Events, OP!AppendToLog(e) PROVE WP!MatchInv'
  BY <1>1, <1>2, <1>4, <1>6, SameAppend, WP!AppendsMatch, PipelineAssumption
<1> QED
  BY <1>2, <1>3, <1>5, <1>6 DEF Ledger!vars, workerVars

\* A step of the worker adds outstanding events of one user, or is invisible.
LEMMA WorkerLedger ==
    ASSUME WP!OneWorker, LedgerInv, WorkerStep
    PROVE  /\ WP!MatchInv'
           /\ \/ UNCHANGED Ledger!vars
              \/ \E u \in Users, S \in SUBSET Events : Ledger!ApplyBatch(u, S)
<1>1. /\ PipelineInv /\ PipelineInv' /\ WP!MatchInv /\ WP!PublishedInv
      /\ UNCHANGED <<log, canonical>> /\ WP!WorkerNext
  BY WorkerKeeps DEF LedgerInv, PipelineInv
<1>2. WP!MatchInv'
  BY <1>1, WP!MatchNext, PipelineAssumption DEF WP!Next
<1>3. O!Committed' = O!Committed
  BY <1>1, SameOutbox DEF PipelineInv, O!Committed, OP!Committed
<1>4. \/ v1' = v1
      \/ \E u \in Users, S \in SUBSET WP!Published :
            /\ S # {} /\ WP!Added(u, S)
            /\ \A e \in S : UserOf[e] = u /\ v1[u][e] = 0
  BY <1>1, WP!WorkerAdds, PipelineAssumption
<1>5. WP!Published \subseteq O!Committed /\ O!Committed \subseteq Events
  <2>1. OP!NoPhantomEvent
    BY <1>1 DEF PipelineInv, OP!OutboxInv
  <2> QED
    BY <2>1, SameOutbox DEF OP!NoPhantomEvent, WP!Published, OP!Committed
<1>6. ASSUME NEW u \in Users, NEW S \in SUBSET WP!Published, S # {}, WP!Added(u, S),
             \A e \in S : UserOf[e] = u /\ v1[u][e] = 0
      PROVE  S \in SUBSET Events /\ Ledger!ApplyBatch(u, S)
  <2>1. S \subseteq Ledger!Outstanding(u)
    BY <1>5, <1>6 DEF Ledger!Outstanding
  <2> QED
    BY <1>3, <1>5, <1>6, <2>1 DEF Ledger!ApplyBatch, WP!Added
<1> QED
  BY <1>2, <1>3, <1>4, <1>6 DEF Ledger!vars

\* Every step is a step of the ledger or a stutter.
LEMMA LedgerNext ==
    WP!OneWorker /\ LedgerInv /\ [Next]_vars => LedgerInv' /\ [Ledger!Next]_(Ledger!vars)
<1> SUFFICES ASSUME WP!OneWorker, LedgerInv, [Next]_vars
             PROVE  LedgerInv' /\ [Ledger!Next]_(Ledger!vars)
  OBVIOUS
<1>1. PipelineInv'
  BY PipelineNext DEF LedgerInv
<1>2. ASSUME NEW e \in Events, AcceptInteraction(e)
      PROVE  WP!MatchInv' /\ Ledger!Next
  BY <1>2, AcceptLedger DEF Ledger!Next
<1>3. ASSUME WorkerStep
      PROVE  WP!MatchInv' /\ (Ledger!Next \/ UNCHANGED Ledger!vars)
  BY <1>3, WorkerLedger DEF Ledger!Next
<1>4. ASSUME UNCHANGED vars PROVE WP!MatchInv' /\ UNCHANGED Ledger!vars
  <2>1. UNCHANGED WP!vars /\ row' = row /\ v1' = v1
    BY <1>4 DEF vars, outboxVars, workerVars, WP!vars, WP!workerVars
  <2>2. WP!MatchInv'
    BY <2>1, WP!MatchNext, PipelineAssumption DEF LedgerInv
  <2> QED
    BY <2>1, <2>2 DEF Ledger!vars, O!Committed
<1> QED
  BY <1>1, <1>2, <1>3, <1>4, OutboxLedger DEF Next, LedgerInv

\* With one worker every step of the outbox and the worker is an acceptance,
\* an addition of accepted events the vector lacks, or invisible: the safety
\* part of ExactlyOnceEffects.
THEOREM PipelineImplementsLedger ==
    ASSUME WP!OneWorker
    PROVE  SafetySpec => Ledger!Init /\ [][Ledger!Next]_(Ledger!vars)
<1>1. LedgerInv /\ [Next]_vars => LedgerInv' /\ [Ledger!Next]_(Ledger!vars)
  BY LedgerNext
<1> QED
  BY <1>1, LedgerInit, PTL DEF SafetySpec
=============================================================================
