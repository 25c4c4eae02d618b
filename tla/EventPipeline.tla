--------------------------- MODULE EventPipeline ----------------------------
(***************************************************************************)
(* The event pipeline: the outbox of the interaction service and the       *)
(* feature-store worker, joined by the interactions topic.                 *)
(*                                                                         *)
(* The components share `log', which the outbox appends to and the worker  *)
(* reads, and `canonical', the behavior_events rows, which the request     *)
(* transaction commits together with the outbox row.                       *)
(***************************************************************************)
EXTENDS Naturals, FiniteSets, Sequences

CONSTANTS
    Events, Users, Partitions, UserOf, PartitionOf,
    Dispatchers, Poison, NoEvent, OutboxBatch, OutboxFaults,
    Workers, Missing, Skipped, Unweighted, ZeroWeight, FlushBatch, WorkerFaults, MaxLog,
    NoUser

\* What the two components assume of the constants they are given.
ASSUME PipelineAssumption ==
    /\ UserOf \in [Events -> Users]
    /\ PartitionOf \in [Events -> Partitions]
    /\ Poison \subseteq Events /\ NoEvent \notin Events
    /\ Missing \subseteq Users /\ NoUser \notin Users
    /\ Skipped \subseteq Events
    /\ ZeroWeight \subseteq Events /\ Unweighted \subseteq ZeroWeight
    /\ {OutboxBatch, FlushBatch} \subseteq Nat \ {0}
    /\ {OutboxFaults, WorkerFaults, MaxLog} \subseteq Nat

VARIABLES
    row, started, lastError, dpc, locked, attempted, late, faults,
    log, canonical,
    owner, position, committed, receipts, v1, v2, cache, trending,
    wpc, buffer, work, tx, failed, applied, stopping, wfaults

O == INSTANCE Outbox WITH BatchSize <- OutboxBatch, MaxFaults <- OutboxFaults

W == INSTANCE FeatureStoreWorker
        WITH BatchSize <- FlushBatch, MaxFaults <- WorkerFaults,
             Cancellable <- FALSE

outboxVars == <<row, started, lastError, dpc, locked, attempted, late, faults>>
workerVars == <<owner, position, committed, receipts, v1, v2, cache, trending,
                wpc, buffer, work, tx, failed, applied, stopping, wfaults>>
vars == <<outboxVars, log, canonical, workerVars>>

TypeOK == O!TypeOK /\ W!TypeOK

Init == O!Init /\ W!Init

\* The request transaction commits the mutation, its behavior_events row and
\* its outbox row together.
AcceptInteraction(e) ==
    /\ O!EnqueueEvent(e)
    /\ canonical' = canonical \cup {e}
    /\ UNCHANGED workerVars

\* Every other step of the outbox and of the broker.
OutboxStep ==
    /\ \/ \E e \in Events : O!BeginEvent(e) \/ O!LateAppend(e)
       \/ \E d \in Dispatchers :
             \/ O!Dispatch(d) \/ O!SendTimeout(d)
             \/ O!Interrupt(d) \/ O!CommitUnknown(d)
       \/ \E S \in SUBSET Events : O!Cleanup(S)
    /\ UNCHANGED <<canonical, workerVars>>

WorkerStep ==
    /\ W!WorkerNext
    /\ UNCHANGED outboxVars

Next ==
    \/ \E e \in Events : AcceptInteraction(e)
    \/ OutboxStep
    \/ WorkerStep

\* Both loops go on, and outages end (see the components).
Fairness ==
    /\ \A d \in Dispatchers :
          /\ WF_vars(OutboxStep /\ O!SelectRow(d))
          /\ WF_vars(OutboxStep /\ O!EndBatch(d))
          /\ WF_vars(OutboxStep /\ O!CommitOutcome(d))
          /\ WF_vars(OutboxStep /\ (O!SendAck(d) \/ O!SendFail(d)))
    /\ \A d \in Dispatchers : \A e \in Events :
          SF_vars(OutboxStep /\ O!SendAck(d) /\ locked[d] = e)
    /\ \A w \in Workers : WF_vars(WorkerStep /\ W!Step(w))

SafetySpec == Init /\ [][Next]_vars

Spec == SafetySpec /\ Fairness

-----------------------------------------------------------------------------
(* Properties.                                                             *)

Ledger == INSTANCE FeatureLedger
             WITH accepted <- O!Committed, vector <- v1

\* End to end the pipeline adds every accepted interaction to its user's
\* vector exactly once: at-least-once delivery by the outbox and receipts in
\* the worker make FeatureLedger, with its promise that every accepted event
\* is applied at some time, for one worker and events the broker accepts.
ExactlyOnceEffects == Ledger!Spec

\* An event applied by the worker was published by the outbox, and an outbox
\* row is never cleaned up while the worker could still need the event: what
\* is not yet applied is still in its row or in the topic (cleanup_batch may
\* only forget what the broker has).  Events that _flush drops are never
\* applied.
UnappliedIsRecoverable ==
    \A e \in O!Committed \ (receipts \cup Skipped) :
        \/ row[e] = "pending"
        \/ \E i \in (committed[PartitionOf[e]] + 1)..Len(log[PartitionOf[e]]) :
              log[PartitionOf[e]][i] = e
=============================================================================
