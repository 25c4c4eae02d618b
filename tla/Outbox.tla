------------------------------- MODULE Outbox -------------------------------
(***************************************************************************)
(* The transactional outbox of the interaction service                     *)
(* (backend/services/interaction-service/src/outbox.rs).                   *)
(*                                                                         *)
(* A request transaction inserts its envelope in interaction_event_outbox  *)
(* together with the mutation that caused it.  Every replica of the        *)
(* service runs one dispatcher, which repeatedly locks the oldest unsent   *)
(* row (FOR UPDATE SKIP LOCKED), produces it to Kafka, records the outcome *)
(* and commits.  A cleanup task deletes rows that were sent long ago.      *)
(*                                                                         *)
(* A row is written by one transaction and is identified by its event_id,  *)
(* so the table is a function from event ids to the life-cycle stage of    *)
(* the row.  created_at is NOW(), the START of the inserting transaction,  *)
(* so rows may become visible in an order other than created_at order.     *)
(***************************************************************************)
EXTENDS Naturals, FiniteSets, Sequences

CONSTANTS
    Events,       \* event ids of the envelopes
    Partitions,   \* partitions of the interactions topic
    PartitionOf,  \* partition an event's key (its post) hashes to
    Dispatchers,  \* one per replica of interaction-service
    BatchSize,    \* BATCH_SIZE
    Poison,       \* events the broker refuses whatever happens (too large)
    NoEvent,      \* "no row locked"
    MaxFaults     \* bound on crashes, database errors and late appends

ASSUME OutboxAssumption ==
    /\ PartitionOf \in [Events -> Partitions]
    /\ BatchSize \in Nat \ {0}
    /\ Poison \subseteq Events
    /\ NoEvent \notin Events
    /\ MaxFaults \in Nat

VARIABLES
    row,        \* stage of each row of interaction_event_outbox
    started,    \* event ids in created_at order
    lastError,  \* last_error IS NOT NULL
    dpc,        \* where each dispatcher is in dispatch_next
    locked,     \* the row each dispatcher holds FOR UPDATE
    attempted,  \* `attempted' of the dispatcher's current dispatch_batch
    late,       \* produce requests reported as failed, still in the network
    log,        \* the topic: per partition, the sequence of appended events
    faults      \* faults so far

outboxVars == <<row, started, lastError, dpc, locked, attempted, late, faults>>
vars == <<outboxVars, log>>

Stages == {"none", "open", "pending", "sent", "deleted"}

\* The rows other transactions can see.
Committed == {e \in Events : row[e] \in {"pending", "sent", "deleted"}}

InLog(e) == \E p \in Partitions : \E i \in 1..Len(log[p]) : log[p][i] = e

TypeOK ==
    /\ row \in [Events -> Stages]
    /\ started \in Seq(Events)
    /\ lastError \in [Events -> BOOLEAN]
    /\ dpc \in [Dispatchers -> {"select", "sending", "acked", "failed"}]
    /\ locked \in [Dispatchers -> Events \cup {NoEvent}]
    /\ attempted \in [Dispatchers -> SUBSET Events]
    /\ late \in SUBSET Events
    /\ log \in [Partitions -> Seq(Events)]
    /\ faults \in 0..MaxFaults

Init ==
    /\ row = [e \in Events |-> "none"]
    /\ started = << >>
    /\ lastError = [e \in Events |-> FALSE]
    /\ dpc = [d \in Dispatchers |-> "select"]
    /\ locked = [d \in Dispatchers |-> NoEvent]
    /\ attempted = [d \in Dispatchers |-> {}]
    /\ late = {}
    /\ log = [p \in Partitions |-> << >>]
    /\ faults = 0

-----------------------------------------------------------------------------
(* The request transaction that writes the row.                            *)

\* The transaction starts, fixing created_at.
BeginEvent(e) ==
    /\ row[e] = "none"
    /\ row' = [row EXCEPT ![e] = "open"]
    /\ started' = Append(started, e)
    /\ UNCHANGED <<lastError, dpc, locked, attempted, late, log, faults>>

\* The INSERT commits with the mutation: the row becomes visible, unsent.
EnqueueEvent(e) ==
    /\ row[e] = "open"
    /\ row' = [row EXCEPT ![e] = "pending"]
    /\ UNCHANGED <<started, lastError, dpc, locked, attempted, late, log, faults>>

-----------------------------------------------------------------------------
(* The dispatcher.                                                         *)

\* Rows the SELECT considers: unsent, not attempted in this batch, and not
\* locked by another dispatcher (SKIP LOCKED).
Eligible(d) ==
    {e \in Events \ attempted[d] :
        row[e] = "pending" /\ \A o \in Dispatchers : locked[o] # e}

\* ORDER BY created_at, event_id LIMIT 1
Oldest(S, e) ==
    /\ e \in S
    /\ \E i \in 1..Len(started) :
          /\ started[i] = e
          /\ \A j \in 1..(i - 1) : started[j] \notin S

\* dispatch_next: begin, SELECT, and the produce request leaves.
SelectRow(d) ==
    /\ dpc[d] = "select"
    /\ Cardinality(attempted[d]) < BatchSize
    /\ \E e \in Events :
          /\ Oldest(Eligible(d), e)
          /\ locked' = [locked EXCEPT ![d] = e]
    /\ dpc' = [dpc EXCEPT ![d] = "sending"]
    /\ UNCHANGED <<row, started, lastError, attempted, late, log, faults>>

\* dispatch_batch returns: no row left to try, or BATCH_SIZE rows tried.  The
\* dispatcher sleeps and starts the next batch with an empty `attempted'.
EndBatch(d) ==
    /\ dpc[d] = "select"
    /\ Eligible(d) = {} \/ Cardinality(attempted[d]) >= BatchSize
    /\ attempted' = [attempted EXCEPT ![d] = {}]
    /\ UNCHANGED <<row, started, lastError, dpc, locked, late, log, faults>>

AppendToLog(e) ==
    log' = [log EXCEPT ![PartitionOf[e]] = Append(@, e)]

\* try_produce_json returns Ok: acks=all, the broker has the record.
SendAck(d) ==
    /\ dpc[d] = "sending"
    /\ locked[d] \notin Poison
    /\ AppendToLog(locked[d])
    /\ dpc' = [dpc EXCEPT ![d] = "acked"]
    /\ UNCHANGED <<row, started, lastError, locked, attempted, late, faults>>

\* try_produce_json returns Err and the record never reaches the log.
SendFail(d) ==
    /\ dpc[d] = "sending"
    /\ dpc' = [dpc EXCEPT ![d] = "failed"]
    /\ UNCHANGED <<row, started, lastError, locked, attempted, late, log, faults>>

\* try_produce_json times out (message.timeout.ms) while the request is still
\* on its way to the broker, or its acknowledgement is lost.
SendTimeout(d) ==
    /\ dpc[d] = "sending"
    /\ locked[d] \notin Poison \cup late
    /\ faults < MaxFaults
    /\ late' = late \cup {locked[d]}
    /\ dpc' = [dpc EXCEPT ![d] = "failed"]
    /\ faults' = faults + 1
    /\ UNCHANGED <<row, started, lastError, locked, attempted, log>>

\* The broker appends a request its producer gave up on.
LateAppend(e) ==
    /\ e \in late
    /\ AppendToLog(e)
    /\ late' = late \ {e}
    /\ UNCHANGED <<row, started, lastError, dpc, locked, attempted, faults>>

\* The row is marked as sent whatever the broker answered.
MUT_RecordSent(d) ==
    /\ row' = [row EXCEPT ![locked[d]] = "sent"]
    /\ lastError' = [lastError EXCEPT ![locked[d]] = (dpc[d] # "acked")]

\* The UPDATE of the success branch is missing.
MUT_RecordNothing(d) ==
    /\ row' = row
    /\ lastError' = [lastError EXCEPT ![locked[d]] = (dpc[d] # "acked")]

\* The row as the UPDATE of dispatch_next leaves it, by the send's outcome.
RecordOutcome(d) ==
    IF dpc[d] = "acked"
    THEN /\ row' = [row EXCEPT ![locked[d]] = "sent"]
         /\ lastError' = [lastError EXCEPT ![locked[d]] = FALSE]
    ELSE /\ row' = row
         /\ lastError' = [lastError EXCEPT ![locked[d]] = TRUE]

\* The failed row is not remembered as attempted: the next SELECT of the
\* batch finds it again.
MUT_CommitForgetsAttempt(d) ==
    /\ dpc[d] \in {"acked", "failed"}
    /\ RecordOutcome(d)
    /\ locked' = [locked EXCEPT ![d] = NoEvent]
    /\ dpc' = [dpc EXCEPT ![d] = "select"]
    /\ UNCHANGED <<started, attempted, late, log, faults>>

\* UPDATE and tx.commit() succeed: the row is unlocked and counted as
\* attempted in this batch.
CommitOutcome(d) ==
    /\ dpc[d] \in {"acked", "failed"}
    /\ RecordOutcome(d)
    /\ attempted' = [attempted EXCEPT ![d] = @ \cup {locked[d]}]
    /\ locked' = [locked EXCEPT ![d] = NoEvent]
    /\ dpc' = [dpc EXCEPT ![d] = "select"]
    /\ UNCHANGED <<started, late, log, faults>>

\* A database call fails, or the process crashes and restarts: the open
\* transaction rolls back, its row lock goes, and the next batch starts with
\* an empty `attempted'.  A request already handed to the producer may still
\* reach the broker.
Interrupt(d) ==
    /\ faults < MaxFaults
    /\ faults' = faults + 1
    /\ \/ late' = late
       \/ /\ dpc[d] = "sending"
          /\ locked[d] \notin Poison
          /\ late' = late \cup {locked[d]}
    /\ locked' = [locked EXCEPT ![d] = NoEvent]
    /\ attempted' = [attempted EXCEPT ![d] = {}]
    /\ dpc' = [dpc EXCEPT ![d] = "select"]
    /\ UNCHANGED <<row, started, lastError, log>>

\* tx.commit() took effect but its answer was lost: dispatch_batch returns Err
\* although the outcome is recorded.
CommitUnknown(d) ==
    /\ faults < MaxFaults
    /\ faults' = faults + 1
    /\ dpc[d] \in {"acked", "failed"}
    /\ RecordOutcome(d)
    /\ locked' = [locked EXCEPT ![d] = NoEvent]
    /\ attempted' = [attempted EXCEPT ![d] = {}]
    /\ dpc' = [dpc EXCEPT ![d] = "select"]
    /\ UNCHANGED <<started, late, log>>

-----------------------------------------------------------------------------
(* clean_sent_events                                                       *)

\* The age is taken from created_at, sent or not.
MUT_ExpiredByAge(e) ==
    row[e] \in {"pending", "sent"} /\ \A d \in Dispatchers : locked[d] # e

\* Rows the cleanup may delete: sent more than seven days ago, not locked.
Expired(e) == row[e] = "sent" /\ \A d \in Dispatchers : locked[d] # e

\* cleanup_batch: the age of a row is not modelled, so any set of expired rows
\* may go.
Cleanup(S) ==
    /\ S # {}
    /\ \A e \in S : Expired(e)
    /\ row' = [e \in Events |-> IF e \in S THEN "deleted" ELSE row[e]]
    /\ UNCHANGED <<started, lastError, dpc, locked, attempted, late, log, faults>>

-----------------------------------------------------------------------------
Dispatch(d) ==
    SelectRow(d) \/ EndBatch(d) \/ SendAck(d) \/ SendFail(d) \/ CommitOutcome(d)

Next ==
    \/ \E e \in Events : BeginEvent(e) \/ EnqueueEvent(e) \/ LateAppend(e)
    \/ \E d \in Dispatchers :
          Dispatch(d) \/ SendTimeout(d) \/ Interrupt(d) \/ CommitUnknown(d)
    \/ \E S \in SUBSET Events : Cleanup(S)

Spec == Init /\ [][Next]_vars

\* The dispatcher loop never stops (`loop' in run), and an outage of Kafka
\* ends: a send that keeps being tried is acknowledged at some time.
Fairness ==
    /\ \A d \in Dispatchers :
          /\ WF_vars(SelectRow(d))
          /\ WF_vars(EndBatch(d))
          /\ WF_vars(CommitOutcome(d))
          /\ WF_vars(SendAck(d) \/ SendFail(d))
    /\ \A d \in Dispatchers : \A e \in Events :
          SF_vars(SendAck(d) /\ locked[d] = e)

FairSpec == Spec /\ Fairness

-----------------------------------------------------------------------------
(* Properties.                                                             *)

\* A row is marked sent, or removed by the cleanup, only when the broker has
\* the record: neither a failed send, a crash, a commit whose answer is lost
\* nor the cleanup loses an event (dispatch_next, cleanup_batch).
NoEventLost ==
    \A e \in Events : row[e] \in {"sent", "deleted"} => InLog(e)

\* The topic holds only events whose transaction committed: nothing is
\* published for a request that rolled back or is still open (dispatch_next
\* reads committed rows only).
NoPhantomEvent ==
    \A p \in Partitions : \A i \in 1..Len(log[p]) :
        log[p][i] \in Committed

\* Two replicas never work on one row at a time, so that they never publish
\* the same event side by side: the row lock spans the send (FOR UPDATE SKIP
\* LOCKED, lines 132-134).
RowLockExclusive ==
    \A d, o \in Dispatchers :
        d # o => locked[d] = NoEvent \/ locked[d] # locked[o]

\* How often an event is in its partition.
Copies(e) ==
    Cardinality({i \in 1..Len(log[PartitionOf[e]]) : log[PartitionOf[e]][i] = e})

\* An event is published twice only because of a fault: every further copy of
\* any event is paid for by a crash, a database error or a lost answer.
DuplicatesNeedFaults ==
    \A e \in Events : Copies(e) + Cardinality(late \cap {e}) <= 1 + faults

\* A committed event the broker accepts is published at some time, whatever
\* the rows that keep failing: the promise of the comment of dispatch_batch
\* that a failed row "cannot starve later events" (lines 90-91).
HealthyEventsPublished ==
    \A e \in Events \ Poison : (row[e] = "pending") ~> InLog(e)
=============================================================================
