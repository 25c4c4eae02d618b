---------------------------- MODULE OutboxProofs ----------------------------
(***************************************************************************)
(* Proofs about the outbox, for any number of events, partitions and       *)
(* dispatchers, any batch size and any number of faults.                   *)
(*                                                                         *)
(* None of the three safety properties is inductive by itself.  The        *)
(* invariant ties the program counter of a dispatcher to the row it has    *)
(* locked: a locked row is unsent, is locked by one dispatcher, and is in  *)
(* the log once the dispatcher has seen the acknowledgement.               *)
(***************************************************************************)
EXTENDS Outbox, FiniteSetTheorems, TLAPS

\* A dispatcher holds a row lock exactly while its transaction is open, and
\* the row stays unsent until that transaction commits.
LockedRowIsPending ==
    \A d \in Dispatchers :
        /\ dpc[d] = "select" <=> locked[d] = NoEvent
        /\ locked[d] # NoEvent => row[locked[d]] = "pending"

\* The acknowledgement is only seen for a record in the log.
AckedIsInLog ==
    \A d \in Dispatchers : dpc[d] = "acked" => InLog(locked[d])

\* Requests still in the network are for committed rows, too.
LateIsCommitted == late \subseteq Committed

OutboxInv ==
    /\ TypeOK
    /\ LockedRowIsPending
    /\ RowLockExclusive
    /\ AckedIsInLog
    /\ NoEventLost
    /\ LateIsCommitted
    /\ NoPhantomEvent

-----------------------------------------------------------------------------
\* Appending to the log (AppendToLog) keeps what is in it, adds the new event
\* and nothing else, and leaves the log well typed.
LEMMA AppendToLogLemma ==
    ASSUME TypeOK, NEW x \in Events, AppendToLog(x)
    PROVE  /\ log' \in [Partitions -> Seq(Events)]
           /\ InLog(x)'
           /\ \A e \in Events : InLog(e) => InLog(e)'
           /\ \A p \in Partitions : \A i \in 1..Len(log'[p]) :
                 log'[p][i] = x \/ (i \in 1..Len(log[p]) /\ log'[p][i] = log[p][i])
<1> DEFINE q == PartitionOf[x]
<1>1. q \in Partitions
  BY OutboxAssumption
<1>2. log \in [Partitions -> Seq(Events)]
  BY DEF TypeOK
<1>3. /\ log' \in [Partitions -> Seq(Events)]
      /\ log'[q] = Append(log[q], x)
      /\ \A p \in Partitions : p # q => log'[p] = log[p]
  BY <1>1, <1>2 DEF AppendToLog
<1>4. /\ Len(log'[q]) = Len(log[q]) + 1
      /\ log'[q][Len(log[q]) + 1] = x
      /\ \A i \in 1..Len(log[q]) : log'[q][i] = log[q][i]
      /\ Len(log[q]) \in Nat
  BY <1>1, <1>2, <1>3
<1>5. InLog(x)'
  <2>1. Len(log[q]) + 1 \in 1..Len(log'[q])
    BY <1>4
  <2> QED
    BY <1>1, <1>4, <2>1 DEF InLog
<1>6. ASSUME NEW e \in Events, InLog(e)
      PROVE  InLog(e)'
  <2>1. PICK p \in Partitions : \E i \in 1..Len(log[p]) : log[p][i] = e
    BY <1>6 DEF InLog
  <2>2. PICK i \in 1..Len(log[p]) : log[p][i] = e
    BY <2>1
  <2>3. i \in 1..Len(log'[p]) /\ log'[p][i] = e
    <3>1. CASE p = q
      BY <3>1, <2>2, <1>4
    <3>2. CASE p # q
      BY <3>2, <2>2, <1>3
    <3> QED
      BY <3>1, <3>2
  <2> QED
    BY <2>3 DEF InLog
<1>7. ASSUME NEW p \in Partitions, NEW i \in 1..Len(log'[p])
      PROVE  log'[p][i] = x \/ (i \in 1..Len(log[p]) /\ log'[p][i] = log[p][i])
  <2>1. CASE p = q
    BY <2>1, <1>4
  <2>2. CASE p # q
    BY <2>2, <1>3
  <2> QED
    BY <2>1, <2>2
<1> QED
  BY <1>3, <1>5, <1>6, <1>7

\* The outbox starts with the invariant.
LEMMA OutboxInitInv == Init => OutboxInv
<1> SUFFICES ASSUME Init PROVE OutboxInv
  OBVIOUS
<1>1. TypeOK
  BY OutboxAssumption DEF Init, TypeOK, Stages
<1>2. LockedRowIsPending /\ RowLockExclusive /\ AckedIsInLog
  BY OutboxAssumption DEF Init, LockedRowIsPending, RowLockExclusive, AckedIsInLog
<1>3. NoEventLost /\ LateIsCommitted /\ NoPhantomEvent
  BY DEF Init, NoEventLost, LateIsCommitted, NoPhantomEvent, Committed
<1> QED
  BY <1>1, <1>2, <1>3 DEF OutboxInv

\* The value of `locked[d]' while a transaction is open.
LEMMA LockedEvent ==
    ASSUME OutboxInv, NEW d \in Dispatchers, dpc[d] # "select"
    PROVE  locked[d] \in Events /\ row[locked[d]] = "pending"
  BY DEF OutboxInv, TypeOK, LockedRowIsPending

\* A step that leaves rows, log, late requests and acknowledgements alone
\* keeps the parts of the invariant that speak of them.
LEMMA LogUntouched ==
    ASSUME OutboxInv, row' = row, late' = late, log' = log
    PROVE  /\ NoEventLost' /\ LateIsCommitted' /\ NoPhantomEvent'
           /\ \A e \in Events : InLog(e) => InLog(e)'
  BY DEF OutboxInv, NoEventLost, LateIsCommitted, NoPhantomEvent, Committed, InLog

\* A step that appends a committed event to the log, and touches no row, keeps
\* those parts, too.
LEMMA LogGrows ==
    ASSUME OutboxInv, NEW x \in Committed, AppendToLog(x),
           row' = row, late' \subseteq late
    PROVE  /\ NoEventLost' /\ LateIsCommitted' /\ NoPhantomEvent'
           /\ InLog(x)'
           /\ \A e \in Events : InLog(e) => InLog(e)'
           /\ log' \in [Partitions -> Seq(Events)]
<1>1. TypeOK /\ x \in Events
  BY DEF OutboxInv, Committed
<1>2. /\ log' \in [Partitions -> Seq(Events)]
      /\ InLog(x)'
      /\ \A e \in Events : InLog(e) => InLog(e)'
      /\ \A p \in Partitions : \A i \in 1..Len(log'[p]) :
            log'[p][i] = x \/ (i \in 1..Len(log[p]) /\ log'[p][i] = log[p][i])
  BY <1>1, AppendToLogLemma
<1>3. Committed' = Committed
  BY DEF Committed
<1>4. NoEventLost'
  BY <1>2 DEF OutboxInv, NoEventLost
<1>5. LateIsCommitted'
  BY <1>3 DEF OutboxInv, LateIsCommitted
<1>6. NoPhantomEvent'
  BY <1>2, <1>3 DEF OutboxInv, NoPhantomEvent
<1> QED
  BY <1>2, <1>4, <1>5, <1>6

\* A step that moves rows forward without touching the log keeps them if a row
\* it makes sent or deleted is in the log.
LEMMA RowsAdvance ==
    ASSUME OutboxInv, row' \in [Events -> Stages], late' = late, log' = log,
           \A e \in Events : row'[e] # row[e] =>
              /\ row'[e] \in {"pending", "sent", "deleted"}
              /\ row'[e] \in {"sent", "deleted"} => InLog(e)
    PROVE  /\ NoEventLost' /\ LateIsCommitted' /\ NoPhantomEvent'
           /\ \A e \in Events : InLog(e) => InLog(e)'
<1>1. \A e \in Events : InLog(e)' <=> InLog(e)
  BY DEF InLog
<1>2. Committed \subseteq Committed'
  BY DEF Committed
<1>3. NoEventLost'
  BY <1>1 DEF OutboxInv, NoEventLost
<1>4. LateIsCommitted'
  BY <1>2 DEF OutboxInv, LateIsCommitted
<1>5. NoPhantomEvent'
  BY <1>2 DEF OutboxInv, NoPhantomEvent
<1> QED
  BY <1>1, <1>3, <1>4, <1>5

-----------------------------------------------------------------------------
(* One lemma per kind of step.                                             *)

\* A request transaction that starts has published nothing yet.
LEMMA BeginEventInv ==
    ASSUME OutboxInv, NEW e \in Events, BeginEvent(e)
    PROVE  OutboxInv'
<1> USE DEF OutboxInv, BeginEvent
<1>1. TypeOK'
  <2>1. started' \in Seq(Events)
    BY DEF TypeOK
  <2> QED
    BY <2>1 DEF TypeOK, Stages
<1>2. \A d \in Dispatchers : locked[d] # NoEvent => locked[d] \in Events /\ locked[d] # e
  BY DEF TypeOK, LockedRowIsPending
<1>3. LockedRowIsPending' /\ RowLockExclusive'
  BY <1>2 DEF TypeOK, LockedRowIsPending, RowLockExclusive
<1>4. \A x \in Events : InLog(x)' <=> InLog(x)
  BY DEF InLog
<1>5. AckedIsInLog'
  BY <1>4 DEF AckedIsInLog, InLog
<1>6. NoEventLost'
  BY <1>4 DEF TypeOK, NoEventLost
<1>7. Committed' = Committed
  BY DEF Committed, TypeOK
<1>8. LateIsCommitted' /\ NoPhantomEvent'
  BY <1>7 DEF LateIsCommitted, NoPhantomEvent
<1> QED
  BY <1>1, <1>3, <1>5, <1>6, <1>8

\* The request commits its row: the event counts as accepted, and is pending.
LEMMA EnqueueEventInv ==
    ASSUME OutboxInv, NEW e \in Events, EnqueueEvent(e)
    PROVE  OutboxInv'
<1> USE DEF EnqueueEvent
<1>1. TypeOK'
  BY DEF OutboxInv, TypeOK, Stages
<1>2. row' \in [Events -> Stages]
  BY <1>1 DEF TypeOK
<1>3. \A x \in Events : row'[x] # row[x] =>
          /\ row'[x] \in {"pending", "sent", "deleted"}
          /\ row'[x] \in {"sent", "deleted"} => InLog(x)
  BY DEF OutboxInv, TypeOK
<1>4. /\ NoEventLost' /\ LateIsCommitted' /\ NoPhantomEvent'
      /\ \A x \in Events : InLog(x) => InLog(x)'
  BY <1>2, <1>3, RowsAdvance
<1>5. LockedRowIsPending' /\ RowLockExclusive'
  BY DEF OutboxInv, TypeOK, LockedRowIsPending, RowLockExclusive
<1>6. AckedIsInLog'
  BY DEF OutboxInv, AckedIsInLog, InLog
<1> QED
  BY <1>1, <1>4, <1>5, <1>6 DEF OutboxInv

\* A record the broker appends after the send timed out is of a committed row.
LEMMA LateAppendInv ==
    ASSUME OutboxInv, NEW e \in Events, LateAppend(e)
    PROVE  OutboxInv'
<1> USE DEF LateAppend
<1>1. e \in Committed
  BY DEF OutboxInv, LateIsCommitted
<1>2. /\ NoEventLost' /\ LateIsCommitted' /\ NoPhantomEvent'
      /\ \A x \in Events : InLog(x) => InLog(x)'
      /\ log' \in [Partitions -> Seq(Events)]
  BY <1>1, LogGrows
<1>3. TypeOK'
  BY <1>2 DEF OutboxInv, TypeOK
<1>4. LockedRowIsPending' /\ RowLockExclusive'
  BY DEF OutboxInv, LockedRowIsPending, RowLockExclusive
<1>5. AckedIsInLog'
  <2> SUFFICES ASSUME NEW d \in Dispatchers, dpc[d] = "acked"
               PROVE  InLog(locked[d])'
    BY DEF AckedIsInLog, InLog
  <2>1. locked[d] \in Events /\ InLog(locked[d])
    BY LockedEvent DEF OutboxInv, AckedIsInLog
  <2>2. InLog(locked[d])' <=> \E p \in Partitions : \E i \in 1..Len(log'[p]) : log'[p][i] = locked[d]
    BY DEF InLog
  <2>3. \E p \in Partitions : \E i \in 1..Len(log'[p]) : log'[p][i] = locked[d]
    BY <2>1, <1>2 DEF InLog
  <2> QED
    BY <2>2, <2>3
<1> QED
  BY <1>2, <1>3, <1>4, <1>5 DEF OutboxInv

\* The selected row is pending and nobody else has it locked (SKIP LOCKED).
LEMMA SelectRowInv ==
    ASSUME OutboxInv, NEW d \in Dispatchers, SelectRow(d)
    PROVE  OutboxInv'
<1> USE DEF SelectRow
<1>1. PICK e \in Events : Oldest(Eligible(d), e) /\ locked' = [locked EXCEPT ![d] = e]
  OBVIOUS
<1>2. row[e] = "pending" /\ \A o \in Dispatchers : locked[o] # e
  BY <1>1 DEF Oldest, Eligible
<1>3. e # NoEvent
  BY OutboxAssumption
<1>4. TypeOK'
  BY <1>1 DEF OutboxInv, TypeOK
<1>5. LockedRowIsPending'
  BY <1>1, <1>2, <1>3 DEF OutboxInv, TypeOK, LockedRowIsPending
<1>6. RowLockExclusive'
  BY <1>1, <1>2 DEF OutboxInv, TypeOK, RowLockExclusive
<1>7. AckedIsInLog'
  BY <1>1 DEF OutboxInv, TypeOK, AckedIsInLog, InLog
<1>8. NoEventLost' /\ LateIsCommitted' /\ NoPhantomEvent'
  BY LogUntouched
<1> QED
  BY <1>4, <1>5, <1>6, <1>7, <1>8 DEF OutboxInv

\* The end of a batch only resets the dispatcher.
LEMMA EndBatchInv ==
    ASSUME OutboxInv, NEW d \in Dispatchers, EndBatch(d)
    PROVE  OutboxInv'
<1> USE DEF EndBatch
<1>1. TypeOK'
  BY DEF OutboxInv, TypeOK
<1>2. LockedRowIsPending' /\ RowLockExclusive' /\ AckedIsInLog'
  BY DEF OutboxInv, LockedRowIsPending, RowLockExclusive, AckedIsInLog, InLog
<1>3. NoEventLost' /\ LateIsCommitted' /\ NoPhantomEvent'
  BY LogUntouched
<1> QED
  BY <1>1, <1>2, <1>3 DEF OutboxInv

\* An acknowledged send has its record in the log.
LEMMA SendAckInv ==
    ASSUME OutboxInv, NEW d \in Dispatchers, SendAck(d)
    PROVE  OutboxInv'
<1> USE DEF SendAck
<1>1. locked[d] \in Events /\ row[locked[d]] = "pending"
  BY LockedEvent
<1>2. PICK x \in Events : x = locked[d]
  BY <1>1
<1>3. x \in Committed /\ AppendToLog(x)
  BY <1>1, <1>2 DEF Committed
<1>4. /\ NoEventLost' /\ LateIsCommitted' /\ NoPhantomEvent'
      /\ InLog(x)'
      /\ \A e \in Events : InLog(e) => InLog(e)'
      /\ log' \in [Partitions -> Seq(Events)]
  BY <1>3, LogGrows
<1>5. TypeOK'
  BY <1>4 DEF OutboxInv, TypeOK
<1>6. LockedRowIsPending' /\ RowLockExclusive'
  BY DEF OutboxInv, TypeOK, LockedRowIsPending, RowLockExclusive
<1>7. AckedIsInLog'
  <2> SUFFICES ASSUME NEW o \in Dispatchers, dpc'[o] = "acked"
               PROVE  InLog(locked[o])'
    BY DEF AckedIsInLog
  <2>1. PICK y \in Events : y = locked[o]
    BY LockedEvent, <1>1 DEF OutboxInv, TypeOK
  <2>2. InLog(y)'
    BY <1>2, <1>4, <2>1 DEF OutboxInv, TypeOK, AckedIsInLog
  <2> QED
    BY <2>1, <2>2 DEF InLog
<1> QED
  BY <1>4, <1>5, <1>6, <1>7 DEF OutboxInv

\* A send that fails or times out leaves the row as it was.
LEMMA SendFailInv ==
    ASSUME OutboxInv, NEW d \in Dispatchers, SendFail(d) \/ SendTimeout(d)
    PROVE  OutboxInv'
<1> USE DEF SendFail, SendTimeout
<1>1. locked[d] \in Events /\ row[locked[d]] = "pending"
  BY LockedEvent
<1>2. TypeOK'
  <2>1. late' \in SUBSET Events
    BY <1>1 DEF OutboxInv, TypeOK
  <2>2. faults' \in 0..MaxFaults
    BY OutboxAssumption DEF OutboxInv, TypeOK
  <2>3. dpc' \in [Dispatchers -> {"select", "sending", "acked", "failed"}]
    BY DEF OutboxInv, TypeOK
  <2> QED
    BY <2>1, <2>2, <2>3 DEF OutboxInv, TypeOK
<1>3. LockedRowIsPending' /\ RowLockExclusive'
  BY DEF OutboxInv, TypeOK, LockedRowIsPending, RowLockExclusive
<1>4. AckedIsInLog'
  BY DEF OutboxInv, TypeOK, AckedIsInLog, InLog
<1>5. NoEventLost' /\ NoPhantomEvent' /\ Committed' = Committed
  BY DEF OutboxInv, NoEventLost, NoPhantomEvent, Committed, InLog
<1>6. LateIsCommitted'
  BY <1>1, <1>5 DEF OutboxInv, LateIsCommitted, Committed
<1> QED
  BY <1>2, <1>3, <1>4, <1>5, <1>6 DEF OutboxInv

\* The UPDATE of a dispatcher, committed with or without the client knowing.
LEMMA RecordOutcomeInv ==
    ASSUME OutboxInv, NEW d \in Dispatchers,
           dpc[d] \in {"acked", "failed"}, RecordOutcome(d),
           locked' = [locked EXCEPT ![d] = NoEvent],
           attempted' \in [Dispatchers -> SUBSET Events],
           dpc' = [dpc EXCEPT ![d] = "select"],
           faults' \in 0..MaxFaults,
           UNCHANGED <<started, late, log>>
    PROVE  OutboxInv'
<1>1. locked[d] \in Events /\ row[locked[d]] = "pending"
  BY LockedEvent
<1>2. TypeOK'
  BY <1>1 DEF OutboxInv, TypeOK, RecordOutcome, Stages
<1>3. \A e \in Events : row'[e] # row[e] =>
          e = locked[d] /\ dpc[d] = "acked" /\ row'[e] = "sent"
  BY <1>1 DEF OutboxInv, TypeOK, RecordOutcome
<1>4. \A e \in Events : row'[e] # row[e] =>
          /\ row'[e] \in {"pending", "sent", "deleted"}
          /\ row'[e] \in {"sent", "deleted"} => InLog(e)
  BY <1>3 DEF OutboxInv, AckedIsInLog
<1>5. /\ NoEventLost' /\ LateIsCommitted' /\ NoPhantomEvent'
      /\ \A e \in Events : InLog(e) => InLog(e)'
  BY <1>2, <1>4, RowsAdvance DEF TypeOK
<1>6. LockedRowIsPending'
  <2> SUFFICES ASSUME NEW o \in Dispatchers
               PROVE  /\ dpc'[o] = "select" <=> locked'[o] = NoEvent
                      /\ locked'[o] # NoEvent => row'[locked'[o]] = "pending"
    BY DEF LockedRowIsPending
  <2>1. CASE o = d
    BY <2>1 DEF OutboxInv, TypeOK
  <2>2. CASE o # d
    <3>1. locked'[o] = locked[o] /\ dpc'[o] = dpc[o]
      BY <2>2 DEF OutboxInv, TypeOK
    <3>2. locked[o] # NoEvent => locked[o] \in Events /\ locked[o] # locked[d]
      BY <2>2 DEF OutboxInv, TypeOK, RowLockExclusive
    <3>3. locked[o] # NoEvent => row'[locked[o]] = row[locked[o]]
      BY <1>3, <3>2
    <3> QED
      BY <3>1, <3>3 DEF OutboxInv, LockedRowIsPending
  <2> QED
    BY <2>1, <2>2
<1>7. RowLockExclusive'
  BY DEF OutboxInv, TypeOK, RowLockExclusive
<1>8. AckedIsInLog'
  BY DEF OutboxInv, TypeOK, AckedIsInLog, InLog
<1> QED
  BY <1>2, <1>5, <1>6, <1>7, <1>8 DEF OutboxInv

\* The outcome commits: a row becomes sent only after its acknowledgement.
LEMMA CommitInv ==
    ASSUME OutboxInv, NEW d \in Dispatchers, CommitOutcome(d) \/ CommitUnknown(d)
    PROVE  OutboxInv'
<1>1. locked[d] \in Events
  BY LockedEvent DEF CommitOutcome, CommitUnknown
<1>2. CASE CommitOutcome(d)
  <2>1. attempted' \in [Dispatchers -> SUBSET Events] /\ faults' \in 0..MaxFaults
    BY <1>1, <1>2 DEF CommitOutcome, OutboxInv, TypeOK
  <2> QED
    BY <1>2, <2>1, RecordOutcomeInv DEF CommitOutcome
<1>3. CASE CommitUnknown(d)
  <2>1. attempted' \in [Dispatchers -> SUBSET Events] /\ faults' \in 0..MaxFaults
    BY <1>3, OutboxAssumption DEF CommitUnknown, OutboxInv, TypeOK
  <2> QED
    BY <1>3, <2>1, RecordOutcomeInv DEF CommitUnknown
<1> QED
  BY <1>2, <1>3

\* A lost transaction rolls back to a pending, unlocked row.
LEMMA InterruptInv ==
    ASSUME OutboxInv, NEW d \in Dispatchers, Interrupt(d)
    PROVE  OutboxInv'
<1> USE DEF Interrupt
<1>1. late' \subseteq Committed /\ late' \subseteq Events
  BY LockedEvent DEF OutboxInv, LateIsCommitted, Committed
<1>2. TypeOK'
  BY <1>1, OutboxAssumption DEF OutboxInv, TypeOK
<1>3. LockedRowIsPending' /\ RowLockExclusive'
  BY DEF OutboxInv, TypeOK, LockedRowIsPending, RowLockExclusive
<1>4. AckedIsInLog'
  BY DEF OutboxInv, TypeOK, AckedIsInLog, InLog
<1>5. NoEventLost' /\ NoPhantomEvent' /\ LateIsCommitted'
  BY <1>1 DEF OutboxInv, NoEventLost, NoPhantomEvent, LateIsCommitted, Committed, InLog
<1> QED
  BY <1>2, <1>3, <1>4, <1>5 DEF OutboxInv

\* Cleanup deletes sent rows only.
LEMMA CleanupInv ==
    ASSUME OutboxInv, NEW S \in SUBSET Events, Cleanup(S)
    PROVE  OutboxInv'
<1> USE DEF Cleanup
<1>1. TypeOK'
  BY DEF OutboxInv, TypeOK, Stages
<1>2. \A e \in Events : row'[e] # row[e] =>
          row[e] = "sent" /\ row'[e] = "deleted" /\ \A d \in Dispatchers : locked[d] # e
  BY DEF Expired
<1>3. \A e \in Events : row'[e] # row[e] =>
          /\ row'[e] \in {"pending", "sent", "deleted"}
          /\ row'[e] \in {"sent", "deleted"} => InLog(e)
  BY <1>2 DEF OutboxInv, NoEventLost
<1>4. NoEventLost' /\ LateIsCommitted' /\ NoPhantomEvent'
  BY <1>1, <1>3, RowsAdvance DEF TypeOK
<1>5. LockedRowIsPending'
  BY <1>2 DEF OutboxInv, TypeOK, LockedRowIsPending
<1>6. RowLockExclusive' /\ AckedIsInLog'
  BY DEF OutboxInv, RowLockExclusive, AckedIsInLog, InLog
<1> QED
  BY <1>1, <1>4, <1>5, <1>6 DEF OutboxInv

-----------------------------------------------------------------------------
\* Every step of the outbox keeps the invariant.
LEMMA OutboxNextInv == OutboxInv /\ [Next]_vars => OutboxInv'
<1> SUFFICES ASSUME OutboxInv, [Next]_vars PROVE OutboxInv'
  OBVIOUS
<1>1. ASSUME NEW e \in Events, BeginEvent(e) \/ EnqueueEvent(e) \/ LateAppend(e)
      PROVE  OutboxInv'
  BY <1>1, BeginEventInv, EnqueueEventInv, LateAppendInv
<1>2. ASSUME NEW d \in Dispatchers,
             Dispatch(d) \/ SendTimeout(d) \/ Interrupt(d) \/ CommitUnknown(d)
      PROVE  OutboxInv'
  BY <1>2, SelectRowInv, EndBatchInv, SendAckInv, SendFailInv, CommitInv, InterruptInv
     DEF Dispatch
<1>3. ASSUME NEW S \in SUBSET Events, Cleanup(S)
      PROVE  OutboxInv'
  BY <1>3, CleanupInv
<1>4. CASE UNCHANGED vars
  <2>1. TypeOK' /\ LockedRowIsPending' /\ RowLockExclusive' /\ AckedIsInLog'
    BY <1>4 DEF vars, outboxVars, OutboxInv, TypeOK, LockedRowIsPending,
                RowLockExclusive, AckedIsInLog, InLog
  <2>2. NoEventLost' /\ LateIsCommitted' /\ NoPhantomEvent'
    BY <1>4, LogUntouched DEF vars, outboxVars
  <2> QED
    BY <2>1, <2>2 DEF OutboxInv
<1> QED
  BY <1>1, <1>2, <1>3, <1>4 DEF Next

\* The inductive invariant holds in every reachable state of the outbox.
THEOREM OutboxInvariant == Spec => []OutboxInv
  BY OutboxInitInv, OutboxNextInv, PTL DEF Spec

\* Type correctness of the outbox table, the dispatchers and the log.
THEOREM OutboxTypeCorrect == Spec => []TypeOK
<1>1. OutboxInv => TypeOK
  BY DEF OutboxInv
<1> QED
  BY <1>1, OutboxInvariant, PTL

\* For any number of replicas and faults, a row that is marked sent or removed
\* by the cleanup is in the topic (dispatch_next, cleanup_batch).
THEOREM OutboxNoEventLost == Spec => []NoEventLost
<1>1. OutboxInv => NoEventLost
  BY DEF OutboxInv
<1> QED
  BY <1>1, OutboxInvariant, PTL

\* For any number of replicas and faults, the topic holds committed events
\* only (the SELECT of dispatch_next).
THEOREM OutboxNoPhantomEvent == Spec => []NoPhantomEvent
<1>1. OutboxInv => NoPhantomEvent
  BY DEF OutboxInv
<1> QED
  BY <1>1, OutboxInvariant, PTL

\* For any number of replicas, a row is in the hands of one dispatcher at a
\* time (FOR UPDATE SKIP LOCKED, held to the commit).
THEOREM OutboxRowLockExclusive == Spec => []RowLockExclusive
<1>1. OutboxInv => RowLockExclusive
  BY DEF OutboxInv
<1> QED
  BY <1>1, OutboxInvariant, PTL

-----------------------------------------------------------------------------
(* How often an event is published. DuplicatesNeedFaults is not            *)
(* inductive: it says nothing of the copy an unsent row is still going     *)
(* to make. That copy is owed until the dispatcher has seen the            *)
(* acknowledgement, and is owed again when the acknowledged transaction    *)
(* is lost.                                                                *)

\* The outbox is still going to publish the event of this row.
Owed(e) ==
    /\ row[e] \in {"none", "open", "pending"}
    /\ \A d \in Dispatchers : dpc[d] = "acked" => locked[d] # e

\* The copies of an event that exist, that are on their way and that are owed.
Account(e) ==
    Copies(e) + (IF e \in late THEN 1 ELSE 0) + (IF Owed(e) THEN 1 ELSE 0)

\* Every copy beyond the first is paid for by a fault.
CopiesPaidFor == \A e \in Events : Account(e) <= 1 + faults

PublishInv == OutboxInv /\ CopiesPaidFor

\* The places of an event in its partition, of which Copies is the number.
Places(e) == {i \in 1..Len(log[PartitionOf[e]]) : log[PartitionOf[e]][i] = e}

\* Every event is in its partition a finite number of times.
LEMMA PlacesFinite ==
    ASSUME TypeOK, NEW e \in Events
    PROVE  IsFiniteSet(Places(e)) /\ Copies(e) \in Nat /\ Copies(e) = Cardinality(Places(e))
<1>1. log[PartitionOf[e]] \in Seq(Events)
  BY OutboxAssumption DEF TypeOK
<1>2. Len(log[PartitionOf[e]]) \in Nat
  BY <1>1
<1>3. IsFiniteSet(1..Len(log[PartitionOf[e]]))
  BY <1>2, FS_Interval
<1>4. IsFiniteSet(Places(e))
  BY <1>3, FS_Subset DEF Places
<1>5. Copies(e) = Cardinality(Places(e))
  BY DEF Copies, Places
<1> QED
  BY <1>4, <1>5, FS_CardinalityType

\* Appending a record (AppendToLog) makes one more copy of its event, and no
\* copy of any other.
LEMMA AppendMakesOneCopy ==
    ASSUME TypeOK, NEW x \in Events, AppendToLog(x), NEW e \in Events
    PROVE  Copies(e)' = IF e = x THEN Copies(e) + 1 ELSE Copies(e)
<1> DEFINE q == PartitionOf[x]
           n == Len(log[q])
<1>1. q \in Partitions /\ PartitionOf[e] \in Partitions
  BY OutboxAssumption
<1>2. /\ n \in Nat
      /\ Len(log'[q]) = n + 1
      /\ log'[q][n + 1] = x
      /\ \A i \in 1..n : log'[q][i] = log[q][i]
      /\ \A p \in Partitions : p # q => log'[p] = log[p]
  BY <1>1 DEF AppendToLog, TypeOK
<1>3. Copies(e)' = Cardinality(Places(e)')
  BY DEF Copies, Places
<1>4. Copies(e) = Cardinality(Places(e)) /\ IsFiniteSet(Places(e))
  BY PlacesFinite
<1>5. CASE e = x
  <2>1. Places(e)' = Places(e) \cup {n + 1}
    BY <1>2, <1>5 DEF Places
  <2>2. n + 1 \notin Places(e)
    BY <1>2, <1>5 DEF Places
  <2>3. Cardinality(Places(e)') = Cardinality(Places(e)) + 1
    BY <2>1, <2>2, <1>4, FS_AddElement
  <2> QED
    BY <2>3, <1>3, <1>4, <1>5
<1>6. CASE e # x
  <2>1. Places(e)' = Places(e)
    <3>1. CASE PartitionOf[e] = q
      BY <3>1, <1>2, <1>6 DEF Places
    <3>2. CASE PartitionOf[e] # q
      BY <3>2, <1>1, <1>2 DEF Places
    <3> QED
      BY <3>1, <3>2
  <2> QED
    BY <2>1, <1>3, <1>4, <1>6
<1> QED
  BY <1>5, <1>6

\* A step that leaves the log alone makes no copy.
LEMMA NoAppendNoCopy ==
    ASSUME log' = log, NEW e \in Events
    PROVE  Copies(e)' = Copies(e)
  BY DEF Copies

\* Nothing is published yet, and one copy of every event is owed.
LEMMA PublishInit == Init => PublishInv
<1> SUFFICES ASSUME Init, NEW e \in Events PROVE Account(e) <= 1 + faults
  BY OutboxInitInv DEF PublishInv, CopiesPaidFor
<1>1. Len(log[PartitionOf[e]]) = 0
  BY OutboxAssumption DEF Init
<1>2. {i \in 1..Len(log[PartitionOf[e]]) : log[PartitionOf[e]][i] = e} = {}
  BY <1>1
<1>3. Copies(e) = 0
  BY <1>2, FS_EmptySet DEF Copies
<1> QED
  BY <1>3 DEF Account, Init

\* The copy of a row that is being sent is still owed: the row lock keeps every
\* other dispatcher from having published it.
LEMMA SendingIsOwed ==
    ASSUME OutboxInv, NEW d \in Dispatchers, dpc[d] = "sending"
    PROVE  locked[d] \in Events /\ Owed(locked[d])
<1>1. locked[d] \in Events /\ row[locked[d]] = "pending"
  BY LockedEvent
<1>2. \A o \in Dispatchers : dpc[o] = "acked" => locked[o] # locked[d]
  BY <1>1, OutboxAssumption DEF OutboxInv, RowLockExclusive
<1> QED
  BY <1>1, <1>2 DEF Owed

\* The acknowledged record settles the copy that was owed (SendAck).
LEMMA SendAckPaid ==
    ASSUME PublishInv, NEW d \in Dispatchers, SendAck(d)
    PROVE  CopiesPaidFor'
<1> USE DEF SendAck
<1>1. OutboxInv /\ TypeOK
  BY DEF PublishInv, OutboxInv
<1>2. locked[d] \in Events /\ Owed(locked[d])
  BY <1>1, SendingIsOwed
<1>3. SUFFICES ASSUME NEW e \in Events PROVE (Account(e) <= 1 + faults)'
  BY DEF CopiesPaidFor
<1>4. Copies(e) \in Nat /\ Account(e) <= 1 + faults /\ faults \in Nat
  BY <1>1, PlacesFinite DEF PublishInv, CopiesPaidFor, TypeOK
<1>5. PICK x \in Events : x = locked[d]
  BY <1>2
<1>6. Copies(e)' = IF e = x THEN Copies(e) + 1 ELSE Copies(e)
  BY <1>1, <1>5, AppendMakesOneCopy
<1>7. e = x => Owed(e) /\ ~Owed(e)'
  BY <1>1, <1>2, <1>5 DEF Owed, TypeOK
<1>8. Owed(e)' => Owed(e)
  BY <1>1 DEF Owed, TypeOK
<1> QED
  BY <1>4, <1>6, <1>7, <1>8 DEF Account

\* The append of a late request settles the copy that was on its way.
LEMMA LateAppendPaid ==
    ASSUME PublishInv, NEW x \in Events, LateAppend(x)
    PROVE  CopiesPaidFor'
<1> USE DEF LateAppend
<1>1. OutboxInv /\ TypeOK
  BY DEF PublishInv, OutboxInv
<1>3. SUFFICES ASSUME NEW e \in Events PROVE (Account(e) <= 1 + faults)'
  BY DEF CopiesPaidFor
<1>4. Copies(e) \in Nat /\ Account(e) <= 1 + faults /\ faults \in Nat
  BY <1>1, PlacesFinite DEF PublishInv, CopiesPaidFor, TypeOK
<1>6. Copies(e)' = IF e = x THEN Copies(e) + 1 ELSE Copies(e)
  BY <1>1, AppendMakesOneCopy
<1>7. Owed(e)' <=> Owed(e)
  BY DEF Owed
<1> QED
  BY <1>4, <1>6, <1>7 DEF Account

\* A fault pays for the copy it may cause: the request left in the network, or
\* the row that will be published again.  Of the two an interrupted
\* transaction causes one, because it is sending or acknowledged, not both.
LEMMA FaultPaid ==
    ASSUME PublishInv, NEW d \in Dispatchers, SendTimeout(d) \/ Interrupt(d)
    PROVE  CopiesPaidFor'
<1>1. OutboxInv /\ TypeOK
  BY DEF PublishInv, OutboxInv
<1>2. log' = log /\ faults' = faults + 1 /\ row' = row
  BY DEF SendTimeout, Interrupt
<1>3. SUFFICES ASSUME NEW e \in Events PROVE (Account(e) <= 1 + faults)'
  BY DEF CopiesPaidFor
<1>4. Copies(e) \in Nat /\ Account(e) <= 1 + faults /\ faults \in Nat
  BY <1>1, PlacesFinite DEF PublishInv, CopiesPaidFor, TypeOK
<1>5. Copies(e)' = Copies(e)
  BY <1>2, NoAppendNoCopy
<1>6. dpc[d] = "sending" => Owed(locked[d])
  BY <1>1, SendingIsOwed
<1>7. \/ ~(e \in late' /\ e \notin late)
      \/ ~(Owed(e)' /\ ~Owed(e))
  BY <1>6, <1>2 DEF SendTimeout, Interrupt
<1> QED
  BY <1>2, <1>4, <1>5, <1>7 DEF Account

\* The recorded outcome makes no copy, and a row whose publication is not
\* acknowledged stays owed.
LEMMA CommitPaid ==
    ASSUME PublishInv, NEW d \in Dispatchers, CommitOutcome(d) \/ CommitUnknown(d)
    PROVE  CopiesPaidFor'
<1>1. OutboxInv /\ TypeOK
  BY DEF PublishInv, OutboxInv
<1>2. /\ log' = log /\ late' = late /\ faults' \in {faults, faults + 1}
      /\ RecordOutcome(d) /\ dpc[d] \in {"acked", "failed"}
      /\ locked' = [locked EXCEPT ![d] = NoEvent]
      /\ dpc' = [dpc EXCEPT ![d] = "select"]
  BY DEF CommitOutcome, CommitUnknown
<1>3. SUFFICES ASSUME NEW e \in Events PROVE (Account(e) <= 1 + faults)'
  BY DEF CopiesPaidFor
<1>4. Copies(e) \in Nat /\ Account(e) <= 1 + faults /\ faults \in Nat
  BY <1>1, PlacesFinite DEF PublishInv, CopiesPaidFor, TypeOK
<1>5. Copies(e)' = Copies(e)
  BY <1>2, NoAppendNoCopy
<1>6. Owed(e)' => Owed(e)
  <2>1. locked[d] \in Events
    BY <1>1, <1>2, LockedEvent
  <2>2. CASE dpc[d] = "acked"
    BY <2>1, <2>2, <1>1, <1>2 DEF Owed, RecordOutcome, TypeOK
  <2>3. CASE dpc[d] # "acked"
    BY <2>1, <2>3, <1>1, <1>2 DEF Owed, RecordOutcome, TypeOK
  <2> QED
    BY <2>2, <2>3
<1> QED
  BY <1>2, <1>4, <1>5, <1>6 DEF Account

\* A step that neither appends, nor fails, nor commits an outcome owes no more
\* than before.
LEMMA QuietPaid ==
    ASSUME PublishInv, log' = log, late' = late, faults' = faults,
           \A e \in Events : Owed(e)' => Owed(e)
    PROVE  CopiesPaidFor'
<1>3. SUFFICES ASSUME NEW e \in Events PROVE (Account(e) <= 1 + faults)'
  BY DEF CopiesPaidFor
<1>4. Copies(e) \in Nat /\ Account(e) <= 1 + faults /\ faults \in Nat
  BY PlacesFinite DEF PublishInv, OutboxInv, CopiesPaidFor, TypeOK
<1>5. Copies(e)' = Copies(e)
  BY NoAppendNoCopy
<1> QED
  BY <1>4, <1>5 DEF Account

\* Every step of the outbox pays for the copies it makes.
LEMMA PublishNext == PublishInv /\ [Next]_vars => PublishInv'
<1> SUFFICES ASSUME PublishInv, [Next]_vars PROVE CopiesPaidFor'
  BY OutboxNextInv DEF PublishInv
<1>0. TypeOK /\ OutboxInv
  BY DEF PublishInv, OutboxInv
<1>1. ASSUME NEW e \in Events, BeginEvent(e) \/ EnqueueEvent(e)
      PROVE  CopiesPaidFor'
  <2>1. \A x \in Events : Owed(x)' => Owed(x)
    BY <1>0, <1>1 DEF BeginEvent, EnqueueEvent, Owed, TypeOK
  <2> QED
    BY <1>1, <2>1, QuietPaid DEF BeginEvent, EnqueueEvent
<1>2. ASSUME NEW d \in Dispatchers, SelectRow(d) \/ EndBatch(d) \/ SendFail(d)
      PROVE  CopiesPaidFor'
  <2>1. \A x \in Events : Owed(x)' => Owed(x)
    BY <1>0, <1>2 DEF SelectRow, EndBatch, SendFail, Owed, TypeOK
  <2> QED
    BY <1>2, <2>1, QuietPaid DEF SelectRow, EndBatch, SendFail
<1>3. ASSUME NEW S \in SUBSET Events, Cleanup(S)
      PROVE  CopiesPaidFor'
  <2>1. \A x \in Events : Owed(x)' => Owed(x)
    BY <1>0, <1>3 DEF Cleanup, Owed, TypeOK
  <2> QED
    BY <1>3, <2>1, QuietPaid DEF Cleanup
<1>4. CASE UNCHANGED vars
  <2>1. \A x \in Events : Owed(x)' => Owed(x)
    BY <1>4 DEF Owed, vars, outboxVars
  <2> QED
    BY <1>4, <2>1, QuietPaid DEF vars, outboxVars
<1>5. ASSUME NEW e \in Events, LateAppend(e)
      PROVE  CopiesPaidFor'
  BY <1>5, LateAppendPaid
<1>6. ASSUME NEW d \in Dispatchers, SendAck(d) \/ CommitOutcome(d) \/ SendTimeout(d)
                                       \/ Interrupt(d) \/ CommitUnknown(d)
      PROVE  CopiesPaidFor'
  BY <1>6, SendAckPaid, CommitPaid, FaultPaid
<1> QED
  BY <1>1, <1>2, <1>3, <1>4, <1>5, <1>6 DEF Next, Dispatch

\* For any number of replicas, an event is published more than once only
\* because of a crash, a database error or a lost answer (dispatch_next): the
\* copies beyond the first, those still in the network included, are no more
\* than the faults.
THEOREM OutboxDuplicatesNeedFaults == Spec => []DuplicatesNeedFaults
<1>1. PublishInv => DuplicatesNeedFaults
  <2> SUFFICES ASSUME PublishInv, NEW e \in Events
               PROVE  Copies(e) + Cardinality(late \cap {e}) <= 1 + faults
    BY DEF DuplicatesNeedFaults
  <2>1. Copies(e) \in Nat /\ Account(e) <= 1 + faults /\ faults \in Nat
    BY PlacesFinite DEF PublishInv, OutboxInv, CopiesPaidFor, TypeOK
  <2>2. Cardinality(late \cap {e}) = IF e \in late THEN 1 ELSE 0
    <3>1. CASE e \in late
      <4>1. late \cap {e} = {e}
        BY <3>1
      <4> QED
        BY <4>1, <3>1, FS_Singleton
    <3>2. CASE e \notin late
      <4>1. late \cap {e} = {}
        BY <3>2
      <4> QED
        BY <4>1, <3>2, FS_EmptySet
    <3> QED
      BY <3>1, <3>2
  <2> QED
    BY <2>1, <2>2 DEF Account
<1> QED
  BY <1>1, PublishInit, PublishNext, PTL DEF Spec

-----------------------------------------------------------------------------
(* What a consumer of the topic needs of the outbox.                       *)

\* Only a request transaction makes a row visible.
LEMMA EnqueueEffect ==
    ASSUME OutboxInv, NEW e \in Events, EnqueueEvent(e)
    PROVE  e \notin Committed /\ Committed' = Committed \cup {e} /\ log' = log
<1>1. row \in [Events -> Stages] /\ row[e] = "open"
  BY DEF OutboxInv, TypeOK, EnqueueEvent
<1>2. row'[e] = "pending" /\ \A x \in Events \ {e} : row'[x] = row[x]
  BY <1>1 DEF EnqueueEvent
<1> QED
  BY <1>1, <1>2 DEF Committed, EnqueueEvent

\* Every other step appends a committed event to the log or leaves the log,
\* and hides no row.
LEMMA OtherEffects ==
    ASSUME OutboxInv,
           \/ \E e \in Events : BeginEvent(e) \/ LateAppend(e)
           \/ \E d \in Dispatchers :
                 Dispatch(d) \/ SendTimeout(d) \/ Interrupt(d) \/ CommitUnknown(d)
           \/ \E S \in SUBSET Events : Cleanup(S)
    PROVE  /\ Committed' = Committed
           /\ log' = log \/ \E e \in Committed : AppendToLog(e)
<1>0. TypeOK /\ row \in [Events -> Stages]
  BY DEF OutboxInv, TypeOK
<1>1. row' = row => Committed' = Committed
  BY DEF Committed
<1>2. ASSUME NEW e \in Events, BeginEvent(e)
      PROVE  Committed' = Committed /\ log' = log
  <2>1. row[e] = "none" /\ row'[e] = "open" /\ \A x \in Events \ {e} : row'[x] = row[x]
    BY <1>0, <1>2 DEF BeginEvent
  <2> QED
    BY <1>2, <2>1 DEF Committed, BeginEvent
<1>3. ASSUME NEW e \in Events, LateAppend(e)
      PROVE  Committed' = Committed /\ e \in Committed /\ AppendToLog(e)
  BY <1>1, <1>3 DEF LateAppend, OutboxInv, LateIsCommitted
<1>4. ASSUME NEW d \in Dispatchers, locked[d] # NoEvent
      PROVE  locked[d] \in Committed /\ locked[d] \in Events /\ row[locked[d]] = "pending"
  BY <1>0, <1>4 DEF OutboxInv, TypeOK, LockedRowIsPending, Committed
<1>5. ASSUME NEW d \in Dispatchers, dpc[d] \in {"acked", "failed"}, RecordOutcome(d)
      PROVE  Committed' = Committed
  <2>1. locked[d] # NoEvent
    BY <1>5 DEF OutboxInv, LockedRowIsPending
  <2>2. row' = row \/ row' = [row EXCEPT ![locked[d]] = "sent"]
    BY <1>5 DEF RecordOutcome
  <2>3. \A x \in Events : row'[x] = row[x]
                          \/ (row[x] = "pending" /\ row'[x] = "sent")
    BY <1>0, <1>4, <2>1, <2>2
  <2> QED
    BY <2>3 DEF Committed
<1>6. ASSUME NEW d \in Dispatchers, Dispatch(d)
      PROVE  /\ Committed' = Committed
             /\ log' = log \/ \E e \in Committed : AppendToLog(e)
  <2>1. CASE SelectRow(d) \/ EndBatch(d) \/ SendFail(d)
    BY <1>1, <2>1 DEF SelectRow, EndBatch, SendFail
  <2>2. CASE SendAck(d)
    <3>1. locked[d] # NoEvent
      BY <2>2 DEF SendAck, OutboxInv, LockedRowIsPending
    <3> QED
      BY <1>1, <1>4, <2>2, <3>1 DEF SendAck
  <2>3. CASE CommitOutcome(d)
    BY <1>5, <2>3 DEF CommitOutcome
  <2> QED
    BY <1>6, <2>1, <2>2, <2>3 DEF Dispatch
<1>7. ASSUME NEW d \in Dispatchers, SendTimeout(d) \/ Interrupt(d)
      PROVE  Committed' = Committed /\ log' = log
  BY <1>1, <1>7 DEF SendTimeout, Interrupt
<1>8. ASSUME NEW d \in Dispatchers, CommitUnknown(d)
      PROVE  Committed' = Committed /\ log' = log
  BY <1>5, <1>8 DEF CommitUnknown
<1>9. ASSUME NEW S \in SUBSET Events, Cleanup(S)
      PROVE  Committed' = Committed /\ log' = log
  <2>1. \A e \in Events : row'[e] = row[e] \/ (row[e] = "sent" /\ row'[e] = "deleted")
    BY <1>9 DEF Cleanup, Expired
  <2> QED
    BY <1>9, <2>1 DEF Cleanup, Committed
<1> QED
  BY <1>2, <1>3, <1>6, <1>7, <1>8, <1>9
=============================================================================
