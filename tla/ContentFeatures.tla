-------------------------- MODULE ContentFeatures --------------------------
(***************************************************************************)
(* Classification and embedding of posts: the writes of content-service,   *)
(* the NLP worker's consumer (workers/nlp_worker/app/kafka_consumer.py)    *)
(* and the resumable rebuild (rebuild.py).  Both run                       *)
(* EmbeddingService.process on a row they read earlier.                    *)
(*                                                                         *)
(* A text stands for itself and for the labels infer_topics finds in it,   *)
(* so topics of a row are "none", a text (inferred), "chosen" by the       *)
(* author, or "bad": labels normalize_topics refuses.                      *)
(***************************************************************************)
EXTENDS Integers, Sequences, FiniteSets, SequencesExt

CONSTANTS
    NPosts,       \* posts are 1..NPosts, ordered as their ids are
    Texts,
    Creates,      \* text and topics of the creates
    Updates,      \* text (or "keep") and topics of the updates
    BatchSize,    \* flush_batch_size, and the batch of the rebuild
    MaxRetries,   \* embedding_max_retries
    MaxWrites,    \* bound on creates, updates and deletes
    MaxFaults     \* bound on crashes, failed statements, lost announcements

ASSUME ContentAssumption ==
    /\ {NPosts, BatchSize} \subseteq Nat \ {0}
    /\ {MaxRetries, MaxWrites, MaxFaults} \subseteq Nat
    /\ Creates \subseteq Texts \X {"none", "chosen", "bad"}
    /\ Updates \subseteq (Texts \X {"none", "chosen", "bad"})
                          \cup ({"keep"} \X {"chosen", "bad"})
    /\ {"keep", "none", "chosen", "bad"} \cap Texts = {}

Posts == 1..NPosts
Procs == {"consumer", "rebuild"}

VARIABLES
    row,      \* posts: text, topics and updated_at
    write,    \* the statement in flight on each post; its NOW() is its start
    unsent,   \* committed writes whose announcement is not produced yet
    lost,     \* posts whose last announcement produce_json dropped
    log,      \* oecophylla.content.created and .updated
    offset,   \* committed offset of the group
    position, \* records fetched by the consumer
    next,     \* record _process_batch is at; 0 between batches
    proc,     \* the call of process each program is in
    gaveUp,   \* <<post, text>> the consumer left to the keyword fallback
    features, \* post_content_features: <<post, text>>, content_hash as the text
    batch,    \* records of the rebuild not processed yet
    rebuild,  \* the batch at work: its last key, tries, and whether all is well
    cursor,   \* the cursor JsonCheckpoint holds on disk
    late,     \* posts whose write was open while the rebuild took a batch
    raced,    \* posts that got the topics of a text they no longer have
    clock,    \* NOW() of the database
    writes, faults

contentVars == <<row, write, unsent, lost, log, writes>>
consumerVars == <<offset, position, next, gaveUp>>
rebuildVars == <<batch, rebuild, cursor>>
vars == <<contentVars, consumerVars, rebuildVars, proc, features, late, raced,
          clock, faults>>

Absent == [state |-> "absent"]
Gone == [state |-> "gone"]
Live(p) == row[p].state = "live"
NoWrite == [open |-> FALSE]
NoCall == [pc |-> "idle"]
Start == <<0, 0>>
Off == [on |-> FALSE]

\* Order of (updated_at, id).
Before(a, b) == a[1] < b[1] \/ (a[1] = b[1] /\ a[2] < b[2])
Key(p) == <<row[p].at, p>>
Has(p, t) == <<p, t>> \in features

Init ==
    /\ row = [p \in Posts |-> Absent]
    /\ write = [p \in Posts |-> NoWrite]
    /\ unsent = [p \in Posts |-> 0]
    /\ lost = {}
    /\ log = <<>>
    /\ offset = 0 /\ position = 0 /\ next = 0
    /\ proc = [x \in Procs |-> NoCall]
    /\ gaveUp = {} /\ features = {}
    /\ batch = <<>> /\ rebuild = Off /\ cursor = Start
    /\ late = {} /\ raced = {}
    /\ clock = 0 /\ writes = 0 /\ faults = 0

(***************************************************************************)
(* content-service                                                         *)
(***************************************************************************)

\* The edit leaves the labels of the old text in place.
MUT_Edited(p, text, topics) ==
    [state |-> "live",
     text |-> IF text = "keep" THEN row[p].text ELSE text,
     topics |-> IF text # "keep" /\ topics = "none" /\ Live(p)
                THEN row[p].topics ELSE topics,
     at |-> write[p].at]

\* The row a write leaves: validate_update_post empties the topics of a new
\* text that brings none, and the trigger stamps the start of the statement.
Edited(p, text, topics) ==
    [state |-> "live",
     text |-> IF text = "keep" THEN row[p].text ELSE text,
     topics |-> topics,
     at |-> write[p].at]

\* A create or an update is sent to the database.
BeginWrite(p, text, topics) ==
    /\ ~write[p].open
    /\ row[p] # Gone
    /\ <<text, topics>> \in IF row[p] = Absent THEN Creates ELSE Updates
    /\ writes < MaxWrites
    /\ writes' = writes + 1
    /\ clock' = clock + 1
    /\ write' = [write EXCEPT ![p] = [open |-> TRUE, text |-> text,
                                      topics |-> topics, at |-> clock',
                                      over |-> FALSE]]
    /\ UNCHANGED <<row, unsent, lost, log, consumerVars, rebuildVars, proc,
                   features, late, raced, faults>>

\* It commits; the announcement comes after.
CommitWrite(p) ==
    /\ write[p].open
    /\ row[p] # Gone
    /\ row' = [row EXCEPT ![p] = Edited(p, write[p].text, write[p].topics)]
    /\ write' = [write EXCEPT ![p] = NoWrite]
    /\ unsent' = [unsent EXCEPT ![p] = @ + 1]
    /\ late' = IF write[p].over THEN late \cup {p} ELSE late \ {p}
    /\ raced' = IF write[p].text = "keep" THEN raced ELSE raced \ {p}
    /\ UNCHANGED <<lost, log, writes, consumerVars, rebuildVars, proc,
                   features, clock, faults>>

\* DELETE FROM posts: the features go with the row.
Delete(p) ==
    /\ Live(p)
    /\ writes < MaxWrites
    /\ writes' = writes + 1
    /\ row' = [row EXCEPT ![p] = Gone]
    /\ write' = [write EXCEPT ![p] = NoWrite]
    /\ features' = {f \in features : f[1] # p}
    /\ UNCHANGED <<unsent, lost, log, consumerVars, rebuildVars, proc, late,
                   raced, clock, faults>>

\* produce_json after the commit; its failure is logged and nothing else.
Announce(p, delivered) ==
    /\ unsent[p] > 0
    /\ unsent' = [unsent EXCEPT ![p] = @ - 1]
    /\ log' = IF delivered THEN Append(log, p) ELSE log
    /\ lost' = IF delivered THEN lost \ {p} ELSE lost \cup {p}
    /\ delivered \/ faults < MaxFaults
    /\ faults' = IF delivered THEN faults ELSE faults + 1
    /\ UNCHANGED <<row, write, writes, consumerVars, rebuildVars, proc,
                   features, late, raced, clock>>

(***************************************************************************)
(* EmbeddingService.process, called by either program                      *)
(***************************************************************************)

\* The row as get_post or fetch_batch returns it.
RecordOf(p) == [post |-> p, text |-> row[p].text, topics |-> row[p].topics,
                at |-> row[p].at]

Call(x, rec) == proc' = [proc EXCEPT ![x] = [pc |-> "topics", rec |-> rec]]
Goto(x, pc) == proc' = [proc EXCEPT ![x].pc = pc]
\* The rebuild goes on with the records left of its batch.
NextRecord(records) ==
    /\ batch' = records
    /\ proc' = [proc EXCEPT !["rebuild"] =
                   IF records = <<>> THEN NoCall
                   ELSE [pc |-> "topics", rec |-> Head(records)]]
Return(x) == proc' = [proc EXCEPT ![x] = NoCall]

\* What the caller does with a status.  The consumer goes on to its next
\* record whatever it is.  The rebuild tries a fallback again, and after
\* MaxRetries notes that the batch failed.
Result(x, status) ==
    LET rec == proc[x].rec IN
    \/ /\ x = "consumer"
       /\ Return(x)
       /\ next' = next + 1
       /\ gaveUp' = IF status = "fallback"
                    THEN gaveUp \cup {<<rec.post, rec.text>>} ELSE gaveUp
       /\ UNCHANGED <<offset, position, rebuildVars>>
    \/ /\ x = "rebuild"
       /\ status = "fallback"
       /\ rebuild.tries < MaxRetries
       /\ rebuild' = [rebuild EXCEPT !.tries = @ + 1]
       /\ Goto(x, "topics")
       /\ UNCHANGED <<consumerVars, batch, cursor>>
    \/ /\ x = "rebuild"
       /\ status # "fallback" \/ rebuild.tries = MaxRetries
       /\ NextRecord(Tail(batch))
       /\ rebuild' = [rebuild EXCEPT !.tries = 0,
                                     !.ok = @ /\ status # "fallback"]
       /\ UNCHANGED <<consumerVars, cursor>>

\* An exception: the consumer reconnects and starts over at the committed
\* offset, the rebuild counts it as a failed try.
Raise(x) ==
    \/ /\ x = "consumer"
       /\ Return(x)
       /\ position' = offset /\ next' = 0
       /\ UNCHANGED <<offset, gaveUp, rebuildVars>>
    \/ /\ x = "rebuild"
       /\ Result(x, "fallback")

\* normalize_topics, then ensure_topics: the UPDATE takes effect only while
\* the row has no topics, and bumps updated_at when it does.
EnsureTopics(x) ==
    LET rec == proc[x].rec
        p == rec.post
        topics == IF rec.topics = "none" THEN rec.text ELSE rec.topics
        takes == Live(p) /\ row[p].topics = "none"
    IN
    /\ proc[x].pc = "topics"
    /\ topics # "bad"
    /\ clock' = IF takes THEN clock + 1 ELSE clock
    /\ row' = IF takes
              THEN [row EXCEPT ![p].topics = topics, ![p].at = clock']
              ELSE row
    /\ raced' = IF takes /\ topics \in Texts \ {row[p].text}
                THEN raced \cup {p} ELSE raced
    /\ Goto(x, "exists")
    /\ UNCHANGED <<write, unsent, lost, log, writes, consumerVars,
                   rebuildVars, features, late, faults>>

\* normalize_topics raises on a label it refuses, outside every handler.
RefuseTopics(x) ==
    /\ proc[x].pc = "topics"
    /\ proc[x].rec.topics = "bad"
    /\ Raise(x)
    /\ UNCHANGED <<contentVars, features, late, raced, clock, faults>>

\* feature_exists, and the encoder when there is none.
CheckFeature(x) ==
    /\ proc[x].pc = "exists"
    /\ IF Has(proc[x].rec.post, proc[x].rec.text)
       THEN Result(x, "unchanged")
       ELSE Goto(x, "insert") /\ UNCHANGED <<consumerVars, rebuildVars>>
    /\ UNCHANGED <<contentVars, features, late, raced, clock, faults>>

\* The encoder is disabled, fails, or returns something invalid; or the row
\* is ahead of this host's clock: the keyword topics remain.
EncoderFails(x) ==
    /\ proc[x].pc = "insert"
    /\ Result(x, "fallback")
    /\ UNCHANGED <<contentVars, features, late, raced, clock, faults>>

\* INSERT ... ON CONFLICT DO NOTHING; it fails when the post is gone.
InsertFeature(x) ==
    LET rec == proc[x].rec IN
    /\ proc[x].pc = "insert"
    /\ Live(rec.post)
    /\ features' = features \cup {<<rec.post, rec.text>>}
    /\ Result(x, "created")
    /\ UNCHANGED <<contentVars, late, raced, clock, faults>>

\* A statement of process fails or the program dies inside it.
CallFails(x) ==
    /\ faults < MaxFaults
    /\ proc[x] # NoCall
    /\ faults' = faults + 1
    /\ IF proc[x].pc = "insert" THEN Result(x, "fallback") ELSE Raise(x)
    /\ UNCHANGED <<contentVars, features, late, raced, clock>>

Process(x) ==
    \/ EnsureTopics(x)
    \/ RefuseTopics(x)
    \/ CheckFeature(x)
    \/ EncoderFails(x)
    \/ InsertFeature(x)
    \/ CallFails(x)

(***************************************************************************)
(* The consumer: _run_once                                                 *)
(***************************************************************************)

\* A batch waits until it is full, however long that takes.
MUT_Flush ==
    /\ next = 0
    /\ position' \in offset + BatchSize .. Len(log)
    /\ position' - offset < 2 * BatchSize
    /\ next' = offset + 1
    /\ UNCHANGED <<contentVars, offset, gaveUp, rebuildVars, proc, features,
                   late, raced, clock, faults>>

\* getmany, extend_records, ready and drain.  A poll brings up to BatchSize records
\* to a buffer not yet full, which is drained whole; or fewer when the interval is
\* over.
Flush ==
    /\ next = 0
    /\ position' \in offset + 1 .. Len(log)
    /\ position' - offset < 2 * BatchSize
    /\ next' = offset + 1
    /\ UNCHANGED <<contentVars, offset, gaveUp, rebuildVars, proc, features,
                   late, raced, clock, faults>>

\* _process_one: get_post, and nothing to do for a post that is gone.
LoadPost ==
    /\ next \in 1..position
    /\ proc["consumer"] = NoCall
    /\ LET p == log[next] IN
       IF Live(p)
       THEN Call("consumer", RecordOf(p)) /\ UNCHANGED next
       ELSE next' = next + 1 /\ UNCHANGED proc
    /\ UNCHANGED <<contentVars, offset, position, gaveUp, rebuildVars,
                   features, late, raced, clock, faults>>

\* consumer.commit() when the batch is drained, before it is processed.
MUT_CommitOffset ==
    /\ next > 0
    /\ offset' = position
    /\ next' = IF next > position THEN 0 ELSE next
    /\ UNCHANGED <<contentVars, position, gaveUp, rebuildVars, proc, features,
                   late, raced, clock, faults>>

\* consumer.commit() after the whole batch.
CommitOffset ==
    /\ next > position
    /\ offset' = position
    /\ next' = 0
    /\ UNCHANGED <<contentVars, position, gaveUp, rebuildVars, proc, features,
                   late, raced, clock, faults>>

\* The consumer dies, or its connection to Kafka or the database does.
Reconnect ==
    /\ faults < MaxFaults
    /\ position > offset
    /\ faults' = faults + 1
    /\ position' = offset /\ next' = 0
    /\ Return("consumer")
    /\ UNCHANGED <<contentVars, offset, gaveUp, rebuildVars, features, late,
                   raced, clock>>

(***************************************************************************)
(* The rebuild: BatchRebuilder.run                                         *)
(***************************************************************************)

Beyond(c) == {p \in Posts : Live(p) /\ Before(c, Key(p))}

\* fetch_batch: the published posts beyond the cursor in the order of their
\* keys, the first BatchSize of them if there are more.
BatchAfter(c) ==
    {posts \in UNION {[1..n -> Beyond(c)] : n \in 1..BatchSize} :
        /\ \A i, j \in DOMAIN posts :
              i < j => Before(Key(posts[i]), Key(posts[j]))
        /\ \A p \in Beyond(c) \ Range(posts) :
              Len(posts) = BatchSize /\ Before(Key(posts[Len(posts)]), Key(p))}

\* At the head of the loop the cursor in memory is the one on disk.
FetchBatch ==
    /\ rebuild = Off
    /\ \E posts \in BatchAfter(cursor) :
       /\ NextRecord([i \in 1..Len(posts) |-> RecordOf(posts[i])])
       /\ rebuild' = [on |-> TRUE, cursor |-> Key(posts[Len(posts)]),
                      tries |-> 0, ok |-> TRUE]
    /\ write' = [p \in Posts |-> IF write[p].open
                                 THEN [write[p] EXCEPT !.over = TRUE]
                                 ELSE write[p]]
    /\ UNCHANGED <<row, unsent, lost, log, writes, consumerVars, cursor,
                   features, late, raced, clock, faults>>

\* The checkpoint moves past a batch with failures.
MUT_EndBatch ==
    /\ rebuild.on
    /\ batch = <<>>
    /\ cursor' = rebuild.cursor
    /\ rebuild' = Off
    /\ UNCHANGED <<contentVars, consumerVars, batch, proc, features, late,
                   raced, clock, faults>>

\* checkpoint.save when every record of the batch succeeded; otherwise the
\* run stops where the last one ended.
EndBatch ==
    /\ rebuild.on
    /\ batch = <<>>
    /\ cursor' = IF rebuild.ok THEN rebuild.cursor ELSE cursor
    /\ rebuild' = Off
    /\ UNCHANGED <<contentVars, consumerVars, batch, proc, features, late,
                   raced, clock, faults>>

\* The rebuild is killed.
KillRebuild ==
    /\ faults < MaxFaults
    /\ rebuild.on
    /\ faults' = faults + 1
    /\ rebuild' = Off /\ batch' = <<>>
    /\ Return("rebuild")
    /\ UNCHANGED <<contentVars, consumerVars, cursor, features, late, raced,
                   clock>>

Consumer == Process("consumer") \/ Flush \/ LoadPost \/ CommitOffset

Author ==
    \E p \in Posts :
       \/ \E w \in Creates \cup Updates : BeginWrite(p, w[1], w[2])
       \/ CommitWrite(p)
       \/ Delete(p)
       \/ \E delivered \in BOOLEAN : Announce(p, delivered)

Next ==
    \/ Author
    \/ Consumer
    \/ Reconnect
    \/ Process("rebuild")
    \/ FetchBatch \/ EndBatch \/ KillRebuild

Spec == Init /\ [][Next]_vars

\* asyncio keeps running the consumer and produce_json returns; nothing is
\* promised of authors and of the rebuild, which an operator starts.
FairSpec ==
    /\ Spec
    /\ WF_vars(Consumer)
    /\ \A p \in Posts : WF_vars(\E d \in BOOLEAN : Announce(p, d))

(***************************************************************************)
(* Properties                                                              *)
(***************************************************************************)

\* Something will still look at the post as it is now, or its announcement
\* never reached the topic.
Outstanding(p) ==
    \/ unsent[p] > 0 \/ p \in lost
    \/ \E i \in offset + 1 .. Len(log) : log[i] = p

\* No text is left without a vector unless the encoder declined it, although
\* the row the worker reads may change before the feature is stored.
NoTextForgotten ==
    \A p \in Posts :
       Live(p) /\ ~Has(p, row[p].text)
         => Outstanding(p) \/ <<p, row[p].text>> \in gaveUp

\* The checkpoint on disk covers what is behind it, except a write whose
\* statement began before the rebuild read and committed after.
CheckpointCovers ==
    \A p \in Posts :
       Live(p) /\ ~Before(cursor, Key(p)) /\ p \notin late
         => Has(p, row[p].text)

\* Inferred topics are those of the text beside them, except where a reader
\* held the old text while an edit emptied the topics.
TopicsFollowText ==
    \A p \in Posts \ raced :
       Live(p) /\ row[p].topics \in Texts => row[p].topics = row[p].text

\* A post announced on the topic gets topics (or goes away), unless the
\* announcement of a later edit was lost or a record with labels
\* normalize_topics refuses blocks the consumer.
AnnouncedIsClassified ==
    \A p \in Posts :
       (p \in Range(log)) ~>
          \/ ~Live(p) \/ row[p].topics # "none" \/ p \in lost
          \/ \E q \in Posts : Live(q) /\ row[q].topics = "bad"
=============================================================================
