----------------------- MODULE ContentFeaturesProofs -----------------------
(***************************************************************************)
(* Proofs about the classification and embedding of posts, for any         *)
(* number of posts, texts, writes and faults, and any batch size.          *)
(*                                                                         *)
(* The types and the places of the consumer and the rebuild are one        *)
(* invariant; on top of it the topics, the texts and the checkpoint each   *)
(* have their own: a record not passed yet covers a text, and a batch      *)
(* covers what its cursor claims.                                          *)
(***************************************************************************)
EXTENDS ContentFeatures, SequenceTheorems, TLAPS

Topics == Texts \cup {"none", "chosen", "bad"}
LiveRows == [state : {"live"}, text : Texts, topics : Topics, at : Nat]
OpenWrites == [open : {TRUE}, text : Texts \cup {"keep"},
               topics : {"none", "chosen", "bad"}, at : Nat, over : BOOLEAN]
Records == [post : Posts, text : Texts, topics : Topics, at : Nat]
Calls == [pc : {"topics", "exists", "insert"}, rec : Records]
Rebuilds == [on : {TRUE}, cursor : Nat \X Nat, tries : Nat, ok : BOOLEAN]

ContentTypes ==
    /\ row \in [Posts -> {Absent, Gone} \cup LiveRows]
    /\ write \in [Posts -> {NoWrite} \cup OpenWrites]
    /\ unsent \in [Posts -> Nat]
    /\ lost \in SUBSET Posts
    /\ log \in Seq(Posts)
    /\ features \in SUBSET (Posts \X Texts)
    /\ clock \in Nat

CallerTypes ==
    /\ offset \in Nat /\ position \in Nat /\ next \in Nat
    /\ proc \in [Procs -> {NoCall} \cup Calls]
    /\ batch \in Seq(Records)
    /\ rebuild \in {Off} \cup Rebuilds
    /\ cursor \in Nat \X Nat

TypeOK == ContentTypes /\ CallerTypes

\* A statement that keeps the text is one on an existing row.
KeptTextExists ==
    \A p \in Posts : write[p].open /\ write[p].text = "keep" => Live(p)

\* The consumer works inside what it fetched, on the record it is at.
ConsumerPlace ==
    /\ offset <= position /\ position <= Len(log)
    /\ next = 0 => proc["consumer"] = NoCall
    /\ next # 0 => offset < next /\ next <= position + 1
    /\ proc["consumer"] # NoCall =>
          next <= position /\ proc["consumer"].rec.post = log[next]

\* The rebuild works on the head of its batch.
RebuildPlace ==
    /\ ~rebuild.on => batch = <<>>
    /\ batch = <<>> <=> proc["rebuild"] = NoCall
    /\ batch # <<>> => proc["rebuild"].rec = Head(batch)

PlaceInv == TypeOK /\ KeptTextExists /\ ConsumerPlace /\ RebuildPlace

\* The values of the variables by which the shapes of their records are told
\* apart.
LEMMA Shapes ==
    ASSUME TypeOK
    PROVE  /\ \A p \in Posts : Live(p) <=> row[p] \in LiveRows
           /\ \A p \in Posts : row[p] \notin LiveRows => row[p] = Absent \/ row[p] = Gone
           /\ \A p \in Posts : write[p].open <=> write[p] \in OpenWrites
           /\ \A p \in Posts : ~write[p].open => write[p] = NoWrite
           /\ \A x \in Procs : proc[x] = NoCall <=> proc[x].pc = "idle"
           /\ \A x \in Procs : proc[x] # NoCall <=> proc[x] \in Calls
           /\ rebuild.on <=> rebuild \in Rebuilds
           /\ ~rebuild.on => rebuild = Off
<1>1. ASSUME NEW p \in Posts
      PROVE  /\ Live(p) <=> row[p] \in LiveRows
             /\ row[p] \notin LiveRows => row[p] = Absent \/ row[p] = Gone
  BY DEF TypeOK, ContentTypes, CallerTypes, Live, LiveRows, Absent, Gone
<1>2. ASSUME NEW p \in Posts
      PROVE  /\ write[p].open <=> write[p] \in OpenWrites
             /\ ~write[p].open => write[p] = NoWrite
  <2>1. write[p] = NoWrite \/ write[p] \in OpenWrites
    BY DEF TypeOK, ContentTypes, CallerTypes
  <2>2. NoWrite.open = FALSE
    BY DEF NoWrite
  <2>3. \A w \in OpenWrites : w.open = TRUE
    BY DEF OpenWrites
  <2> QED
    BY <2>1, <2>2, <2>3
<1>3. ASSUME NEW x \in Procs
      PROVE  /\ proc[x] = NoCall <=> proc[x].pc = "idle"
             /\ proc[x] # NoCall <=> proc[x] \in Calls
  BY DEF TypeOK, ContentTypes, CallerTypes, Calls, NoCall
<1>4. /\ rebuild.on <=> rebuild \in Rebuilds
      /\ ~rebuild.on => rebuild = Off
  <2>1. rebuild = Off \/ rebuild \in Rebuilds
    BY DEF TypeOK, ContentTypes, CallerTypes
  <2>2. Off.on = FALSE
    BY DEF Off
  <2>3. \A r \in Rebuilds : r.on = TRUE
    BY DEF Rebuilds
  <2> QED
    BY <2>1, <2>2, <2>3
<1> QED
  BY <1>1, <1>2, <1>3, <1>4

\* The posts are absent and both programs idle at first.
LEMMA PlaceInit == Init => PlaceInv
<1> SUFFICES ASSUME Init PROVE PlaceInv
  OBVIOUS
<1>1. TypeOK
  BY DEF Init, TypeOK, ContentTypes, CallerTypes, Start, Absent
<1>2. KeptTextExists
  BY DEF Init, KeptTextExists, NoWrite
<1>3. ConsumerPlace
  BY DEF Init, ConsumerPlace, Procs
<1>4. RebuildPlace
  BY DEF Init, RebuildPlace, Procs, Off
<1> QED
  BY <1>1, <1>2, <1>3, <1>4 DEF PlaceInv

\* What Result leaves behind in the consumer: the call is over, whatever the
\* status, and the consumer is at the next record.
LEMMA ConsumerResult ==
    ASSUME PlaceInv, NEW s, proc["consumer"] # NoCall, Result("consumer", s)
    PROVE  /\ proc' = [proc EXCEPT !["consumer"] = NoCall]
           /\ next' = next + 1
           /\ gaveUp' = IF s = "fallback"
                        THEN gaveUp \cup {<<proc["consumer"].rec.post, proc["consumer"].rec.text>>}
                        ELSE gaveUp
           /\ UNCHANGED <<offset, position, rebuildVars>>
  BY DEF Result, Return

\* What Result leaves behind in the rebuild: the same record once more, or the
\* next one of the batch.
LEMMA RebuildResult ==
    ASSUME PlaceInv, NEW s, proc["rebuild"] # NoCall, Result("rebuild", s)
    PROVE  /\ UNCHANGED <<consumerVars, cursor>>
           /\ proc'["consumer"] = proc["consumer"]
           /\ proc' \in [Procs -> {NoCall} \cup Calls]
           /\ rebuild.on /\ rebuild'.on
           /\ batch' \in Seq(Records) /\ rebuild' \in Rebuilds
           /\ rebuild'.cursor = rebuild.cursor
           /\ RebuildPlace'
           /\ \/ batch' = batch /\ rebuild'.ok = rebuild.ok
              \/ batch' = Tail(batch) /\ rebuild'.ok = (rebuild.ok /\ s # "fallback")
<1> USE DEF PlaceInv
<1>1. /\ rebuild \in Rebuilds /\ rebuild.on /\ batch # <<>> /\ batch \in Seq(Records)
      /\ proc["rebuild"] \in Calls /\ proc["rebuild"].rec = Head(batch)
      /\ proc \in [Procs -> {NoCall} \cup Calls]
  BY Shapes DEF RebuildPlace, TypeOK, CallerTypes, Procs
<1>2. CASE s = "fallback" /\ rebuild.tries < MaxRetries
  <2>1. /\ rebuild' = [rebuild EXCEPT !.tries = @ + 1]
        /\ proc' = [proc EXCEPT !["rebuild"].pc = "topics"]
        /\ UNCHANGED <<consumerVars, batch, cursor>>
    BY <1>2, ContentAssumption DEF Result, Goto
  <2>2. rebuild' \in Rebuilds /\ rebuild'.on /\ rebuild'.cursor = rebuild.cursor
        /\ rebuild'.ok = rebuild.ok
    <3>1. /\ rebuild.cursor \in Nat \X Nat /\ rebuild.tries + 1 \in Nat
          /\ rebuild.ok \in BOOLEAN /\ rebuild.on = TRUE
          /\ DOMAIN rebuild = {"on", "cursor", "tries", "ok"}
          /\ rebuild = [on |-> rebuild.on, cursor |-> rebuild.cursor,
                        tries |-> rebuild.tries, ok |-> rebuild.ok]
      BY <1>1 DEF Rebuilds
    <3>2. rebuild' = [on |-> TRUE, cursor |-> rebuild.cursor,
                      tries |-> rebuild.tries + 1, ok |-> rebuild.ok]
      BY <2>1, <3>1
    <3> QED
      BY <3>1, <3>2 DEF Rebuilds
  <2>3. /\ proc'["rebuild"] \in Calls /\ proc'["rebuild"].rec = proc["rebuild"].rec
        /\ proc'["consumer"] = proc["consumer"]
        /\ proc' \in [Procs -> {NoCall} \cup Calls]
    BY <1>1, <2>1 DEF Calls, Procs
  <2>4. proc'["rebuild"] # NoCall
    BY <2>3 DEF Calls, NoCall
  <2> QED
    BY <1>1, <2>1, <2>2, <2>3, <2>4 DEF RebuildPlace
<1>3. CASE ~(s = "fallback" /\ rebuild.tries < MaxRetries)
  <2>1. /\ NextRecord(Tail(batch))
        /\ rebuild' = [rebuild EXCEPT !.tries = 0, !.ok = @ /\ s # "fallback"]
        /\ UNCHANGED <<consumerVars, cursor>>
    BY <1>3 DEF Result
  <2>2. /\ rebuild' \in Rebuilds /\ rebuild'.on /\ rebuild'.cursor = rebuild.cursor
        /\ rebuild'.ok = (rebuild.ok /\ s # "fallback")
    BY <1>1, <2>1 DEF Rebuilds
  <2>3. Tail(batch) \in Seq(Records)
    BY <1>1
  <2>4. Tail(batch) # <<>> => [pc |-> "topics", rec |-> Head(Tail(batch))] \in Calls
    <3>1. Tail(batch) # <<>> => Head(Tail(batch)) \in Records
      BY <2>3
    <3> QED
      BY <3>1 DEF Calls
  <2>5. /\ batch' = Tail(batch)
        /\ proc'["consumer"] = proc["consumer"]
        /\ proc' \in [Procs -> {NoCall} \cup Calls]
    BY <1>1, <2>1, <2>4 DEF NextRecord, Procs
  <2>6. RebuildPlace'
    BY <1>1, <2>1, <2>2, <2>4, <2>5 DEF NextRecord, RebuildPlace, Procs, Calls, NoCall
  <2> QED
    BY <1>1, <2>1, <2>2, <2>3, <2>5, <2>6
<1> QED
  BY <1>2, <1>3

\* The state of the callers of process: their types and where they are.
CallerInv == CallerTypes /\ ConsumerPlace /\ RebuildPlace

\* Whatever process answers, its caller goes on from a consistent state.
LEMMA CallerGoesOn ==
    ASSUME PlaceInv, NEW x \in Procs, proc[x] # NoCall, log' = log,
           \/ \E pc \in {"exists", "insert"} :
                 Goto(x, pc) /\ UNCHANGED <<consumerVars, rebuildVars>>
           \/ \E s : Result(x, s)
           \/ Raise(x)
    PROVE  CallerInv'
<1> USE DEF PlaceInv
<1>1. /\ proc \in [Procs -> {NoCall} \cup Calls] /\ proc[x] \in Calls
      /\ offset \in Nat /\ position \in Nat /\ next \in Nat
      /\ batch \in Seq(Records) /\ rebuild \in {Off} \cup Rebuilds
      /\ cursor \in Nat \X Nat
  BY Shapes DEF TypeOK, CallerTypes
<1>2. ASSUME NEW pc \in {"exists", "insert"},
             Goto(x, pc), UNCHANGED <<consumerVars, rebuildVars>>
      PROVE  CallerInv'
  <2>1. proc'[x] \in Calls /\ proc'[x].rec = proc[x].rec
    BY <1>1, <1>2 DEF Goto, Calls
  <2>2. \A y \in Procs : y # x => proc'[y] = proc[y]
    BY <1>1, <1>2 DEF Goto
  <2>3. proc' \in [Procs -> {NoCall} \cup Calls]
    BY <1>1, <1>2, <2>1 DEF Goto
  <2>4. proc'[x] # NoCall
    BY <2>1 DEF Calls, NoCall
  <2>5. ConsumerPlace'
    BY <1>2, <2>1, <2>2, <2>4 DEF ConsumerPlace, consumerVars, Procs
  <2>6. RebuildPlace'
    BY <1>2, <2>1, <2>2, <2>4 DEF RebuildPlace, rebuildVars, Procs
  <2> QED
    BY <1>1, <1>2, <2>3, <2>5, <2>6 DEF CallerInv, CallerTypes, consumerVars, rebuildVars
<1>3. ASSUME NEW s, x = "consumer", Result("consumer", s)
      PROVE  CallerInv'
  <2>1. /\ proc' = [proc EXCEPT !["consumer"] = NoCall]
        /\ next' = next + 1
        /\ UNCHANGED <<offset, position, rebuildVars>>
    BY <1>3, ConsumerResult
  <2>2. CallerTypes'
    <3>1. proc' \in [Procs -> {NoCall} \cup Calls]
      BY <1>1, <2>1
    <3>2. next' \in Nat
      BY <1>1, <2>1
    <3>3. /\ offset' = offset /\ position' = position
          /\ batch' = batch /\ rebuild' = rebuild /\ cursor' = cursor
      BY <2>1 DEF rebuildVars
    <3> QED
      BY <1>1, <3>1, <3>2, <3>3 DEF CallerTypes
  <2>3. ConsumerPlace'
    <3>1. next # 0 /\ offset < next /\ next <= position
      BY <1>3 DEF ConsumerPlace
    <3>2. proc'["consumer"] = NoCall /\ offset' = offset /\ position' = position
      BY <1>1, <2>1 DEF Procs
    <3>3. next' # 0 /\ offset < next' /\ next' <= position + 1
      BY <1>1, <2>1, <3>1
    <3> QED
      BY <3>2, <3>3 DEF ConsumerPlace
  <2>4. RebuildPlace'
    BY <1>1, <2>1 DEF RebuildPlace, rebuildVars, Procs
  <2> QED
    BY <2>2, <2>3, <2>4 DEF CallerInv
<1>4. ASSUME NEW s, x = "rebuild", Result("rebuild", s)
      PROVE  CallerInv'
  <2>1. /\ UNCHANGED <<consumerVars, cursor>>
        /\ proc'["consumer"] = proc["consumer"]
        /\ proc' \in [Procs -> {NoCall} \cup Calls]
        /\ batch' \in Seq(Records) /\ rebuild' \in Rebuilds
        /\ RebuildPlace'
    BY <1>4, RebuildResult
  <2>2. CallerTypes'
    BY <1>1, <2>1 DEF CallerTypes, consumerVars
  <2>3. ConsumerPlace'
    BY <2>1 DEF ConsumerPlace, consumerVars
  <2> QED
    BY <2>1, <2>2, <2>3 DEF CallerInv
<1>5. CASE Raise(x)
  <2>1. CASE x = "consumer"
    <3>1. /\ proc' = [proc EXCEPT !["consumer"] = NoCall]
          /\ position' = offset /\ next' = 0
          /\ UNCHANGED <<offset, gaveUp, rebuildVars>>
      BY <1>5, <2>1 DEF Raise, Return
    <3>2. CallerTypes'
      BY <1>1, <3>1 DEF CallerTypes, rebuildVars
    <3>3. ConsumerPlace'
      BY <1>1, <3>1 DEF ConsumerPlace, Procs
    <3>4. RebuildPlace'
      BY <1>1, <3>1 DEF RebuildPlace, rebuildVars, Procs
    <3> QED
      BY <3>2, <3>3, <3>4 DEF CallerInv
  <2>2. CASE x = "rebuild"
    BY <1>5, <2>2, <1>4 DEF Raise
  <2> QED
    BY <2>1, <2>2 DEF Procs
<1>6. ASSUME NEW s, Result(x, s)
      PROVE  CallerInv'
  BY <1>3, <1>4, <1>6 DEF Procs
<1> QED
  BY <1>2, <1>5, <1>6

\* A step of process either goes on to the next statement, or answers its
\* caller, or raises.  It answers anything but a fallback only when the vector of
\* its record is there.
LEMMA ProcessAnswers ==
    ASSUME PlaceInv, NEW x \in Procs, Process(x)
    PROVE  /\ proc[x] # NoCall /\ log' = log
           /\ \/ \E pc \in {"exists", "insert"} :
                    Goto(x, pc) /\ UNCHANGED <<consumerVars, rebuildVars>>
              \/ \E s : /\ Result(x, s)
                        /\ s = "fallback"
                              \/ <<proc[x].rec.post, proc[x].rec.text>> \in features'
              \/ Raise(x)
<1>1. proc[x] = NoCall => proc[x].pc = "idle"
  BY DEF NoCall
<1>2. CASE EnsureTopics(x)
  BY <1>1, <1>2 DEF EnsureTopics
<1>3. CASE RefuseTopics(x)
  BY <1>1, <1>3 DEF RefuseTopics, contentVars
<1>4. CASE CheckFeature(x)
  BY <1>1, <1>4 DEF CheckFeature, contentVars, Has
<1>5. CASE EncoderFails(x)
  BY <1>1, <1>5 DEF EncoderFails, contentVars
<1>6. CASE InsertFeature(x)
  BY <1>1, <1>6 DEF InsertFeature, contentVars
<1>7. CASE CallFails(x)
  BY <1>1, <1>7 DEF CallFails, contentVars
<1> QED
  BY <1>2, <1>3, <1>4, <1>5, <1>6, <1>7 DEF Process

\* The topics a caller writes for its record, and the row they make.
TopicsOf(rec) == IF rec.topics = "none" THEN rec.text ELSE rec.topics

ClassifiedRow(rec) ==
    [row[rec.post] EXCEPT !.topics = TopicsOf(rec), !.at = clock + 1]

\* ensure_topics when it takes effect.
Classifies(rec) ==
    /\ Live(rec.post) /\ row[rec.post].topics = "none"
    /\ clock' = clock + 1
    /\ row' = [row EXCEPT ![rec.post] = ClassifiedRow(rec)]
    /\ raced' = IF TopicsOf(rec) \in Texts \ {row[rec.post].text}
                THEN raced \cup {rec.post} ELSE raced

\* The topics a caller writes are those of its record or of its text.
LEMMA RecordTopics ==
    ASSUME NEW rec \in Records
    PROVE  /\ rec.post \in Posts /\ rec.text \in Texts /\ rec.topics \in Topics
           /\ TopicsOf(rec) \in Topics
  BY DEF Records, Topics, TopicsOf

\* The classified row is a live one.
LEMMA ClassifiedRowIsLive ==
    ASSUME PlaceInv, NEW rec \in Records, Live(rec.post)
    PROVE  /\ ClassifiedRow(rec) \in LiveRows
           /\ ClassifiedRow(rec).text = row[rec.post].text
           /\ ClassifiedRow(rec).topics = TopicsOf(rec)
           /\ ClassifiedRow(rec).at = clock + 1
<1>1. row[rec.post] \in LiveRows /\ clock + 1 \in Nat /\ TopicsOf(rec) \in Topics
  BY Shapes, RecordTopics DEF PlaceInv, TypeOK, ContentTypes
<1> QED
  BY <1>1 DEF ClassifiedRow, LiveRows

\* What a step of process does to the posts and their features: at most it
\* gives topics to a post that has none, or stores a feature of its record.
LEMMA ProcessWrites ==
    ASSUME PlaceInv, NEW x \in Procs, Process(x)
    PROVE  /\ UNCHANGED <<write, unsent, lost, log, late>>
           /\ proc[x] \in Calls
           /\ \/ row' = row /\ clock' = clock /\ raced' = raced
              \/ Classifies(proc[x].rec) /\ features' = features
           /\ \/ features' = features
              \/ /\ InsertFeature(x) /\ Live(proc[x].rec.post)
                 /\ features' = features \cup {<<proc[x].rec.post, proc[x].rec.text>>}
<1>1. proc[x] \in Calls
  BY ProcessAnswers, Shapes DEF PlaceInv
<1>2. CASE EnsureTopics(x)
  <2>1. UNCHANGED <<write, unsent, lost, log, late, features>>
    BY <1>2 DEF EnsureTopics
  <2>2. CASE Live(proc[x].rec.post) /\ row[proc[x].rec.post].topics = "none"
    <3> DEFINE rec == proc[x].rec
               p == rec.post
    <3>1. rec \in Records /\ p \in Posts /\ row[p] \in LiveRows
      BY <1>1, <2>2, RecordTopics, Shapes DEF Calls, PlaceInv
    <3>2. /\ clock' = clock + 1
          /\ row' = [row EXCEPT ![p].topics = TopicsOf(rec), ![p].at = clock']
          /\ raced' = IF TopicsOf(rec) \in Texts \ {row[p].text}
                      THEN raced \cup {p} ELSE raced
      BY <1>2, <2>2 DEF EnsureTopics, TopicsOf
    <3>3. row' = [row EXCEPT ![p] = ClassifiedRow(rec)]
      <4>1. row \in [Posts -> {Absent, Gone} \cup LiveRows]
        BY DEF PlaceInv, TypeOK, ContentTypes
      <4> QED
        BY <3>1, <3>2, <4>1 DEF ClassifiedRow
    <3> QED
      BY <1>1, <2>1, <2>2, <3>2, <3>3 DEF Classifies
  <2>3. CASE ~(Live(proc[x].rec.post) /\ row[proc[x].rec.post].topics = "none")
    BY <1>1, <1>2, <2>1, <2>3 DEF EnsureTopics
  <2> QED
    BY <2>2, <2>3
<1>3. CASE RefuseTopics(x)
  BY <1>1, <1>3 DEF RefuseTopics, contentVars
<1>4. CASE CheckFeature(x)
  BY <1>1, <1>4 DEF CheckFeature, contentVars
<1>5. CASE EncoderFails(x)
  BY <1>1, <1>5 DEF EncoderFails, contentVars
<1>6. CASE InsertFeature(x)
  BY <1>1, <1>6 DEF InsertFeature, contentVars
<1>7. CASE CallFails(x)
  BY <1>1, <1>7 DEF CallFails, contentVars
<1> QED
  BY <1>2, <1>3, <1>4, <1>5, <1>6, <1>7 DEF Process

-----------------------------------------------------------------------------
(* One lemma per program.                                                  *)

\* A step of process keeps the types and the places of everybody.
LEMMA ProcessPlace ==
    ASSUME PlaceInv, NEW x \in Procs, Process(x)
    PROVE  PlaceInv'
<1>1. TypeOK /\ ContentTypes /\ KeptTextExists
  BY DEF PlaceInv, TypeOK
<1>2. CallerInv'
  BY ProcessAnswers, CallerGoesOn
<1>3. /\ UNCHANGED <<write, unsent, lost, log, late>>
      /\ proc[x] \in Calls
      /\ \/ row' = row /\ clock' = clock /\ raced' = raced
         \/ Classifies(proc[x].rec) /\ features' = features
      /\ \/ features' = features
         \/ /\ InsertFeature(x) /\ Live(proc[x].rec.post)
            /\ features' = features \cup {<<proc[x].rec.post, proc[x].rec.text>>}
  BY ProcessWrites
<1>4. proc[x].rec \in Records
  BY <1>3 DEF Calls
<1>5. PICK rec \in Records : rec = proc[x].rec
  BY <1>4
<1>6. features' \in SUBSET (Posts \X Texts)
  <2>1. <<rec.post, rec.text>> \in Posts \X Texts
    BY RecordTopics
  <2>2. features' = features \/ features' = features \cup {<<rec.post, rec.text>>}
    BY <1>3, <1>5
  <2> QED
    BY <1>1, <2>1, <2>2 DEF ContentTypes
<1>7. /\ row' \in [Posts -> {Absent, Gone} \cup LiveRows] /\ clock' \in Nat
      /\ \A p \in Posts : Live(p)' <=> Live(p)
  <2>1. CASE row' = row /\ clock' = clock
    BY <1>1, <2>1 DEF ContentTypes, Live
  <2>2. CASE ~(row' = row /\ clock' = clock)
    <3>1. Classifies(rec)
      BY <1>3, <1>5, <2>2
    <3>2. rec.post \in Posts /\ row[rec.post] \in LiveRows /\ ClassifiedRow(rec) \in LiveRows
      BY <1>1, <3>1, RecordTopics, Shapes, ClassifiedRowIsLive DEF Classifies
    <3>3. /\ row'[rec.post] \in LiveRows
          /\ \A p \in Posts : p # rec.post => row'[p] = row[p]
          /\ row' \in [Posts -> {Absent, Gone} \cup LiveRows]
      BY <1>1, <3>1, <3>2 DEF ContentTypes, Classifies
    <3>4. row'[rec.post].state = "live" /\ row[rec.post].state = "live"
      BY <3>2, <3>3 DEF LiveRows
    <3>5. \A p \in Posts : Live(p)' <=> Live(p)
      BY <3>3, <3>4 DEF Live
    <3>6. clock' \in Nat
      BY <1>1, <3>1 DEF ContentTypes, Classifies
    <3> QED
      BY <3>3, <3>5, <3>6
  <2> QED
    BY <2>1, <2>2
<1>8. ContentTypes'
  BY <1>1, <1>3, <1>6, <1>7 DEF ContentTypes
<1>9. KeptTextExists'
  BY <1>1, <1>3, <1>7 DEF KeptTextExists
<1> QED
  BY <1>2, <1>8, <1>9 DEF PlaceInv, TypeOK, CallerInv

\* An open write leaves a live row with topics that are not those of a text.
LEMMA EditedRow ==
    ASSUME PlaceInv, NEW p \in Posts, write[p].open
    PROVE  /\ Edited(p, write[p].text, write[p].topics) \in LiveRows
           /\ Edited(p, write[p].text, write[p].topics).topics \notin Texts
           /\ Edited(p, write[p].text, write[p].topics).at = write[p].at
           /\ write[p].text = "keep" =>
                 Edited(p, write[p].text, write[p].topics).text = row[p].text
<1>1. write[p] \in OpenWrites /\ TypeOK
  BY Shapes DEF PlaceInv
<1>2. write[p].text = "keep" => row[p] \in LiveRows
  BY <1>1, Shapes DEF PlaceInv, KeptTextExists
<1> QED
  BY <1>1, <1>2, ContentAssumption DEF Edited, OpenWrites, LiveRows, Topics

\* A step of the author that leaves the callers alone.
LEMMA AuthorPlace ==
    ASSUME PlaceInv, Author
    PROVE  PlaceInv'
<1>0. TypeOK /\ ContentTypes /\ KeptTextExists /\ CallerInv
  BY DEF PlaceInv, TypeOK, CallerInv
<1>1. ASSUME UNCHANGED <<log, consumerVars, rebuildVars, proc>>
      PROVE  CallerInv'
  BY <1>0, <1>1 DEF CallerInv, CallerTypes, ConsumerPlace, RebuildPlace,
                    consumerVars, rebuildVars
<1>2. ASSUME NEW p \in Posts, NEW w \in Creates \cup Updates, BeginWrite(p, w[1], w[2])
      PROVE  PlaceInv'
  <2>0. /\ <<w[1], w[2]>> \in IF row[p] = Absent THEN Creates ELSE Updates
        /\ row[p] # Gone /\ clock' = clock + 1
        /\ write' = [write EXCEPT ![p] = [open |-> TRUE, text |-> w[1],
                                          topics |-> w[2], at |-> clock + 1,
                                          over |-> FALSE]]
        /\ UNCHANGED <<row, unsent, lost, log, features, consumerVars, rebuildVars, proc>>
    BY <1>2 DEF BeginWrite
  <2>1. CallerInv'
    BY <1>1, <2>0
  <2>2. /\ w[1] \in Texts \cup {"keep"} /\ w[2] \in {"none", "chosen", "bad"}
        /\ w[1] = "keep" => Live(p)
    <3>1. CASE row[p] = Absent
      <4>1. <<w[1], w[2]>> \in Creates
        BY <3>1, <2>0
      <4>2. <<w[1], w[2]>> \in Texts \X {"none", "chosen", "bad"}
        BY <4>1, ContentAssumption
      <4> QED
        BY <4>2, ContentAssumption
    <3>2. CASE row[p] # Absent
      <4>1. <<w[1], w[2]>> \in (Texts \X {"none", "chosen", "bad"})
                                \cup ({"keep"} \X {"chosen", "bad"})
        BY <3>2, <2>0, ContentAssumption
      <4>2. Live(p)
        BY <3>2, <2>0, <1>0, Shapes
      <4> QED
        BY <4>1, <4>2
    <3> QED
      BY <3>1, <3>2
  <2>3. PICK o \in OpenWrites : o.text = w[1] /\ write' = [write EXCEPT ![p] = o]
    <3>1. clock + 1 \in Nat
      BY <1>0 DEF ContentTypes
    <3>2. [open |-> TRUE, text |-> w[1], topics |-> w[2], at |-> clock + 1,
           over |-> FALSE] \in OpenWrites
      BY <2>2, <3>1 DEF OpenWrites
    <3> QED
      BY <2>0, <3>2
  <2>4. ContentTypes'
    <3>1. write' \in [Posts -> {NoWrite} \cup OpenWrites]
      BY <1>0, <2>3 DEF ContentTypes
    <3>2. clock' \in Nat
      BY <1>0, <2>0 DEF ContentTypes
    <3> QED
      BY <1>0, <2>0, <3>1, <3>2 DEF ContentTypes
  <2>5. KeptTextExists'
    BY <1>0, <2>0, <2>2, <2>3 DEF KeptTextExists, ContentTypes, Live
  <2> QED
    BY <2>1, <2>4, <2>5 DEF PlaceInv, TypeOK, CallerInv
<1>3. ASSUME NEW p \in Posts, CommitWrite(p)
      PROVE  PlaceInv'
  <2> USE <1>3 DEF CommitWrite
  <2>1. CallerInv'
    BY <1>1
  <2>2. PICK r \in LiveRows : row' = [row EXCEPT ![p] = r]
    BY EditedRow
  <2>3. ContentTypes'
    BY <1>0, <2>2 DEF ContentTypes
  <2>4. \A q \in Posts : Live(q) => Live(q)'
    BY <1>0, <2>2 DEF ContentTypes, Live, LiveRows
  <2>5. \A q \in Posts : write'[q].open => write'[q] = write[q]
    BY <1>0 DEF ContentTypes, NoWrite
  <2>6. KeptTextExists'
    BY <1>0, <2>4, <2>5 DEF KeptTextExists
  <2> QED
    BY <2>1, <2>3, <2>6 DEF PlaceInv, TypeOK, CallerInv
<1>4. ASSUME NEW p \in Posts, Delete(p)
      PROVE  PlaceInv'
  <2> USE <1>4 DEF Delete
  <2>1. CallerInv'
    BY <1>1
  <2>2. ContentTypes'
    BY <1>0 DEF ContentTypes
  <2>3. \A q \in Posts : write'[q].open => write'[q] = write[q] /\ row'[q] = row[q]
    BY <1>0 DEF ContentTypes, NoWrite
  <2>4. KeptTextExists'
    BY <1>0, <2>3 DEF KeptTextExists, Live
  <2> QED
    BY <2>1, <2>2, <2>4 DEF PlaceInv, TypeOK, CallerInv
<1>5. ASSUME NEW p \in Posts, NEW delivered \in BOOLEAN, Announce(p, delivered)
      PROVE  PlaceInv'
  <2> USE <1>5 DEF Announce
  <2>1. /\ log' \in Seq(Posts) /\ Len(log') >= Len(log)
        /\ \A i \in 1..Len(log) : log'[i] = log[i]
    <3>1. CASE delivered
      BY <3>1, <1>0 DEF ContentTypes
    <3>2. CASE ~delivered
      BY <3>2, <1>0 DEF ContentTypes
    <3> QED
      BY <3>1, <3>2
  <2>2. ContentTypes'
    <3>1. unsent' \in [Posts -> Nat]
      BY <1>0 DEF ContentTypes
    <3>2. lost' \in SUBSET Posts
      BY <1>0 DEF ContentTypes
    <3> QED
      BY <1>0, <2>1, <3>1, <3>2 DEF ContentTypes
  <2>3. CallerTypes' /\ RebuildPlace'
    BY <1>0 DEF CallerInv, CallerTypes, RebuildPlace, consumerVars, rebuildVars
  <2>4. ConsumerPlace'
    <3>1. /\ offset' = offset /\ position' = position /\ next' = next /\ proc' = proc
      BY DEF consumerVars
    <3>2. Len(log) \in Nat /\ Len(log') \in Nat
      BY <1>0, <2>1 DEF ContentTypes
    <3> QED
      BY <1>0, <2>1, <3>1, <3>2 DEF CallerInv, CallerTypes, ConsumerPlace, Procs
  <2>5. KeptTextExists'
    BY <1>0 DEF KeptTextExists, Live
  <2> QED
    BY <2>2, <2>3, <2>4, <2>5 DEF PlaceInv, TypeOK
<1> QED
  BY <1>2, <1>3, <1>4, <1>5 DEF Author

\* What fetch_batch returns: records of live posts, in the order of their keys,
\* none of the posts up to the last one left out.
LEMMA BatchShape ==
    ASSUME PlaceInv, NEW c, NEW posts \in BatchAfter(c),
           NEW records, records = [i \in 1..Len(posts) |-> RecordOf(posts[i])]
    PROVE  /\ Len(posts) \in Nat /\ Len(posts) >= 1
           /\ \A i \in 1..Len(posts) : posts[i] \in Posts /\ Live(posts[i])
           /\ records \in Seq(Records) /\ Len(records) = Len(posts)
           /\ \A i \in 1..Len(posts) : records[i] = RecordOf(posts[i])
           /\ records # <<>> /\ Head(records) \in Records
           /\ Key(posts[Len(posts)]) \in Nat \X Nat
           /\ \A p \in Beyond(c) :
                 \/ \E i \in 1..Len(posts) : posts[i] = p
                 \/ Before(Key(posts[Len(posts)]), Key(p))
<1>1. PICK n \in 1..BatchSize : posts \in [1..n -> Beyond(c)]
  BY DEF BatchAfter
<1>2. n \in Nat /\ n >= 1
  BY ContentAssumption
<1>3. posts \in Seq(Beyond(c)) /\ Len(posts) = n /\ DOMAIN posts = 1..n
  BY <1>1, <1>2
<1>4. \A i \in 1..n : posts[i] \in Posts /\ Live(posts[i]) /\ row[posts[i]] \in LiveRows
  BY <1>1, Shapes DEF Beyond, PlaceInv
<1>5. \A p \in Posts : row[p] \in LiveRows => RecordOf(p) \in Records /\ Key(p) \in Nat \X Nat
  <2> SUFFICES ASSUME NEW p \in Posts, row[p] \in LiveRows
               PROVE  RecordOf(p) \in Records /\ Key(p) \in Nat \X Nat
    OBVIOUS
  <2>1. row[p].text \in Texts /\ row[p].topics \in Topics /\ row[p].at \in Nat
    BY DEF LiveRows
  <2>2. p \in Nat
    BY ContentAssumption DEF Posts
  <2> QED
    BY <2>1, <2>2 DEF RecordOf, Records, Key
<1>6. records \in [1..n -> Records] /\ \A i \in 1..n : records[i] = RecordOf(posts[i])
  BY <1>3, <1>4, <1>5
<1>7. records \in Seq(Records) /\ Len(records) = n
  BY <1>2, <1>6
<1>8. records # <<>> /\ Head(records) \in Records
  BY <1>2, <1>7
<1>9. n \in 1..n
  BY <1>2
<1>10. Key(posts[Len(posts)]) \in Nat \X Nat
  BY <1>3, <1>4, <1>5, <1>9
<1>11. ASSUME NEW p \in Beyond(c)
       PROVE  \/ \E i \in 1..n : posts[i] = p
              \/ Before(Key(posts[Len(posts)]), Key(p))
  <2>1. CASE p \in Range(posts)
    BY <2>1, <1>3 DEF Range
  <2>2. CASE p \notin Range(posts)
    BY <2>2 DEF BatchAfter
  <2> QED
    BY <2>1, <2>2
<1> QED
  BY <1>2, <1>3, <1>4, <1>6, <1>7, <1>8, <1>10, <1>11

\* The consumer's own steps keep the types and the places.
LEMMA ConsumerPlaceStep ==
    ASSUME PlaceInv, Flush \/ LoadPost \/ CommitOffset \/ Reconnect
    PROVE  PlaceInv'
<1>0. TypeOK /\ ContentTypes /\ CallerTypes /\ KeptTextExists /\ ConsumerPlace
      /\ RebuildPlace
  BY DEF PlaceInv, TypeOK
<1>1. /\ UNCHANGED <<contentVars, rebuildVars, features, clock>>
  BY DEF Flush, LoadPost, CommitOffset, Reconnect
<1>2. ContentTypes' /\ KeptTextExists'
  BY <1>0, <1>1 DEF ContentTypes, KeptTextExists, Live, contentVars
<1>3. Len(log) \in Nat /\ offset \in Nat /\ position \in Nat /\ next \in Nat
      /\ log' = log /\ proc \in [Procs -> {NoCall} \cup Calls]
  BY <1>0, <1>1 DEF ContentTypes, CallerTypes, contentVars
<1>4. CASE Flush
  <2>1. /\ position' \in offset + 1 .. Len(log) /\ next' = offset + 1 /\ next = 0
        /\ offset' = offset /\ proc' = proc
    BY <1>4 DEF Flush
  <2>2. position' \in Nat /\ next' \in Nat
    BY <1>3, <2>1
  <2>3. CallerTypes'
    BY <1>0, <1>1, <2>1, <2>2 DEF CallerTypes, rebuildVars
  <2>4. ConsumerPlace'
    BY <1>0, <1>3, <2>1, <2>2 DEF ConsumerPlace
  <2>5. RebuildPlace'
    BY <1>0, <1>1, <2>1 DEF RebuildPlace, rebuildVars
  <2> QED
    BY <1>2, <2>3, <2>4, <2>5 DEF PlaceInv, TypeOK
<1>5. CASE LoadPost
  <2>1. /\ next \in 1..position /\ proc["consumer"] = NoCall
        /\ offset' = offset /\ position' = position
    BY <1>5 DEF LoadPost
  <2>2. log[next] \in Posts
    BY <1>0, <1>3, <2>1 DEF ContentTypes, ConsumerPlace
  <2>3. PICK p \in Posts : p = log[next]
    BY <2>2
  <2>4. CASE Live(p)
    <3>1. proc' = [proc EXCEPT !["consumer"] = [pc |-> "topics", rec |-> RecordOf(p)]]
          /\ next' = next
      BY <1>5, <2>3, <2>4 DEF LoadPost, Call
    <3>2. RecordOf(p) \in Records
      <4>1. row[p] \in LiveRows
        BY <1>0, <2>4, Shapes
      <4> QED
        BY <4>1 DEF LiveRows, RecordOf, Records
    <3>3. PICK call \in Calls : call.rec.post = p
             /\ proc' = [proc EXCEPT !["consumer"] = call]
      BY <3>1, <3>2 DEF Calls, RecordOf
    <3>4. proc' \in [Procs -> {NoCall} \cup Calls] /\ proc'["consumer"] = call
          /\ proc'["rebuild"] = proc["rebuild"]
      BY <1>3, <3>3 DEF Procs
    <3>5. CallerTypes'
      BY <1>0, <1>1, <2>1, <3>1, <3>4 DEF CallerTypes, rebuildVars
    <3>6. ConsumerPlace'
      BY <1>0, <1>3, <2>1, <2>3, <3>1, <3>3, <3>4 DEF ConsumerPlace
    <3>7. RebuildPlace'
      BY <1>0, <1>1, <3>4 DEF RebuildPlace, rebuildVars
    <3> QED
      BY <1>2, <3>5, <3>6, <3>7 DEF PlaceInv, TypeOK
  <2>5. CASE ~Live(p)
    <3>1. next' = next + 1 /\ proc' = proc
      BY <1>5, <2>3, <2>5 DEF LoadPost
    <3>2. CallerTypes'
      BY <1>0, <1>1, <2>1, <3>1 DEF CallerTypes, rebuildVars
    <3>3. ConsumerPlace'
      BY <1>0, <1>3, <2>1, <3>1 DEF ConsumerPlace
    <3>4. RebuildPlace'
      BY <1>0, <1>1, <3>1 DEF RebuildPlace, rebuildVars
    <3> QED
      BY <1>2, <3>2, <3>3, <3>4 DEF PlaceInv, TypeOK
  <2> QED
    BY <2>4, <2>5
<1>6. CASE CommitOffset
  <2>1. next > position /\ offset' = position /\ next' = 0 /\ position' = position
        /\ proc' = proc
    BY <1>6 DEF CommitOffset
  <2>2. CallerTypes'
    BY <1>0, <1>1, <2>1 DEF CallerTypes, rebuildVars
  <2>3. ConsumerPlace'
    BY <1>0, <1>3, <2>1 DEF ConsumerPlace
  <2>4. RebuildPlace'
    BY <1>0, <1>1, <2>1 DEF RebuildPlace, rebuildVars
  <2> QED
    BY <1>2, <2>2, <2>3, <2>4 DEF PlaceInv, TypeOK
<1>7. CASE Reconnect
  <2>1. position' = offset /\ next' = 0 /\ offset' = offset
        /\ proc' = [proc EXCEPT !["consumer"] = NoCall]
    BY <1>7 DEF Reconnect, Return
  <2>2. proc' \in [Procs -> {NoCall} \cup Calls] /\ proc'["consumer"] = NoCall
        /\ proc'["rebuild"] = proc["rebuild"]
    BY <1>3, <2>1 DEF Procs
  <2>3. CallerTypes'
    BY <1>0, <1>1, <2>1, <2>2 DEF CallerTypes, rebuildVars
  <2>4. ConsumerPlace'
    BY <1>0, <1>3, <2>1, <2>2 DEF ConsumerPlace
  <2>5. RebuildPlace'
    BY <1>0, <1>1, <2>2 DEF RebuildPlace, rebuildVars
  <2> QED
    BY <1>2, <2>3, <2>4, <2>5 DEF PlaceInv, TypeOK
<1> QED
  BY <1>4, <1>5, <1>6, <1>7

\* So do those of the rebuild.
LEMMA RebuildPlaceStep ==
    ASSUME PlaceInv, FetchBatch \/ EndBatch \/ KillRebuild
    PROVE  PlaceInv'
<1>0. TypeOK /\ ContentTypes /\ CallerTypes /\ KeptTextExists /\ ConsumerPlace
      /\ RebuildPlace
  BY DEF PlaceInv, TypeOK
<1>1. /\ UNCHANGED <<row, unsent, lost, log, features, clock>>
      /\ UNCHANGED <<offset, position, next>>
  BY DEF FetchBatch, EndBatch, KillRebuild, contentVars, consumerVars
<1>3. ASSUME proc'["consumer"] = proc["consumer"]
      PROVE  ConsumerPlace'
  BY <1>0, <1>1, <1>3 DEF ConsumerPlace
<1>4. CASE FetchBatch
  <2>1. PICK posts \in BatchAfter(cursor) :
           /\ NextRecord([i \in 1..Len(posts) |-> RecordOf(posts[i])])
           /\ rebuild' = [on |-> TRUE, cursor |-> Key(posts[Len(posts)]),
                          tries |-> 0, ok |-> TRUE]
    BY <1>4 DEF FetchBatch
  <2>2. PICK records : records = [i \in 1..Len(posts) |-> RecordOf(posts[i])]
    OBVIOUS
  <2>3. records \in Seq(Records) /\ records # <<>> /\ Head(records) \in Records
        /\ Key(posts[Len(posts)]) \in Nat \X Nat
    BY <2>1, <2>2, BatchShape
  <2>4. rebuild' \in Rebuilds /\ rebuild'.on
    BY <2>1, <2>3 DEF Rebuilds
  <2>5. [pc |-> "topics", rec |-> Head(records)] \in Calls
    BY <2>3 DEF Calls
  <2>6. batch' = records
        /\ proc' = [proc EXCEPT !["rebuild"] = [pc |-> "topics", rec |-> Head(records)]]
    BY <2>1, <2>2, <2>3 DEF NextRecord
  <2>7. proc' \in [Procs -> {NoCall} \cup Calls] /\ proc'["consumer"] = proc["consumer"]
        /\ proc'["rebuild"] = [pc |-> "topics", rec |-> Head(records)]
    BY <1>0, <2>5, <2>6 DEF CallerTypes, Procs
  <2>8. CallerTypes'
    BY <1>0, <1>1, <1>4, <2>3, <2>4, <2>6, <2>7 DEF CallerTypes, FetchBatch
  <2>9. RebuildPlace'
    BY <2>3, <2>4, <2>6, <2>7 DEF RebuildPlace, NoCall
  <2>10. /\ write' \in [Posts -> {NoWrite} \cup OpenWrites]
         /\ \A p \in Posts : /\ write'[p].open <=> write[p].open
                             /\ write[p].open => write'[p].text = write[p].text
    <3>1. write' = [p \in Posts |-> IF write[p].open
                                    THEN [write[p] EXCEPT !.over = TRUE] ELSE write[p]]
      BY <1>4 DEF FetchBatch
    <3>2. \A w \in OpenWrites : /\ [w EXCEPT !.over = TRUE] \in OpenWrites
                                /\ [w EXCEPT !.over = TRUE].text = w.text
      BY DEF OpenWrites
    <3>3. \A w \in OpenWrites : w.open = TRUE
      BY DEF OpenWrites
    <3> QED
      BY <1>0, <3>1, <3>2, <3>3, Shapes DEF ContentTypes
  <2>11. ContentTypes'
    BY <1>0, <1>1, <2>10 DEF ContentTypes
  <2>12. KeptTextExists'
    BY <1>0, <1>1, <2>10 DEF KeptTextExists, Live
  <2> QED
    BY <1>3, <2>7, <2>8, <2>9, <2>11, <2>12 DEF PlaceInv, TypeOK
<1>5. CASE EndBatch
  <2>1. /\ rebuild.on /\ batch = <<>> /\ batch' = batch /\ rebuild' = Off /\ proc' = proc
        /\ cursor' = IF rebuild.ok THEN rebuild.cursor ELSE cursor
        /\ UNCHANGED contentVars
    BY <1>5 DEF EndBatch
  <2>2. cursor' \in Nat \X Nat
    <3>1. rebuild \in Rebuilds
      BY <1>0, <2>1, Shapes
    <3> QED
      BY <1>0, <2>1, <3>1 DEF CallerTypes, Rebuilds
  <2>3. CallerTypes'
    BY <1>0, <1>1, <2>1, <2>2 DEF CallerTypes
  <2>4. RebuildPlace'
    BY <1>0, <2>1 DEF RebuildPlace
  <2>5. ContentTypes' /\ KeptTextExists'
    BY <1>0, <1>1, <2>1 DEF ContentTypes, KeptTextExists, Live, contentVars
  <2> QED
    BY <1>3, <2>1, <2>3, <2>4, <2>5 DEF PlaceInv, TypeOK
<1>6. CASE KillRebuild
  <2>1. /\ rebuild' = Off /\ batch' = <<>> /\ cursor' = cursor
        /\ proc' = [proc EXCEPT !["rebuild"] = NoCall]
        /\ UNCHANGED contentVars
    BY <1>6 DEF KillRebuild, Return
  <2>2. proc' \in [Procs -> {NoCall} \cup Calls] /\ proc'["rebuild"] = NoCall
        /\ proc'["consumer"] = proc["consumer"]
    BY <1>0, <2>1 DEF CallerTypes, Procs
  <2>3. CallerTypes'
    BY <1>0, <1>1, <2>1, <2>2 DEF CallerTypes
  <2>4. RebuildPlace'
    BY <2>1, <2>2 DEF RebuildPlace
  <2>5. ContentTypes' /\ KeptTextExists'
    BY <1>0, <1>1, <2>1 DEF ContentTypes, KeptTextExists, Live, contentVars
  <2> QED
    BY <1>3, <2>2, <2>3, <2>4, <2>5 DEF PlaceInv, TypeOK
<1> QED
  BY <1>4, <1>5, <1>6

\* Every step keeps the types and the places.
LEMMA PlaceNext == PlaceInv /\ [Next]_vars => PlaceInv'
<1> SUFFICES ASSUME PlaceInv, [Next]_vars PROVE PlaceInv'
  OBVIOUS
<1>1. CASE Next
  BY <1>1, AuthorPlace, ProcessPlace, ConsumerPlaceStep, RebuildPlaceStep
     DEF Next, Consumer, Procs
<1>2. CASE UNCHANGED vars
  BY <1>2 DEF vars, contentVars, consumerVars, rebuildVars, PlaceInv, TypeOK,
              ContentTypes, CallerTypes, KeptTextExists, ConsumerPlace, RebuildPlace, Live
<1> QED
  BY <1>1, <1>2

\* Types, and the place of both programs, in every reachable state.
THEOREM ContentPlaceInvariant == Spec => []PlaceInv
  BY PlaceInit, PlaceNext, PTL DEF Spec

-----------------------------------------------------------------------------
(* Topics.  TopicsFollowText is inductive once the types are known: what   *)
(* matters is that every step that can part a text from its topics is one  *)
(* of the two races `raced' remembers.                                     *)

\* What a step of process does to the row of one post.
LEMMA ProcessRow ==
    ASSUME PlaceInv, NEW x \in Procs, Process(x), NEW p \in Posts
    PROVE  /\ Live(p)' <=> Live(p)
           /\ Live(p) => row'[p].text = row[p].text
           /\ row'[p] # row[p] => Live(p) /\ clock' = clock + 1 /\ row'[p].at = clock + 1
           /\ \/ row'[p] = row[p]
              \/ p \in raced'
              \/ row'[p].topics \in Texts => row'[p].topics = row'[p].text
           /\ raced \subseteq raced'
           /\ features \subseteq features'
<1>1. /\ proc[x] \in Calls
      /\ \/ row' = row /\ clock' = clock /\ raced' = raced
         \/ Classifies(proc[x].rec) /\ features' = features
      /\ \/ features' = features
         \/ /\ InsertFeature(x) /\ Live(proc[x].rec.post)
            /\ features' = features \cup {<<proc[x].rec.post, proc[x].rec.text>>}
  BY ProcessWrites
<1>2. CASE row' = row /\ clock' = clock /\ raced' = raced
  BY <1>1, <1>2 DEF Live
<1>3. CASE Classifies(proc[x].rec) /\ features' = features
  <2>1. PICK rec \in Records : rec = proc[x].rec
    BY <1>1 DEF Calls
  <2>2. /\ Live(rec.post) /\ rec.post \in Posts
        /\ ClassifiedRow(rec) \in LiveRows
        /\ ClassifiedRow(rec).text = row[rec.post].text
        /\ ClassifiedRow(rec).topics = TopicsOf(rec)
        /\ ClassifiedRow(rec).at = clock + 1
    BY <1>3, <2>1, RecordTopics, ClassifiedRowIsLive DEF Classifies
  <2>3. /\ clock' = clock + 1
        /\ row' = [row EXCEPT ![rec.post] = ClassifiedRow(rec)]
        /\ raced' = IF TopicsOf(rec) \in Texts \ {row[rec.post].text}
                    THEN raced \cup {rec.post} ELSE raced
    BY <1>3, <2>1 DEF Classifies
  <2>4. row \in [Posts -> {Absent, Gone} \cup LiveRows]
    BY DEF PlaceInv, TypeOK, ContentTypes
  <2>5. CASE p = rec.post
    <3>1. row'[p] = ClassifiedRow(rec)
      BY <2>2, <2>3, <2>4, <2>5
    <3>2. Live(p) /\ Live(p)'
      BY <2>2, <2>5, <3>1 DEF Live, LiveRows
    <3> QED
      BY <1>3, <2>2, <2>3, <2>5, <3>1, <3>2
  <2>6. CASE p # rec.post
    <3>1. row'[p] = row[p]
      BY <2>2, <2>3, <2>4, <2>6
    <3> QED
      BY <1>3, <2>3, <3>1 DEF Live
  <2> QED
    BY <2>5, <2>6
<1> QED
  BY <1>1, <1>2, <1>3

\* Every step keeps the topics with their text.
LEMMA TopicsNext == PlaceInv /\ TopicsFollowText /\ [Next]_vars => TopicsFollowText'
<1> SUFFICES ASSUME PlaceInv, TopicsFollowText, [Next]_vars,
                    NEW p \in Posts, p \notin raced', Live(p)', row'[p].topics \in Texts
             PROVE  row'[p].topics = row'[p].text
  BY DEF TopicsFollowText
<1>0. row \in [Posts -> {Absent, Gone} \cup LiveRows]
  BY DEF PlaceInv, TypeOK, ContentTypes
<1>1. ASSUME row'[p] = row[p], raced \subseteq raced'
      PROVE  row'[p].topics = row'[p].text
  BY <1>1 DEF TopicsFollowText, Live
<1>2. ASSUME NEW x \in Procs, Process(x)
      PROVE  row'[p].topics = row'[p].text
  BY <1>1, <1>2, ProcessRow
<1>3. ASSUME NEW q \in Posts, CommitWrite(q)
      PROVE  row'[p].topics = row'[p].text
  <2>1. /\ row' = [row EXCEPT ![q] = Edited(q, write[q].text, write[q].topics)]
        /\ raced \ {q} \subseteq raced' /\ write[q].open
    BY <1>3 DEF CommitWrite
  <2>2. CASE p = q
    BY <1>0, <2>1, <2>2, EditedRow
  <2>3. CASE p # q
    BY <1>0, <2>1, <2>3 DEF TopicsFollowText, Live
  <2> QED
    BY <2>2, <2>3
<1>4. ASSUME NEW q \in Posts, Delete(q)
      PROVE  row'[p].topics = row'[p].text
  <2>1. p # q
    BY <1>0, <1>4 DEF Delete, Live, Gone
  <2> QED
    BY <1>0, <1>1, <1>4, <2>1 DEF Delete
<1>5. CASE UNCHANGED <<row, raced>>
  BY <1>1, <1>5
<1>6. ASSUME NEW q \in Posts, NEW w, BeginWrite(q, w[1], w[2])
      PROVE  UNCHANGED <<row, raced>>
  BY <1>6 DEF BeginWrite
<1>7. ASSUME NEW q \in Posts, NEW d, Announce(q, d)
      PROVE  UNCHANGED <<row, raced>>
  BY <1>7 DEF Announce
<1>8. ASSUME Flush \/ LoadPost \/ CommitOffset \/ Reconnect
      PROVE  UNCHANGED <<row, raced>>
  BY <1>8 DEF Flush, LoadPost, CommitOffset, Reconnect, contentVars
<1>9. ASSUME FetchBatch \/ EndBatch \/ KillRebuild
      PROVE  UNCHANGED <<row, raced>>
  BY <1>9 DEF FetchBatch, EndBatch, KillRebuild, contentVars
<1>10. CASE UNCHANGED vars
  BY <1>5, <1>10 DEF vars, contentVars
<1> QED
  BY <1>2, <1>3, <1>4, <1>5, <1>6, <1>7, <1>8, <1>9, <1>10
     DEF Next, Author, Consumer, Procs

\* For any number of posts, writes and faults, inferred topics are those of
\* the text beside them, but for the race the model remembers (ensure_topics
\* against validate_update_post).
THEOREM ContentTopicsFollowText == Spec => []TopicsFollowText
<1>1. Init => TopicsFollowText
  BY DEF Init, TopicsFollowText, Live, Absent
<1> QED
  BY <1>1, TopicsNext, ContentPlaceInvariant, PTL DEF Spec

-----------------------------------------------------------------------------
(* Texts. NoTextForgotten is not inductive: it lets the record that        *)
(* still covers a text be one the batch at work has passed already, and    *)
(* the commit of the offset would lose it. What is preserved is that a     *)
(* record not passed yet covers it, and the one at work only if it was     *)
(* loaded with the text the post has now.                                  *)

\* The first record the consumer has not passed.
Unpassed == IF next = 0 THEN offset + 1 ELSE next

\* The consumer works on a record it loaded before the text was edited.
Overtaken(p) ==
    /\ proc["consumer"] # NoCall
    /\ proc["consumer"].rec.text # row[p].text

\* A record the consumer will load with the text of the post, or has loaded.
Ahead(p) ==
    \E i \in Unpassed .. Len(log) : log[i] = p /\ (i = next => ~Overtaken(p))

Coming(p) == unsent[p] > 0 \/ p \in lost \/ Ahead(p)

TextsCovered ==
    \A p \in Posts :
       Live(p) /\ ~Has(p, row[p].text)
         => Coming(p) \/ <<p, row[p].text>> \in gaveUp

\* The numbers of the consumer, and what it means to be in a call.
LEMMA ConsumerNumbers ==
    ASSUME PlaceInv
    PROVE  /\ next \in Nat /\ offset \in Nat /\ position \in Nat /\ Len(log) \in Nat
           /\ Unpassed \in Nat /\ Unpassed >= offset + 1 /\ next <= Unpassed
           /\ position <= Len(log) /\ next <= position + 1
           /\ proc["consumer"] # NoCall =>
                 /\ proc["consumer"] \in Calls /\ next # 0 /\ next <= position
                 /\ proc["consumer"].rec.post = log[next]
           /\ \A i \in Unpassed .. Len(log) : i \in 1 .. Len(log)
<1>1. /\ next \in Nat /\ offset \in Nat /\ position \in Nat /\ Len(log) \in Nat
  BY DEF PlaceInv, TypeOK, CallerTypes, ContentTypes
<1>2. ConsumerPlace
  BY DEF PlaceInv
<1>3. proc["consumer"] # NoCall =>
          /\ proc["consumer"] \in Calls /\ next # 0 /\ next <= position
          /\ proc["consumer"].rec.post = log[next]
  BY <1>2, Shapes DEF PlaceInv, ConsumerPlace, Procs
<1>4. Unpassed \in Nat /\ Unpassed >= offset + 1 /\ next <= Unpassed
  BY <1>1, <1>2 DEF Unpassed, ConsumerPlace
<1>5. position <= Len(log) /\ next <= position + 1
  BY <1>1, <1>2 DEF ConsumerPlace
<1> QED
  BY <1>1, <1>3, <1>4, <1>5

\* A step that edits no text, removes no vector of a live post and leaves the
\* consumer where it is forgets nothing.
LEMMA TextFrame ==
    ASSUME PlaceInv, TextsCovered,
           \A p \in Posts : Live(p)' => Live(p) /\ row'[p].text = row[p].text,
           \A p \in Posts : Live(p)' => (Has(p, row[p].text) => <<p, row[p].text>> \in features'),
           UNCHANGED <<unsent, lost, log, offset, next, gaveUp>>,
           \/ proc'["consumer"] = proc["consumer"]
           \/ proc["consumer"] # NoCall /\ proc'["consumer"].rec = proc["consumer"].rec
    PROVE  TextsCovered'
<1> SUFFICES ASSUME NEW p \in Posts, Live(p)', <<p, row'[p].text>> \notin features',
                    <<p, row'[p].text>> \notin gaveUp'
             PROVE  Coming(p)'
  BY DEF TextsCovered, Has
<1>1. Coming(p) /\ row'[p].text = row[p].text
  BY DEF TextsCovered, Has
<1>2. Overtaken(p)' => Overtaken(p)
  BY <1>1 DEF Overtaken
<1>3. Ahead(p) => Ahead(p)'
  BY <1>2 DEF Ahead, Unpassed
<1> QED
  BY <1>1, <1>3 DEF Coming

\* The consumer passes the record it is at: either the vector of the text it
\* loaded is there or the encoder declined it, or the record was overtaken by
\* an edit that is still to come, or the post was gone.
LEMMA PassRecord ==
    ASSUME PlaceInv, TextsCovered, next # 0, next <= position,
           \A p \in Posts : Live(p)' => Live(p) /\ row'[p].text = row[p].text,
           features \subseteq features', gaveUp \subseteq gaveUp',
           UNCHANGED <<unsent, lost, log, offset>>,
           next' = next + 1, proc'["consumer"] = NoCall,
           LET p == log[next] IN
              \/ ~Live(p)
              \/ Overtaken(p)
              \/ <<p, row[p].text>> \in features' \cup gaveUp'
    PROVE  TextsCovered'
<1> SUFFICES ASSUME NEW p \in Posts, Live(p)', <<p, row'[p].text>> \notin features',
                    <<p, row'[p].text>> \notin gaveUp'
             PROVE  Coming(p)'
  BY DEF TextsCovered, Has
<1>1. Coming(p) /\ Live(p) /\ row'[p].text = row[p].text
  BY DEF TextsCovered, Has
<1>2. ASSUME Ahead(p) PROVE Ahead(p)'
  <2>1. PICK i \in Unpassed .. Len(log) : log[i] = p /\ (i = next => ~Overtaken(p))
    BY <1>2 DEF Ahead
  <2>2. i # next
    BY <2>1, <1>1
  <2>3. Unpassed = next /\ Unpassed' = next + 1 /\ i \in Int /\ next \in Nat
    BY ConsumerNumbers DEF Unpassed
  <2>4. i \in Unpassed' .. Len(log')
    BY <2>2, <2>3
  <2>5. ~Overtaken(p)'
    BY DEF Overtaken
  <2> QED
    BY <2>1, <2>4, <2>5 DEF Ahead
<1> QED
  BY <1>1, <1>2 DEF Coming

\* The consumer is at no record any more, and will see at least what it had not
\* passed: it starts over, or has committed a batch it passed.
LEMMA LeaveBatch ==
    ASSUME PlaceInv, TextsCovered,
           \A p \in Posts : Live(p)' => Live(p) /\ row'[p].text = row[p].text,
           features \subseteq features',
           UNCHANGED <<unsent, lost, log, gaveUp>>,
           next' = 0, proc'["consumer"] = NoCall,
           NEW o \in Nat, offset' = o, o + 1 <= Unpassed
    PROVE  TextsCovered'
<1> SUFFICES ASSUME NEW p \in Posts, Ahead(p)
             PROVE  Ahead(p)'
  BY DEF TextsCovered, Has, Coming
<1>1. PICK i \in Unpassed .. Len(log) : log[i] = p
  BY DEF Ahead
<1>2. Unpassed' = o + 1 /\ Unpassed \in Nat /\ Len(log) \in Nat
  BY ConsumerNumbers DEF Unpassed
<1>3. i \in Int /\ Unpassed <= i /\ i <= Len(log)
  BY <1>1, <1>2
<1>4. log' = log
  OBVIOUS
<1>5. i \in Unpassed' .. Len(log')
  BY <1>2, <1>3, <1>4
<1>6. ~Overtaken(p)'
  BY DEF Overtaken
<1> QED
  BY <1>1, <1>4, <1>5, <1>6 DEF Ahead

\* A step of process forgets no text, in either program.
LEMMA ProcessText ==
    ASSUME PlaceInv, TextsCovered, NEW x \in Procs, Process(x)
    PROVE  TextsCovered'
<1>1. UNCHANGED <<unsent, lost, log>> /\ proc[x] \in Calls /\ proc[x] # NoCall
  BY ProcessWrites, ProcessAnswers
<1>2. \A p \in Posts : Live(p)' => Live(p) /\ row'[p].text = row[p].text
  BY ProcessRow
<1>3. features \subseteq features'
  BY ProcessWrites
<1>4. proc \in [Procs -> {NoCall} \cup Calls]
  BY DEF PlaceInv, TypeOK, CallerTypes
<1>5. ASSUME UNCHANGED consumerVars,
             \/ proc'["consumer"] = proc["consumer"]
             \/ proc["consumer"] # NoCall /\ proc'["consumer"].rec = proc["consumer"].rec
      PROVE  TextsCovered'
  <2>1. UNCHANGED <<unsent, lost, log, offset, next, gaveUp>>
    BY <1>1, <1>5 DEF consumerVars
  <2> QED
    BY <1>2, <1>3, <1>5, <2>1, TextFrame DEF Has
<1>6. ASSUME NEW pc \in {"exists", "insert"}, Goto(x, pc), UNCHANGED consumerVars
      PROVE  TextsCovered'
  <2>1. proc'[x].rec = proc[x].rec
    BY <1>1, <1>4, <1>6 DEF Goto, Calls
  <2>2. \A y \in Procs : y # x => proc'[y] = proc[y]
    BY <1>4, <1>6 DEF Goto
  <2>3. CASE x = "consumer"
    BY <1>1, <1>5, <1>6, <2>1, <2>3
  <2>4. CASE x = "rebuild"
    BY <1>5, <1>6, <2>2, <2>4 DEF Procs
  <2> QED
    BY <2>3, <2>4 DEF Procs
<1>7. ASSUME NEW s, Result(x, s), x = "rebuild"
      PROVE  TextsCovered'
  <2>1. UNCHANGED consumerVars /\ proc'["consumer"] = proc["consumer"]
    BY <1>1, <1>7, RebuildResult
  <2> QED
    BY <1>5, <2>1
<1>8. ASSUME NEW s, Result(x, s), x = "consumer",
             s = "fallback" \/ <<proc[x].rec.post, proc[x].rec.text>> \in features'
      PROVE  TextsCovered'
  <2> DEFINE rec == proc["consumer"].rec
  <2>1. /\ proc' = [proc EXCEPT !["consumer"] = NoCall]
        /\ next' = next + 1
        /\ gaveUp' = IF s = "fallback" THEN gaveUp \cup {<<rec.post, rec.text>>}
                                       ELSE gaveUp
        /\ offset' = offset
    BY <1>1, <1>8, ConsumerResult
  <2>2. next # 0 /\ next <= position /\ rec.post = log[next]
    BY <1>1, <1>8, ConsumerNumbers
  <2>3. <<rec.post, rec.text>> \in features' \cup gaveUp'
    BY <1>8, <2>1
  <2>4. Overtaken(log[next]) \/ rec.text = row[log[next]].text
    BY <1>1, <1>8 DEF Overtaken
  <2>5. proc'["consumer"] = NoCall /\ gaveUp \subseteq gaveUp'
    BY <1>4, <2>1 DEF Procs
  <2> QED
    BY <1>1, <1>2, <1>3, <2>1, <2>2, <2>3, <2>4, <2>5, PassRecord
<1>9. CASE Raise(x) /\ x = "consumer"
  <2>1. /\ proc' = [proc EXCEPT !["consumer"] = NoCall]
        /\ next' = 0 /\ UNCHANGED <<offset, gaveUp>>
    BY <1>9 DEF Raise, Return
  <2>2. proc'["consumer"] = NoCall
    BY <1>4, <2>1 DEF Procs
  <2>3. offset' = offset /\ offset \in Nat /\ offset + 1 <= Unpassed
    BY <2>1, ConsumerNumbers
  <2> QED
    BY <1>1, <1>2, <1>3, <2>1, <2>2, <2>3, LeaveBatch
<1>10. CASE Raise(x) /\ x = "rebuild"
  BY <1>7, <1>10 DEF Raise
<1> QED
  BY <1>6, <1>7, <1>8, <1>9, <1>10, ProcessAnswers DEF Procs

\* A step of the author: an edit announces itself, or its announcement is lost.
LEMMA AuthorText ==
    ASSUME PlaceInv, TextsCovered, Author
    PROVE  TextsCovered'
<1>0. /\ row \in [Posts -> {Absent, Gone} \cup LiveRows] /\ unsent \in [Posts -> Nat]
      /\ log \in Seq(Posts) /\ lost \in SUBSET Posts
  BY DEF PlaceInv, TypeOK, ContentTypes
<1>1. ASSUME NEW p \in Posts, NEW w, BeginWrite(p, w[1], w[2])
      PROVE  TextsCovered'
  BY <1>1, TextFrame DEF BeginWrite, consumerVars, Has, Live
<1>2. ASSUME NEW q \in Posts, CommitWrite(q)
      PROVE  TextsCovered'
  <2>1. /\ row' = [row EXCEPT ![q] = Edited(q, write[q].text, write[q].topics)]
        /\ unsent' = [unsent EXCEPT ![q] = @ + 1]
        /\ UNCHANGED <<lost, log, offset, next, gaveUp, proc, features>>
    BY <1>2 DEF CommitWrite, consumerVars
  <2> SUFFICES ASSUME NEW p \in Posts, Live(p)', <<p, row'[p].text>> \notin features,
                      <<p, row'[p].text>> \notin gaveUp
               PROVE  Coming(p)'
    BY <2>1 DEF TextsCovered, Has
  <2>2. CASE p = q
    BY <1>0, <2>1, <2>2 DEF Coming
  <2>3. CASE p # q
    <3>1. row'[p] = row[p] /\ unsent'[p] = unsent[p]
      BY <1>0, <2>1, <2>3
    <3>2. Coming(p)
      BY <3>1 DEF TextsCovered, Has, Live
    <3> QED
      BY <2>1, <3>1, <3>2 DEF Coming, Ahead, Overtaken, Unpassed
  <2> QED
    BY <2>2, <2>3
<1>3. ASSUME NEW q \in Posts, Delete(q)
      PROVE  TextsCovered'
  <2>1. /\ row' = [row EXCEPT ![q] = Gone]
        /\ features' = {f \in features : f[1] # q}
        /\ UNCHANGED <<unsent, lost, log, offset, next, gaveUp, proc>>
    BY <1>3 DEF Delete, consumerVars
  <2>2. \A p \in Posts : Live(p)' => p # q /\ row'[p] = row[p]
    BY <1>0, <2>1 DEF Live, Gone
  <2>3. \A p \in Posts : Live(p)' =>
            (Has(p, row[p].text) => <<p, row[p].text>> \in features')
    BY <2>1, <2>2 DEF Has
  <2> QED
    BY <2>1, <2>2, <2>3, TextFrame DEF Live
<1>4. ASSUME NEW q \in Posts, NEW delivered \in BOOLEAN, Announce(q, delivered)
      PROVE  TextsCovered'
  <2>1. /\ unsent' = [unsent EXCEPT ![q] = @ - 1]
        /\ log' = IF delivered THEN Append(log, q) ELSE log
        /\ lost' = IF delivered THEN lost \ {q} ELSE lost \cup {q}
        /\ UNCHANGED <<row, features, offset, next, gaveUp, proc>>
    BY <1>4 DEF Announce, consumerVars
  <2> SUFFICES ASSUME NEW p \in Posts, Coming(p)
               PROVE  Coming(p)'
    BY <2>1 DEF TextsCovered, Has, Live
  <2>2. /\ Unpassed' = Unpassed /\ next' = next /\ Unpassed \in Nat /\ Len(log) \in Nat
        /\ next <= Len(log) + 1 /\ position <= Len(log) /\ position \in Nat
        /\ proc["consumer"] # NoCall => next <= position
        /\ next \in Nat
    BY <2>1, ConsumerNumbers DEF Unpassed
  <2>3. ASSUME Ahead(p) PROVE Ahead(p)'
    <3>1. PICK i \in Unpassed .. Len(log) : log[i] = p /\ (i = next => ~Overtaken(p))
      BY <2>3 DEF Ahead
    <3>2. i \in 1 .. Len(log)
      BY ConsumerNumbers
    <3>3. log'[i] = log[i] /\ Len(log') >= Len(log)
      BY <1>0, <2>1, <3>2
    <3>4. i \in Unpassed' .. Len(log')
      <4>1. Len(log') \in Nat
        BY <1>0, <2>1
      <4> QED
        BY <2>2, <3>1, <3>3, <4>1
    <3>5. Overtaken(p)' => Overtaken(p)
      BY <2>1 DEF Overtaken
    <3> QED
      BY <2>2, <3>1, <3>3, <3>4, <3>5 DEF Ahead
  <2>4. CASE p # q
    BY <1>0, <2>1, <2>3, <2>4 DEF Coming
  <2>5. CASE p = q /\ ~delivered
    BY <1>0, <2>1, <2>5 DEF Coming
  <2>6. CASE p = q /\ delivered
    <3>1. log' = Append(log, q) /\ Len(log') = Len(log) + 1 /\ log'[Len(log) + 1] = p
      BY <1>0, <2>1, <2>6
    <3>2. Len(log) + 1 \in Unpassed' .. Len(log')
      <4>1. Unpassed <= Len(log) + 1
        <5>1. /\ next \in Nat /\ offset \in Nat /\ position \in Nat
              /\ offset <= position
          BY ConsumerNumbers DEF PlaceInv, ConsumerPlace
        <5> QED
          BY <2>2, <5>1 DEF Unpassed
      <4> QED
        BY <2>2, <3>1, <4>1
    <3>3. Len(log) + 1 = next' => ~Overtaken(p)'
      BY <2>1, <2>2 DEF Overtaken
    <3> QED
      BY <3>1, <3>2, <3>3 DEF Coming, Ahead
  <2> QED
    BY <2>4, <2>5, <2>6
<1> QED
  BY <1>1, <1>2, <1>3, <1>4 DEF Author

\* The consumer takes, passes and commits records without forgetting a text.
LEMMA ConsumerText ==
    ASSUME PlaceInv, TextsCovered, Flush \/ LoadPost \/ CommitOffset \/ Reconnect
    PROVE  TextsCovered'
<1>0. /\ UNCHANGED <<row, features, unsent, lost, log, gaveUp>>
      /\ proc \in [Procs -> {NoCall} \cup Calls] /\ log \in Seq(Posts)
  BY DEF Flush, LoadPost, CommitOffset, Reconnect, contentVars, PlaceInv, TypeOK,
         CallerTypes, ContentTypes
<1>1. \A p \in Posts : Live(p)' => Live(p) /\ row'[p].text = row[p].text
  BY <1>0 DEF Live
<1>2. CASE Flush
  <2>1. next = 0 /\ next' = offset + 1 /\ offset' = offset /\ proc' = proc
    BY <1>2 DEF Flush
  <2>2. proc["consumer"] = NoCall
    BY <2>1 DEF PlaceInv, ConsumerPlace
  <2>3. Unpassed' = Unpassed
    BY <2>1, ConsumerNumbers DEF Unpassed
  <2>4. \A p \in Posts : ~Overtaken(p)'
    BY <2>1, <2>2 DEF Overtaken
  <2>5. \A p \in Posts : Ahead(p) => Ahead(p)'
    BY <1>0, <2>3, <2>4 DEF Ahead
  <2> QED
    BY <1>0, <2>5 DEF TextsCovered, Has, Coming, Live
<1>3. CASE LoadPost
  <2>1. /\ next \in 1..position /\ proc["consumer"] = NoCall
        /\ UNCHANGED <<offset, position>>
    BY <1>3 DEF LoadPost
  <2>2. log[next] \in Posts /\ next # 0 /\ next <= position
    BY <1>0, <2>1, ConsumerNumbers
  <2>3. CASE Live(log[next])
    <3>1. proc' = [proc EXCEPT !["consumer"] =
                      [pc |-> "topics", rec |-> RecordOf(log[next])]]
          /\ next' = next
      BY <1>3, <2>3 DEF LoadPost, Call
    <3>2. proc'["consumer"].rec.text = row[log[next]].text
      BY <1>0, <3>1 DEF RecordOf, Procs
    <3>3. Unpassed' = Unpassed
      BY <2>1, <3>1 DEF Unpassed
    <3>4. ~Overtaken(log[next])'
      BY <1>0, <3>1, <3>2 DEF Overtaken
    <3>5. ASSUME NEW p \in Posts, Ahead(p) PROVE Ahead(p)'
      <4>1. PICK i \in Unpassed .. Len(log) : log[i] = p
        BY <3>5 DEF Ahead
      <4>2. CASE i = next
        <5>1. ~Overtaken(p)'
          BY <1>0, <3>1, <3>4, <4>1, <4>2 DEF Overtaken
        <5> QED
          BY <1>0, <3>3, <4>1, <5>1 DEF Ahead
      <4>3. CASE i # next
        BY <1>0, <3>1, <3>3, <4>1, <4>3 DEF Ahead
      <4> QED
        BY <4>2, <4>3
    <3> QED
      BY <1>0, <3>5 DEF TextsCovered, Has, Coming, Live
  <2>4. CASE ~Live(log[next])
    <3>1. next' = next + 1 /\ proc' = proc
      BY <1>3, <2>4 DEF LoadPost
    <3> QED
      BY <1>0, <1>1, <2>1, <2>2, <2>4, <3>1, PassRecord
  <2> QED
    BY <2>3, <2>4
<1>4. CASE CommitOffset
  <2>1. next > position /\ offset' = position /\ next' = 0 /\ proc' = proc
    BY <1>4 DEF CommitOffset
  <2>2. proc["consumer"] = NoCall
    BY <2>1, ConsumerNumbers
  <2>3. position \in Nat /\ position + 1 <= Unpassed
    BY <2>1, ConsumerNumbers
  <2> QED
    BY <1>0, <1>1, <2>1, <2>2, <2>3, LeaveBatch
<1>5. CASE Reconnect
  <2>1. next' = 0 /\ offset' = offset /\ proc'["consumer"] = NoCall
    BY <1>0, <1>5 DEF Reconnect, Return, Procs
  <2>2. offset \in Nat /\ offset + 1 <= Unpassed
    BY ConsumerNumbers
  <2> QED
    BY <1>0, <1>1, <2>1, <2>2, LeaveBatch
<1> QED
  BY <1>2, <1>3, <1>4, <1>5

\* The rebuild does not touch what the consumer has before it.
LEMMA RebuildText ==
    ASSUME PlaceInv, TextsCovered, FetchBatch \/ EndBatch \/ KillRebuild
    PROVE  TextsCovered'
<1>1. UNCHANGED <<row, features, unsent, lost, log, offset, next, gaveUp>>
  BY DEF FetchBatch, EndBatch, KillRebuild, contentVars, consumerVars
<1>2. proc'["consumer"] = proc["consumer"]
  <2>1. proc \in [Procs -> {NoCall} \cup Calls]
    BY DEF PlaceInv, TypeOK, CallerTypes
  <2>2. CASE FetchBatch
    BY <2>1, <2>2 DEF FetchBatch, NextRecord, Procs
  <2>3. CASE EndBatch
    BY <2>3 DEF EndBatch
  <2>4. CASE KillRebuild
    BY <2>1, <2>4 DEF KillRebuild, Return, Procs
  <2> QED
    BY <2>2, <2>3, <2>4
<1>3. \A p \in Posts : Live(p)' => Live(p) /\ row'[p].text = row[p].text
  BY <1>1 DEF Live
<1>4. \A p \in Posts : Live(p)' =>
          (Has(p, row[p].text) => <<p, row[p].text>> \in features')
  BY <1>1 DEF Has
<1> QED
  BY <1>1, <1>2, <1>3, <1>4, TextFrame

\* Every step keeps every text covered.
LEMMA TextNext == PlaceInv /\ TextsCovered /\ [Next]_vars => TextsCovered'
<1> SUFFICES ASSUME PlaceInv, TextsCovered, [Next]_vars PROVE TextsCovered'
  OBVIOUS
<1>1. CASE Next
  BY <1>1, AuthorText, ProcessText, ConsumerText, RebuildText DEF Next, Consumer, Procs
<1>2. CASE UNCHANGED vars
  BY <1>2 DEF vars, contentVars, consumerVars, TextsCovered, Has, Live, Coming, Ahead,
              Overtaken, Unpassed
<1> QED
  BY <1>1, <1>2

\* For any number of posts, batches, replays and crashes, no text is left
\* without its vector unless the encoder declined it or its announcement was
\* lost: an edit under the worker's hands is covered by its own record
\* (_process_batch, commit after the batch).
THEOREM ContentNoTextForgotten == Spec => []NoTextForgotten
<1>1. PlaceInv /\ TextsCovered => NoTextForgotten
  <2> SUFFICES ASSUME PlaceInv, NEW p \in Posts, Ahead(p)
               PROVE  \E i \in offset + 1 .. Len(log) : log[i] = p
    BY DEF TextsCovered, NoTextForgotten, Coming, Outstanding
  <2>1. PICK i \in Unpassed .. Len(log) : log[i] = p
    BY DEF Ahead
  <2>2. i \in offset + 1 .. Len(log)
    BY <2>1, ConsumerNumbers
  <2> QED
    BY <2>1, <2>2
<1>2. Init => TextsCovered
  BY DEF Init, TextsCovered, Live, Absent
<1> QED
  BY <1>1, <1>2, TextNext, ContentPlaceInvariant, PTL DEF Spec

-----------------------------------------------------------------------------
(* The checkpoint. CheckpointCovers is not inductive: saving the cursor    *)
(* needs that every record of the batch succeeded, that no post slipped    *)
(* between the records of the batch, and that whoever writes while the     *)
(* batch is at work ends up beyond its cursor or is one of the late        *)
(* writes.                                                                 *)

\* The post is one the cursor claims to have done.
Behind(c, p) == Live(p) /\ ~Before(c, Key(p)) /\ p \notin late

\* A record the rebuild has still to process, with the text of the post.
Left(p) ==
    \E i \in 1..Len(batch) : batch[i].post = p /\ batch[i].text = row[p].text

\* No time lies in the future of the database's clock.
TimesArePast ==
    /\ \A p \in Posts : Live(p) => row[p].at <= clock
    /\ \A p \in Posts : write[p].open => write[p].at <= clock
    /\ cursor[1] <= clock
    /\ rebuild.on => rebuild.cursor[1] <= clock

\* A write that began after the rebuild took its batch is beyond its cursor.
WritesAreBeyond ==
    \A p \in Posts : write[p].open /\ ~write[p].over =>
       /\ cursor[1] < write[p].at
       /\ rebuild.on => rebuild.cursor[1] < write[p].at

\* While nothing failed, what the batch's cursor claims is done or in the batch.
BatchCovers ==
    rebuild.on /\ rebuild.ok =>
       \A p \in Posts :
          Behind(rebuild.cursor, p) => Has(p, row[p].text) \/ Left(p)

CoverInv == TimesArePast /\ WritesAreBeyond /\ BatchCovers /\ CheckpointCovers

\* The types of what the checkpoint is about.
LEMMA CoverTypes ==
    ASSUME PlaceInv
    PROVE  /\ clock \in Nat /\ cursor \in Nat \X Nat /\ cursor[1] \in Nat
           /\ row \in [Posts -> {Absent, Gone} \cup LiveRows]
           /\ write \in [Posts -> {NoWrite} \cup OpenWrites]
           /\ batch \in Seq(Records)
           /\ rebuild.on => /\ rebuild.cursor \in Nat \X Nat /\ rebuild.cursor[1] \in Nat
                            /\ rebuild.ok \in BOOLEAN
           /\ \A p \in Posts : Live(p) => row[p].at \in Nat
           /\ \A p \in Posts : write[p].open => write[p].at \in Nat
<1>1. TypeOK /\ ContentTypes /\ CallerTypes
  BY DEF PlaceInv, TypeOK
<1>2. rebuild.on => rebuild \in Rebuilds
  BY <1>1, Shapes
<1>3. \A p \in Posts : Live(p) => row[p] \in LiveRows
  BY <1>1, Shapes
<1>4. \A p \in Posts : write[p].open => write[p] \in OpenWrites
  BY <1>1, Shapes
<1>5. \A r \in Rebuilds : r.cursor \in Nat \X Nat /\ r.ok \in BOOLEAN
  BY DEF Rebuilds
<1>6. \A c \in Nat \X Nat : c[1] \in Nat
  OBVIOUS
<1>7. \A r \in LiveRows : r.at \in Nat
  BY DEF LiveRows
<1>8. \A w \in OpenWrites : w.at \in Nat
  BY DEF OpenWrites
<1> QED
  BY <1>1, <1>2, <1>3, <1>4, <1>5, <1>6, <1>7, <1>8 DEF ContentTypes, CallerTypes

\* A post whose row is stamped after the cursor is not behind it.
LEMMA LaterIsBeyond ==
    ASSUME NEW c, NEW p, c[1] < row[p].at
    PROVE  ~Behind(c, p)
  BY DEF Behind, Before, Key

\* What a step of process does to the batch of the rebuild: nothing, or the head
\* of the batch is done with, and has its vector unless the batch has failed.
BatchGoesOn ==
    /\ cursor' = cursor /\ (rebuild'.on <=> rebuild.on)
    /\ rebuild.on => rebuild'.cursor = rebuild.cursor
    /\ \/ batch' = batch /\ (rebuild.on => rebuild'.ok = rebuild.ok)
       \/ /\ rebuild.on /\ batch' = Tail(batch) /\ batch # <<>>
          /\ rebuild'.ok =>
                rebuild.ok /\ <<Head(batch).post, Head(batch).text>> \in features'

\* Result and Raise let the batch go on like that.
LEMMA ProcessBatch ==
    ASSUME PlaceInv, NEW x \in Procs, Process(x)
    PROVE  BatchGoesOn
<1>1. ASSUME UNCHANGED rebuildVars
      PROVE  BatchGoesOn
  BY <1>1 DEF rebuildVars, BatchGoesOn
<1>2. ASSUME NEW s, x = "rebuild", Result(x, s),
             s = "fallback" \/ <<proc[x].rec.post, proc[x].rec.text>> \in features'
      PROVE  BatchGoesOn
  <2>1. proc["rebuild"] # NoCall
    BY <1>2, ProcessAnswers
  <2>2. /\ cursor' = cursor /\ rebuild.on /\ rebuild'.on
        /\ rebuild'.cursor = rebuild.cursor
        /\ \/ batch' = batch /\ rebuild'.ok = rebuild.ok
           \/ batch' = Tail(batch) /\ rebuild'.ok = (rebuild.ok /\ s # "fallback")
    BY <1>2, <2>1, RebuildResult
  <2>3. batch # <<>> /\ proc["rebuild"].rec = Head(batch)
    BY <2>1 DEF PlaceInv, RebuildPlace
  <2> QED
    BY <1>2, <2>2, <2>3 DEF BatchGoesOn
<1>3. ASSUME NEW s, x = "consumer", Result(x, s)
      PROVE  UNCHANGED rebuildVars
  BY <1>3, ConsumerResult, ProcessAnswers
<1>4. CASE Raise(x) /\ x = "consumer"
  BY <1>1, <1>4 DEF Raise
<1>5. CASE Raise(x) /\ x = "rebuild"
  <2>1. Result(x, "fallback")
    BY <1>5 DEF Raise
  <2> QED
    BY <1>2, <1>5, <2>1
<1>6. x = "consumer" \/ x = "rebuild"
  BY DEF Procs
<1>7. CASE \E s : /\ Result(x, s)
                  /\ s = "fallback" \/ <<proc[x].rec.post, proc[x].rec.text>> \in features'
  <2>1. PICK s : /\ Result(x, s)
                 /\ s = "fallback" \/ <<proc[x].rec.post, proc[x].rec.text>> \in features'
    BY <1>7
  <2> QED
    BY <1>1, <1>2, <1>3, <1>6, <2>1
<1> QED
  BY <1>1, <1>4, <1>5, <1>6, <1>7, ProcessAnswers

\* A step of process: a post is classified beyond every cursor, and the record
\* the rebuild is done with has its vector, unless the batch has failed.
LEMMA ProcessCovers ==
    ASSUME PlaceInv, CoverInv, NEW x \in Procs, Process(x)
    PROVE  CoverInv'
<1> USE DEF CoverInv
<1>0. /\ clock \in Nat /\ cursor \in Nat \X Nat /\ cursor[1] \in Nat
      /\ rebuild.on => rebuild.cursor[1] \in Nat
      /\ \A p \in Posts : Live(p) => row[p].at \in Nat
      /\ \A p \in Posts : write[p].open => write[p].at \in Nat
  BY CoverTypes
<1>1. UNCHANGED <<write, late>> /\ clock' \in {clock, clock + 1}
  BY ProcessWrites DEF Classifies
<1>2. \A p \in Posts :
         /\ Live(p)' <=> Live(p)
         /\ Live(p) => row'[p].text = row[p].text
         /\ row'[p] # row[p] => clock' = clock + 1 /\ row'[p].at = clock + 1
  BY ProcessRow
<1>3. features \subseteq features'
  BY ProcessWrites
<1>4. BatchGoesOn
  BY ProcessBatch
<1> USE DEF BatchGoesOn
<1>5. TimesArePast'
  <2>1. ASSUME NEW p \in Posts, Live(p)' PROVE row'[p].at <= clock'
    <3>1. CASE row'[p] = row[p]
      BY <1>0, <1>1, <1>2, <2>1, <3>1 DEF TimesArePast
    <3>2. CASE row'[p] # row[p]
      BY <1>0, <1>2, <3>2
    <3> QED
      BY <3>1, <3>2
  <2>2. ASSUME NEW p \in Posts, write'[p].open PROVE write'[p].at <= clock'
    BY <1>0, <1>1, <2>2 DEF TimesArePast
  <2>3. cursor'[1] <= clock' /\ (rebuild'.on => rebuild'.cursor[1] <= clock')
    BY <1>0, <1>1, <1>4 DEF TimesArePast
  <2> QED
    BY <2>1, <2>2, <2>3 DEF TimesArePast
<1>6. WritesAreBeyond'
  BY <1>1, <1>4 DEF WritesAreBeyond
<1>7. ASSUME NEW p \in Posts, NEW c, c[1] \in Nat, c[1] <= clock,
             Live(p)', ~Before(c, Key(p)'), p \notin late'
      PROVE  Behind(c, p)
  <2>1. CASE row'[p] = row[p]
    BY <1>1, <1>7, <2>1, <1>2 DEF Behind, Key
  <2>2. CASE row'[p] # row[p]
    BY <1>0, <1>2, <1>7, <2>2 DEF Before, Key
  <2> QED
    BY <2>1, <2>2
<1>8. CheckpointCovers'
  <2> SUFFICES ASSUME NEW p \in Posts, Live(p)', ~Before(cursor', Key(p)'), p \notin late'
               PROVE  <<p, row'[p].text>> \in features'
    BY DEF CheckpointCovers, Has
  <2>1. Behind(cursor, p)
    BY <1>0, <1>4, <1>7 DEF TimesArePast
  <2> QED
    BY <1>2, <1>3, <2>1 DEF CheckpointCovers, Behind, Has
<1>9. BatchCovers'
  <2> SUFFICES ASSUME NEW p \in Posts, rebuild'.on, rebuild'.ok,
                      Live(p)', ~Before(rebuild'.cursor, Key(p)'), p \notin late',
                      <<p, row'[p].text>> \notin features'
               PROVE  Left(p)'
    BY DEF BatchCovers, Behind, Has
  <2>1. Behind(rebuild.cursor, p)
    BY <1>0, <1>4, <1>7 DEF TimesArePast
  <2>2. rebuild.on /\ rebuild.ok
    BY <1>4
  <2>3. Left(p) /\ row'[p].text = row[p].text
    BY <1>2, <1>3, <2>1, <2>2 DEF BatchCovers, Has, Behind
  <2>4. CASE batch' = batch
    BY <2>3, <2>4 DEF Left
  <2>5. CASE batch' # batch
    <3>1. /\ batch' = Tail(batch) /\ batch # <<>>
          /\ <<Head(batch).post, Head(batch).text>> \in features'
      BY <1>4, <2>5
    <3>2. PICK i \in 1..Len(batch) : batch[i].post = p /\ batch[i].text = row[p].text
      BY <2>3 DEF Left
    <3>3. batch \in Seq(Records) /\ Len(batch) \in Nat
      BY CoverTypes
    <3>4. Head(batch) = batch[1]
      BY <3>1, <3>3
    <3>5. i # 1
      BY <2>3, <3>1, <3>2, <3>4
    <3>6. i - 1 \in 1..Len(batch') /\ batch'[i - 1] = batch[i]
      BY <3>1, <3>2, <3>3, <3>5
    <3> QED
      BY <2>3, <3>2, <3>6 DEF Left
  <2> QED
    BY <2>4, <2>5
<1> QED
  BY <1>5, <1>6, <1>8, <1>9

\* A step that touches neither posts, writes, vectors nor the rebuild.
LEMMA CoverFrame ==
    ASSUME CoverInv, UNCHANGED <<row, write, features, batch, rebuild, cursor, late, clock>>
    PROVE  CoverInv'
  BY DEF CoverInv, TimesArePast, WritesAreBeyond, BatchCovers, CheckpointCovers, Behind,
         Has, Left, Live, Key

\* A new write is stamped after every cursor.
LEMMA BeginWriteCovers ==
    ASSUME PlaceInv, CoverInv, NEW q \in Posts, NEW w, BeginWrite(q, w[1], w[2])
    PROVE  CoverInv'
<1> USE DEF CoverInv
<1>1. /\ clock' = clock + 1
      /\ write' = [write EXCEPT ![q] = [open |-> TRUE, text |-> w[1], topics |-> w[2],
                                        at |-> clock + 1, over |-> FALSE]]
      /\ UNCHANGED <<row, features, batch, rebuild, cursor, late>>
  BY DEF BeginWrite, rebuildVars
<1>2. /\ clock \in Nat /\ cursor[1] \in Nat /\ (rebuild.on => rebuild.cursor[1] \in Nat)
      /\ \A p \in Posts : Live(p) => row[p].at \in Nat
      /\ \A p \in Posts : write[p].open => write[p].at \in Nat
      /\ write \in [Posts -> {NoWrite} \cup OpenWrites]
  BY CoverTypes
<1>3. \A p \in Posts : p # q => write'[p] = write[p]
  BY <1>1, <1>2
<1>4. write'[q].at = clock + 1
  BY <1>1, <1>2
<1>5. TimesArePast'
  <2>1. ASSUME NEW p \in Posts, Live(p)' PROVE row'[p].at <= clock'
    BY <1>1, <1>2, <2>1 DEF TimesArePast, Live
  <2>2. ASSUME NEW p \in Posts, write'[p].open PROVE write'[p].at <= clock'
    BY <1>1, <1>2, <1>3, <1>4, <2>2 DEF TimesArePast
  <2>3. cursor'[1] <= clock' /\ (rebuild'.on => rebuild'.cursor[1] <= clock')
    BY <1>1, <1>2 DEF TimesArePast
  <2> QED
    BY <2>1, <2>2, <2>3 DEF TimesArePast
<1>6. WritesAreBeyond'
  <2> SUFFICES ASSUME NEW p \in Posts, write'[p].open, ~write'[p].over
               PROVE  /\ cursor[1] < write'[p].at
                      /\ rebuild.on => rebuild.cursor[1] < write'[p].at
    BY <1>1 DEF WritesAreBeyond
  <2>1. CASE p = q
    BY <1>2, <1>4, <2>1 DEF TimesArePast
  <2>2. CASE p # q
    BY <1>3, <2>2 DEF WritesAreBeyond
  <2> QED
    BY <2>1, <2>2
<1>7. BatchCovers' /\ CheckpointCovers'
  BY <1>1 DEF BatchCovers, CheckpointCovers, Behind, Has, Left, Live, Key
<1> QED
  BY <1>5, <1>6, <1>7

\* A write that commits is beyond every cursor, or is remembered as late.
LEMMA CommitWriteCovers ==
    ASSUME PlaceInv, CoverInv, NEW q \in Posts, CommitWrite(q)
    PROVE  CoverInv'
<1> USE DEF CoverInv
<1>1. /\ write[q].open
      /\ row' = [row EXCEPT ![q] = Edited(q, write[q].text, write[q].topics)]
      /\ write' = [write EXCEPT ![q] = NoWrite]
      /\ late' = IF write[q].over THEN late \cup {q} ELSE late \ {q}
      /\ UNCHANGED <<features, batch, rebuild, cursor, clock>>
  BY DEF CommitWrite, rebuildVars
<1>2. /\ clock \in Nat /\ cursor[1] \in Nat /\ (rebuild.on => rebuild.cursor[1] \in Nat)
      /\ row \in [Posts -> {Absent, Gone} \cup LiveRows]
      /\ write \in [Posts -> {NoWrite} \cup OpenWrites]
  BY CoverTypes
<1>3. \A p \in Posts : p # q => row'[p] = row[p] /\ write'[p] = write[p]
                                /\ (p \in late' <=> p \in late)
  BY <1>1, <1>2
<1>4. row'[q].at = write[q].at /\ ~write'[q].open
  BY <1>1, <1>2, EditedRow DEF NoWrite
<1>5. TimesArePast'
  <2>1. ASSUME NEW p \in Posts, Live(p)' PROVE row'[p].at <= clock'
    BY <1>1, <1>3, <1>4, <2>1 DEF TimesArePast, Live
  <2>2. ASSUME NEW p \in Posts, write'[p].open PROVE write'[p].at <= clock'
    BY <1>1, <1>3, <1>4, <2>2 DEF TimesArePast
  <2> QED
    BY <1>1, <2>1, <2>2 DEF TimesArePast
<1>6. WritesAreBeyond'
  BY <1>1, <1>3, <1>4 DEF WritesAreBeyond
<1>7. ASSUME NEW p \in Posts, NEW c, c = cursor \/ (rebuild.on /\ c = rebuild.cursor),
             Live(p)', ~Before(c, Key(p)'), p \notin late'
      PROVE  p # q /\ Behind(c, p)
  <2>1. CASE p = q
    <3>1. ~write[q].over
      BY <1>1, <1>7, <2>1
    <3>2. c[1] < write[q].at
      BY <1>1, <1>7, <3>1 DEF WritesAreBeyond
    <3> QED
      BY <1>4, <1>7, <2>1, <3>2 DEF Before, Key
  <2>2. CASE p # q
    BY <1>3, <1>7, <2>2 DEF Behind, Live, Key
  <2> QED
    BY <2>1, <2>2
<1>8. CheckpointCovers'
  <2> SUFFICES ASSUME NEW p \in Posts, Live(p)', ~Before(cursor, Key(p)'), p \notin late'
               PROVE  <<p, row'[p].text>> \in features
    BY <1>1 DEF CheckpointCovers, Has
  <2>1. p # q /\ Behind(cursor, p)
    BY <1>7
  <2> QED
    BY <1>3, <2>1 DEF CheckpointCovers, Behind, Has
<1>9. BatchCovers'
  <2> SUFFICES ASSUME NEW p \in Posts, rebuild.on, rebuild.ok,
                      Live(p)', ~Before(rebuild.cursor, Key(p)'), p \notin late'
               PROVE  <<p, row'[p].text>> \in features \/ Left(p)'
    BY <1>1 DEF BatchCovers, Behind, Has
  <2>1. p # q /\ Behind(rebuild.cursor, p)
    BY <1>7
  <2>2. Has(p, row[p].text) \/ Left(p)
    BY <2>1 DEF BatchCovers
  <2> QED
    BY <1>1, <1>3, <2>1, <2>2 DEF Has, Left
<1> QED
  BY <1>5, <1>6, <1>8, <1>9

\* A deleted post takes its own vectors with it only.
LEMMA DeleteCovers ==
    ASSUME PlaceInv, CoverInv, NEW q \in Posts, Delete(q)
    PROVE  CoverInv'
<1> USE DEF CoverInv
<1>1. /\ row' = [row EXCEPT ![q] = Gone]
      /\ write' = [write EXCEPT ![q] = NoWrite]
      /\ features' = {f \in features : f[1] # q}
      /\ UNCHANGED <<batch, rebuild, cursor, late, clock>>
  BY DEF Delete, rebuildVars
<1>2. \A p \in Posts : /\ Live(p)' => p # q /\ row'[p] = row[p] /\ Live(p)
                       /\ write'[p].open => write'[p] = write[p]
  BY <1>1, CoverTypes DEF Live, Gone, NoWrite
<1>3. \A p \in Posts : \A text : p # q /\ <<p, text>> \in features => <<p, text>> \in features'
  BY <1>1
<1>4. TimesArePast' /\ WritesAreBeyond'
  BY <1>1, <1>2 DEF TimesArePast, WritesAreBeyond
<1>5. CheckpointCovers'
  BY <1>1, <1>2, <1>3 DEF CheckpointCovers, Has, Key
<1>6. BatchCovers'
  <2> SUFFICES ASSUME NEW p \in Posts, rebuild.on, rebuild.ok,
                      Live(p)', ~Before(rebuild.cursor, Key(p)'), p \notin late
               PROVE  <<p, row'[p].text>> \in features' \/ Left(p)'
    BY <1>1 DEF BatchCovers, Behind, Has
  <2>1. Behind(rebuild.cursor, p) /\ row'[p] = row[p] /\ p # q
    BY <1>2 DEF Behind, Key
  <2>2. Has(p, row[p].text) \/ Left(p)
    BY <2>1 DEF BatchCovers
  <2> QED
    BY <1>1, <1>3, <2>1, <2>2 DEF Has, Left
<1> QED
  BY <1>4, <1>5, <1>6

\* The rebuild takes a batch: what its cursor claims beyond the one on disk is in
\* the batch, and every write still open is marked.
LEMMA FetchBatchCovers ==
    ASSUME PlaceInv, CoverInv, FetchBatch
    PROVE  CoverInv'
<1> USE DEF CoverInv
<1>1. PICK posts \in BatchAfter(cursor) :
         /\ NextRecord([i \in 1..Len(posts) |-> RecordOf(posts[i])])
         /\ rebuild' = [on |-> TRUE, cursor |-> Key(posts[Len(posts)]),
                        tries |-> 0, ok |-> TRUE]
  BY DEF FetchBatch
<1>2. /\ write' = [p \in Posts |-> IF write[p].open
                                   THEN [write[p] EXCEPT !.over = TRUE] ELSE write[p]]
      /\ UNCHANGED <<row, cursor, features, late, clock>>
  BY DEF FetchBatch
<1>3. PICK records : records = [i \in 1..Len(posts) |-> RecordOf(posts[i])]
  OBVIOUS
<1>4. /\ Len(posts) \in Nat /\ Len(posts) >= 1
      /\ \A i \in 1..Len(posts) : posts[i] \in Posts /\ Live(posts[i])
      /\ Len(records) = Len(posts)
      /\ \A i \in 1..Len(posts) : records[i] = RecordOf(posts[i])
      /\ \A p \in Beyond(cursor) :
            \/ \E i \in 1..Len(posts) : posts[i] = p
            \/ Before(Key(posts[Len(posts)]), Key(p))
  BY <1>1, <1>3, BatchShape
<1>5. batch' = records
  BY <1>1, <1>3 DEF NextRecord
<1>6. rebuild'.on /\ rebuild'.cursor = Key(posts[Len(posts)])
  BY <1>1
<1>7. \A p \in Posts : write'[p].open => /\ write[p].open /\ write'[p].over
                                         /\ write'[p].at = write[p].at
  <2>1. \A w \in OpenWrites : /\ [w EXCEPT !.over = TRUE].over = TRUE
                              /\ [w EXCEPT !.over = TRUE].at = w.at
    BY DEF OpenWrites
  <2> QED
    BY <1>2, <2>1, Shapes DEF PlaceInv
<1>8. TimesArePast'
  <2>1. rebuild'.cursor[1] <= clock
    <3>1. PICK p \in Posts : p = posts[Len(posts)] /\ Live(p)
      BY <1>4
    <3> QED
      BY <1>6, <3>1 DEF TimesArePast, Key
  <2> QED
    BY <1>2, <1>7, <2>1 DEF TimesArePast, Live
<1>9. WritesAreBeyond'
  BY <1>7 DEF WritesAreBeyond
<1>10. CheckpointCovers'
  BY <1>2 DEF CheckpointCovers, Has, Live, Key
<1>11. BatchCovers'
  <2> SUFFICES ASSUME NEW p \in Posts, Live(p), p \notin late,
                      ~Before(Key(posts[Len(posts)]), Key(p))
               PROVE  Has(p, row[p].text) \/ Left(p)'
    BY <1>2, <1>6 DEF BatchCovers, Behind, Has, Live, Key
  <2>1. CASE ~Before(cursor, Key(p))
    BY <2>1 DEF CheckpointCovers
  <2>2. CASE Before(cursor, Key(p))
    <3>1. p \in Beyond(cursor)
      BY <2>2 DEF Beyond
    <3>2. PICK i \in 1..Len(posts) : posts[i] = p
      BY <1>4, <3>1
    <3>3. i \in 1..Len(batch') /\ batch'[i] = RecordOf(p)
      BY <1>4, <1>5, <3>2
    <3>4. batch'[i].post = p /\ batch'[i].text = row'[p].text
      BY <1>2, <3>3 DEF RecordOf
    <3> QED
      BY <3>3, <3>4 DEF Left
  <2> QED
    BY <2>1, <2>2
<1> QED
  BY <1>8, <1>9, <1>10, <1>11

\* The checkpoint is saved: the batch is empty, so all its cursor claims is done.
LEMMA EndBatchCovers ==
    ASSUME PlaceInv, CoverInv, EndBatch
    PROVE  CoverInv'
<1> USE DEF CoverInv
<1>1. /\ rebuild.on /\ batch = <<>> /\ rebuild' = Off
      /\ cursor' = IF rebuild.ok THEN rebuild.cursor ELSE cursor
      /\ UNCHANGED <<row, write, features, late, clock>>
  BY DEF EndBatch, contentVars
<1>2. ~rebuild'.on
  BY <1>1 DEF Off
<1>3. TimesArePast' /\ WritesAreBeyond'
  BY <1>1, <1>2 DEF TimesArePast, WritesAreBeyond, Live
<1>4. BatchCovers'
  BY <1>2 DEF BatchCovers
<1>5. CheckpointCovers'
  <2>1. CASE rebuild.ok
    <3>1. \A p \in Posts : ~Left(p)
      BY <1>1 DEF Left
    <3> QED
      BY <1>1, <2>1, <3>1 DEF BatchCovers, CheckpointCovers, Behind, Has, Live, Key
  <2>2. CASE ~rebuild.ok
    BY <1>1, <2>2 DEF CheckpointCovers, Has, Live, Key
  <2> QED
    BY <2>1, <2>2
<1> QED
  BY <1>3, <1>4, <1>5

\* A killed rebuild leaves the checkpoint on disk as it was.
LEMMA KillRebuildCovers ==
    ASSUME CoverInv, KillRebuild
    PROVE  CoverInv'
<1> USE DEF CoverInv
<1>1. /\ rebuild' = Off
      /\ UNCHANGED <<row, write, features, late, clock, cursor>>
  BY DEF KillRebuild, contentVars
<1>2. ~rebuild'.on
  BY <1>1 DEF Off
<1> QED
  BY <1>1, <1>2 DEF TimesArePast, WritesAreBeyond, BatchCovers, CheckpointCovers,
                    Has, Live, Key

\* Every step keeps what the checkpoint claims.
LEMMA CoverNext == PlaceInv /\ CoverInv /\ [Next]_vars => CoverInv'
<1> SUFFICES ASSUME PlaceInv, CoverInv, [Next]_vars PROVE CoverInv'
  OBVIOUS
<1>1. CASE Author
  <2>1. ASSUME NEW p \in Posts, NEW d \in BOOLEAN, Announce(p, d)
        PROVE  CoverInv'
    BY <2>1, CoverFrame DEF Announce, rebuildVars
  <2> QED
    BY <1>1, <2>1, BeginWriteCovers, CommitWriteCovers, DeleteCovers DEF Author
<1>2. CASE Flush \/ LoadPost \/ CommitOffset \/ Reconnect
  BY <1>2, CoverFrame DEF Flush, LoadPost, CommitOffset, Reconnect, contentVars, rebuildVars
<1>3. CASE UNCHANGED vars
  BY <1>3, CoverFrame DEF vars, contentVars, rebuildVars
<1>4. CASE FetchBatch \/ EndBatch \/ KillRebuild
  BY <1>4, FetchBatchCovers, EndBatchCovers, KillRebuildCovers
<1>5. ASSUME NEW x \in Procs, Process(x) PROVE CoverInv'
  BY <1>5, ProcessCovers
<1> QED
  BY <1>1, <1>2, <1>3, <1>4, <1>5 DEF Next, Consumer, Procs

\* At first nothing is claimed.
LEMMA CoverInit == Init => CoverInv
<1> SUFFICES ASSUME Init PROVE CoverInv
  OBVIOUS
<1>1. TimesArePast /\ WritesAreBeyond /\ BatchCovers /\ CheckpointCovers
  BY DEF Init, TimesArePast, WritesAreBeyond, BatchCovers, CheckpointCovers, Live, Absent,
         NoWrite, Off, Start
<1> QED
  BY <1>1 DEF CoverInv

\* For any number of posts and writes, any batch size and number of retries, the
\* checkpoint on disk covers what is behind it, whatever is edited, deleted or
\* classified while the rebuild runs or after it is killed, except the late
\* commits (BatchRebuilder.run, JsonCheckpoint.save, fetch_batch).
THEOREM ContentCheckpointCovers == Spec => []CheckpointCovers
<1>1. CoverInv => CheckpointCovers
  BY DEF CoverInv
<1> QED
  BY <1>1, CoverInit, CoverNext, ContentPlaceInvariant, PTL DEF Spec
=============================================================================
