----------------------- MODULE OfflinePipelineProofs ------------------------
(***************************************************************************)
(* Proofs about ModelSearch, ModelRelease, RankingDataset and              *)
(* DatasetSplit.                                                           *)
(*                                                                         *)
(* The search: the holdout is opened once, trials are fitted on the        *)
(* embeddings that are registered, and a search without a fault can go on, *)
(* for any number of processes, configurations and scores.                 *)
(*                                                                         *)
(* The release: a resumed training is exact and a model is approved on its *)
(* evidence, for any number of versions, outputs, epochs, builds, kills    *)
(* and windows.                                                            *)
(*                                                                         *)
(* The dataset: a row holds nothing of the future, the history and the     *)
(* text a model was served with are those it is trained with, and a build  *)
(* can be repeated, for any posts, texts, requests, windows and limits,    *)
(* and for any lag.                                                        *)
(*                                                                         *)
(* The splits: nothing of a later split is as old as anything of an        *)
(* earlier one, for datasets of any length.                                *)
(***************************************************************************)
EXTENDS ModelSearch, ModelRelease, RankingDataset, DatasetSplit, FiniteSetTheorems,
        WellFoundedInduction, TLAPS

(***************************************************************************)
(* The search                                                              *)
(***************************************************************************)

Files == Processes \cup {None, Torn}
Protocols == [dataset : Files, vectors : Files]
Trials == [name : Names, score : Scores, vectors : Files, claims : Files]
Points == {"idle", "salt", "dataset", "dataset open", "register", "register open",
           "encode", "replace", "audit", "ready", "ready open",
           "train", "export", "report", "report open",
           "freeze", "freeze open", "select", "select open",
           "open", "evaluate", "target", "target open"}
Lists == Seq(Names)
Winners == Trials \cup {ParentModel, None}
Readings == Protocols \cup {None}
Stages == [pc : Points, todo : Lists, read : Readings, vectors : Files,
           model : Winners]

SearchTypeOK ==
    /\ dataset \in Files /\ embeddings \in Files
    /\ protocol \in Protocols \cup {None, Torn}
    /\ models \in [Names -> Trials \cup {None}]
    /\ reports \in [Names -> Trials \cup {None, Torn}]
    /\ benchmark \in BOOLEAN
    /\ proc \in [Processes -> Stages]

\* Contents are neither no file nor a torn one.
LEMMA Contents ==
    /\ \A p \in Processes : p # None
    /\ \A x \in Protocols : x \notin {None, Torn}
    /\ \A m \in Trials \cup {ParentModel} : m \notin {None, Torn}
BY ContentsAssumption DEF Files, Protocols, Trials, ParentModel

\* What a stage has read or made by the time it gets to a point.
LocalOK(p) ==
    /\ proc[p].pc \in {"encode", "replace", "audit", "ready", "ready open",
                       "train", "export", "report", "report open"}
         => proc[p].read \in Protocols
    /\ proc[p].pc \in {"export", "report", "report open"}
         => proc[p].todo # <<>> /\ proc[p].model \in Trials
    /\ proc[p].pc \in {"freeze", "freeze open"}
         => \/ proc[p].pc = "freeze" /\ proc[p].model = ParentModel
            \/ /\ proc[p].model \in Trials
               /\ models[proc[p].model.name] # None
LocalsOK == \A p \in Processes : LocalOK(p)

\* At most one process gets past the creation of the directory model, and
\* selection.json is its work.
Freezing(p) == proc[p].pc \in {"freeze open", "select", "select open"}
FrozenOnce ==
    /\ chosen = None => selection = None
    /\ \A p \in Processes : Freezing(p) => chosen # None
    /\ \A p, q \in Processes : Freezing(p) /\ Freezing(q) => p = q
    /\ \A p \in Processes :
         /\ proc[p].pc \in {"freeze open", "select"} => selection = None
         /\ proc[p].pc = "select open" => selection = Torn

\* At most one process gets past the creation of the directory benchmark, with
\* the frozen model before it.
SealedOnce ==
    /\ \A p \in Processes : proc[p].pc \in {"open", "evaluate"} =>
         Whole(selection) /\ selection = chosen
    /\ \A p \in Processes : proc[p].pc = "evaluate" => benchmark /\ opened = <<>>
    /\ \A p, q \in Processes :
         proc[p].pc = "evaluate" /\ proc[q].pc = "evaluate" => p = q
    /\ ~benchmark => opened = <<>>
    /\ opened # <<>> => opened = <<selection>> /\ Whole(selection)

SearchInv == SearchTypeOK /\ LocalsOK /\ FrozenOnce /\ SealedOnce

\* Only process p moves.
Alone(p) == \A q \in Processes \ {p} : proc'[q] = proc[q]

\* A process that goes on keeps everything but its program counter.
LEMMA Goes ==
    ASSUME SearchTypeOK, NEW p \in Processes, NEW pc \in Points, GoTo(p, pc)
    PROVE  /\ proc' \in [Processes -> Stages] /\ Alone(p)
           /\ proc'[p].pc = pc
           /\ proc'[p].todo = proc[p].todo /\ proc'[p].read = proc[p].read
           /\ proc'[p].model = proc[p].model /\ proc'[p].vectors = proc[p].vectors
BY DEF SearchTypeOK, GoTo, Alone, Stages

\* A process that ends is idle, and the others stay.
LEMMA Exits ==
    ASSUME SearchTypeOK, NEW p \in Processes, Exit(p)
    PROVE  /\ proc' \in [Processes -> Stages] /\ Alone(p)
           /\ proc'[p].pc = "idle"
<1>1. NoProcess \in Stages
    <2>1. <<>> \in Lists /\ "idle" \in Points
        BY DEF Points, Lists
    <2>2. QED
        BY <2>1 DEF NoProcess, Stages, Files, Winners, Readings
<1>2. QED
    BY <1>1 DEF SearchTypeOK, Exit, Alone, NoProcess

\* The other stages keep what they have read, and a trial that is there stays.
LEMMA Others ==
    ASSUME SearchTypeOK, SearchTypeOK', LocalsOK, NEW p \in Processes, Alone(p),
           \A c \in Names : models[c] # None => models'[c] # None,
           LocalOK(p)'
    PROVE  LocalsOK'
<1> SUFFICES ASSUME NEW q \in Processes, q # p PROVE LocalOK(q)'
    BY DEF LocalsOK
<1>1. proc'[q] = proc[q] /\ LocalOK(q)
    BY DEF Alone, LocalsOK
<1>2. proc[q].model \in Trials => proc[q].model.name \in Names
    BY DEF Trials
<1>3. QED
    BY <1>1, <1>2 DEF LocalOK

\* A process that is neither freezing nor opening leaves both seals alone.
LEMMA Aside ==
    ASSUME SearchTypeOK, FrozenOnce, SealedOnce, NEW p \in Processes, Alone(p),
           proc'[p].pc \notin {"freeze open", "select", "select open", "open",
                               "evaluate"},
           UNCHANGED <<chosen, selection, benchmark, opened>>
    PROVE  FrozenOnce' /\ SealedOnce'
<1>1. FrozenOnce'
    BY DEF FrozenOnce, Freezing, Alone
<1>2. SealedOnce'
    BY DEF SealedOnce, Alone, Whole
<1>3. QED
    BY <1>1, <1>2

\* An empty directory satisfies the invariant.
LEMMA SearchInitially ==
    Init => SearchInv
<1> SUFFICES ASSUME Init PROVE SearchInv
    OBVIOUS
<1>1. NoProcess \in Stages /\ NoProcess.pc = "idle"
    <2>1. <<>> \in Lists /\ "idle" \in Points
        BY DEF Points, Lists
    <2>2. QED
        BY <2>1 DEF NoProcess, Stages, Files, Winners, Readings
<1>2. SearchTypeOK
    BY <1>1 DEF Init, SearchTypeOK, Files
<1>3. \A p \in Processes : proc[p].pc = "idle"
    BY <1>1 DEF Init
<1>4. LocalsOK
    BY <1>3 DEF LocalsOK, LocalOK
<1>5. FrozenOnce
    BY <1>3 DEF Init, FrozenOnce, Freezing
<1>6. SealedOnce
    BY <1>3 DEF Init, SealedOnce
<1>7. QED
    BY <1>2, <1>4, <1>5, <1>6 DEF SearchInv

\* A step of a stage that is neither freezing nor opening.
LEMMA AsideStep ==
    ASSUME SearchInv, NEW p \in Processes, SearchTypeOK', Alone(p), LocalOK(p)',
           \A c \in Names : models[c] # None => models'[c] # None,
           proc'[p].pc \notin {"freeze open", "select", "select open", "open",
                               "evaluate"},
           UNCHANGED <<chosen, selection, benchmark, opened>>
    PROVE  SearchInv'
BY Others, Aside DEF SearchInv

\* --stage prepare
LEMMA PrepareStep ==
    ASSUME SearchInv, NEW p \in Processes,
           Prepare(p) \/ StoreSalt(p) \/ WriteDataset(p) \/ WriteProtocol(p)
    PROVE  SearchInv'
<1>0. SearchTypeOK
    BY DEF SearchInv
<1>1. UNCHANGED <<embeddings, models, reports, chosen, selection, benchmark, opened>>
    BY DEF Prepare, StoreSalt, WriteDataset, WriteProtocol, trials, frozen, sealed
<1>2. /\ proc' \in [Processes -> Stages] /\ Alone(p)
      /\ proc'[p].pc \in {"idle", "salt", "dataset", "dataset open", "register",
                          "register open"}
    BY <1>0, Goes, Exits DEF Prepare, StoreSalt, WriteDataset, WriteProtocol, Points
<1>3. dataset' \in Files
    BY <1>0 DEF Prepare, StoreSalt, WriteDataset, WriteProtocol, prepared,
                SearchTypeOK, Files
<1>4. protocol' \in Protocols \cup {None, Torn}
    <2>1. CASE WriteProtocol(p)
        <3>1. [dataset |-> dataset, vectors |-> None] \in Protocols
            BY <1>0 DEF SearchTypeOK, Protocols, Files
        <3>2. QED
            BY <2>1, <3>1 DEF WriteProtocol
    <2>2. QED
        BY <1>0, <2>1 DEF Prepare, StoreSalt, WriteDataset, SearchTypeOK
<1>5. SearchTypeOK'
    BY <1>0, <1>1, <1>2, <1>3, <1>4 DEF SearchTypeOK
<1>6. LocalOK(p)'
    BY <1>2 DEF LocalOK
<1>7. QED
    BY <1>1, <1>2, <1>5, <1>6, AsideStep

\* --stage encode
LEMMA EncodeStep ==
    ASSUME SearchInv, NEW p \in Processes,
           \/ Encode(p) \/ CacheEmbeddings(p) \/ ReadChecksum(p)
           \/ RegisterEmbeddings(p)
    PROVE  SearchInv'
<1>0. SearchTypeOK /\ LocalOK(p)
    BY DEF SearchInv, LocalsOK
<1>1. UNCHANGED <<dataset, models, reports, chosen, selection, benchmark, opened>>
    BY DEF Encode, CacheEmbeddings, ReadChecksum, RegisterEmbeddings, prepared,
           trials, frozen, sealed
<1>2. /\ proc' \in [Processes -> Stages] /\ Alone(p)
      /\ proc'[p].pc \in {"idle", "encode", "replace", "audit", "ready", "ready open"}
      /\ proc'[p].pc # "idle" => proc'[p].read \in Protocols
    <2>1. CASE Encode(p)
        <3>1. protocol \in Protocols
            BY <1>0, <2>1 DEF Encode, CheckedInputs, Whole, SearchTypeOK
        <3>2. proc' = [proc EXCEPT ![p].pc = "encode", ![p].read = protocol]
            BY <2>1 DEF Encode
        <3>3. QED
            BY <1>0, <3>1, <3>2 DEF SearchTypeOK, Stages, Points, Alone, Readings
    <2>2. CASE CacheEmbeddings(p)
        <3>1. proc[p].read \in Protocols
            BY <1>0, <2>2 DEF CacheEmbeddings, Running, LocalOK
        <3>2. GoTo(p, "replace") \/ GoTo(p, "audit") \/ Exit(p)
            BY <2>2 DEF CacheEmbeddings
        <3>3. QED
            BY <1>0, <3>1, <3>2, Goes, Exits DEF Points
    <2>3. CASE ReadChecksum(p)
        <3>1. proc[p].read \in Protocols
            BY <1>0, <2>3 DEF ReadChecksum, Running, LocalOK
        <3>2. proc' = [proc EXCEPT ![p].pc = "ready", ![p].vectors = embeddings]
            BY <2>3 DEF ReadChecksum
        <3>3. QED
            BY <1>0, <3>1, <3>2 DEF SearchTypeOK, Stages, Points, Alone
    <2>4. CASE RegisterEmbeddings(p)
        BY <1>0, <2>4, Goes, Exits DEF RegisterEmbeddings, Running, LocalOK, Points
    <2>5. QED
        BY <2>1, <2>2, <2>3, <2>4
<1>3. embeddings' \in Files
    <2>1. embeddings \in Files /\ p \in Files /\ Torn \in Files /\ Writers \subseteq Files
        BY <1>0 DEF SearchTypeOK, Files, Writers
    <2> QED
        BY <2>1 DEF Encode, CacheEmbeddings, ReadChecksum, RegisterEmbeddings
<1>4. protocol' \in Protocols \cup {None, Torn}
    <2>1. CASE RegisterEmbeddings(p)
        <3>1. proc[p].vectors \in Files
            BY <1>0 DEF SearchTypeOK, Stages
        <3>2. CASE Running(p, "ready open")
            <4>1. proc[p].read \in Protocols
                BY <1>0, <3>2 DEF Running, LocalOK
            <4>2. [proc[p].read EXCEPT !.vectors = proc[p].vectors] \in Protocols
                BY <3>1, <4>1 DEF Protocols
            <4>3. QED
                BY <2>1, <3>2, <4>2 DEF RegisterEmbeddings, Running
        <3>3. QED
            BY <2>1, <3>2 DEF RegisterEmbeddings
    <2>2. QED
        BY <1>0, <2>1 DEF Encode, CacheEmbeddings, ReadChecksum, SearchTypeOK
<1>5. SearchTypeOK'
    BY <1>0, <1>1, <1>2, <1>3, <1>4 DEF SearchTypeOK
<1>6. LocalOK(p)'
    BY <1>2 DEF LocalOK
<1>7. QED
    BY <1>1, <1>2, <1>5, <1>6, AsideStep

\* --stage train: a trial is exported once, and its report names a configuration.
LEMMA TrainStep ==
    ASSUME SearchInv, NEW p \in Processes, NEW todo \in Lists, Train(p, todo)
    PROVE  SearchInv'
<1>0. SearchTypeOK
    BY DEF SearchInv
<1>1. /\ UNCHANGED <<dataset, protocol, embeddings, models, reports>>
      /\ UNCHANGED <<chosen, selection, benchmark, opened>>
    BY DEF Train, prepared, trials, frozen, sealed
<1>2. protocol \in Protocols /\ embeddings \in Files
    BY <1>0 DEF Train, VectorsReady, CheckedInputs, Whole, SearchTypeOK
<1>3. proc' = [proc EXCEPT ![p].pc = "train", ![p].todo = todo,
                           ![p].read = protocol, ![p].vectors = embeddings]
    BY DEF Train
<1>4. /\ proc' \in [Processes -> Stages] /\ Alone(p)
      /\ proc'[p].pc = "train" /\ proc'[p].read = protocol
    <2>1. "train" \in Points /\ protocol \in Readings
        BY <1>2 DEF Points, Readings
    <2> DEFINE new == [proc[p] EXCEPT !.pc = "train", !.todo = todo,
                                      !.read = protocol, !.vectors = embeddings]
    <2>2. proc[p] \in Stages /\ proc \in [Processes -> Stages]
        BY <1>0 DEF SearchTypeOK
    <2>3. new \in Stages /\ new.pc = "train" /\ new.read = protocol
        BY <1>2, <2>1, <2>2 DEF Stages
    <2>4. proc' = [proc EXCEPT ![p] = new]
        BY <1>3, <2>2
    <2> HIDE DEF new
    <2>5. proc' \in [Processes -> Stages] /\ Alone(p) /\ proc'[p] = new
        BY <2>2, <2>3, <2>4 DEF Alone
    <2>6. QED
        BY <2>3, <2>5
<1>5. SearchTypeOK'
    BY <1>0, <1>1, <1>4 DEF SearchTypeOK
<1>6. LocalOK(p)'
    BY <1>2, <1>4 DEF LocalOK
<1>7. QED
    BY <1>1, <1>4, <1>5, <1>6, AsideStep

\* A fit makes a model of the configuration at the head of the list.
LEMMA FitStep ==
    ASSUME SearchInv, NEW p \in Processes, FitCandidate(p)
    PROVE  SearchInv'
<1>0. SearchTypeOK /\ LocalOK(p)
    BY DEF SearchInv, LocalsOK
<1>1. /\ UNCHANGED <<dataset, protocol, embeddings, models, reports>>
      /\ UNCHANGED <<chosen, selection, benchmark, opened>>
    BY DEF FitCandidate, prepared, trials, frozen, sealed
<1>2. /\ proc[p].read \in Protocols /\ proc[p].pc = "train"
      /\ proc[p] \in Stages /\ proc[p].todo \in Lists
    BY <1>0 DEF FitCandidate, Running, LocalOK, SearchTypeOK, Stages
<1>3. /\ proc' \in [Processes -> Stages] /\ Alone(p)
      /\ proc'[p].pc \in {"idle", "train", "export"}
      /\ proc'[p].pc # "idle" => proc'[p].read \in Protocols
      /\ proc'[p].pc = "export" => proc'[p].todo # <<>> /\ proc'[p].model \in Trials
    <2>1. CASE Exit(p)
        BY <1>0, <2>1, Exits
    <2>2. CASE /\ proc[p].todo # <<>>
               /\ proc' = [proc EXCEPT ![p].todo = Tail(proc[p].todo)]
        <3>1. Tail(proc[p].todo) \in Lists
            BY <1>2, <2>2 DEF Lists
        <3>2. QED
            BY <1>0, <1>2, <2>2, <3>1 DEF SearchTypeOK, Stages, Alone
    <2>3. ASSUME proc[p].todo # <<>>, NEW score \in Scores,
                 proc' = [proc EXCEPT ![p].pc = "export",
                                      ![p].model = Fitted(p, score)]
          PROVE  /\ proc' \in [Processes -> Stages] /\ Alone(p)
                 /\ proc'[p].pc = "export"
                 /\ proc'[p].read = proc[p].read /\ proc'[p].todo = proc[p].todo
                 /\ proc'[p].model \in Trials
        <3>1. Head(proc[p].todo) \in Names
            BY <1>2, <2>3 DEF Lists
        <3>2. proc[p].vectors \in Files /\ proc[p].read.vectors \in Files
            BY <1>2 DEF Stages, Protocols
        <3>3. Fitted(p, score) \in Trials
            BY <3>1, <3>2 DEF Fitted, Trials
        <3>4. Fitted(p, score) \in Winners /\ "export" \in Points
            BY <3>3 DEF Winners, Points
        <3>5. QED
            BY <1>0, <2>3, <3>3, <3>4 DEF SearchTypeOK, Stages, Alone
    <2>4. CASE \E score \in Scores : proc[p].todo # <<>> /\
                  proc' = [proc EXCEPT ![p].pc = "export",
                                       ![p].model = Fitted(p, score)]
        BY <1>2, <2>3, <2>4
    <2>5. QED
        BY <2>1, <2>2, <2>4 DEF FitCandidate
<1>4. SearchTypeOK'
    BY <1>0, <1>1, <1>3 DEF SearchTypeOK
<1>5. LocalOK(p)'
    BY <1>3 DEF LocalOK
<1>6. QED
    BY <1>1, <1>3, <1>4, <1>5, AsideStep

\* An export does not touch a model that is there.
LEMMA ExportStep ==
    ASSUME SearchInv, NEW p \in Processes, ExportTrial(p)
    PROVE  SearchInv'
<1>0. SearchTypeOK /\ LocalOK(p)
    BY DEF SearchInv, LocalsOK
<1>1. /\ UNCHANGED <<dataset, protocol, embeddings, reports>>
      /\ UNCHANGED <<chosen, selection, benchmark, opened>>
    BY DEF ExportTrial, prepared, frozen, sealed
<1>2. /\ proc[p].read \in Protocols /\ proc[p].todo # <<>>
      /\ proc[p].model \in Trials /\ proc[p].todo \in Lists
    BY <1>0 DEF ExportTrial, Running, LocalOK, SearchTypeOK, Stages
<1>3. Head(proc[p].todo) \in Names
    BY <1>2 DEF Lists
<1>4. /\ models' \in [Names -> Trials \cup {None}]
      /\ \A c \in Names : models[c] # None => models'[c] # None
    BY <1>0, <1>2, <1>3 DEF ExportTrial, SearchTypeOK
<1>5. GoTo(p, "report") \/ Exit(p)
    BY DEF ExportTrial
<1>6. /\ proc' \in [Processes -> Stages] /\ Alone(p)
      /\ \/ proc'[p].pc = "idle"
         \/ /\ proc'[p].pc = "report" /\ proc'[p].read = proc[p].read
            /\ proc'[p].todo = proc[p].todo /\ proc'[p].model = proc[p].model
    <2>1. "report" \in Points
        BY DEF Points
    <2>2. QED
        BY <1>0, <1>5, <2>1, Goes, Exits
<1>7. SearchTypeOK'
    BY <1>0, <1>1, <1>4, <1>6 DEF SearchTypeOK
<1>8. LocalOK(p)'
    BY <1>2, <1>6 DEF LocalOK
<1>9. QED
    BY <1>1, <1>4, <1>6, <1>7, <1>8, AsideStep

\* A report is of the model the process has exported.
LEMMA ReportStep ==
    ASSUME SearchInv, NEW p \in Processes, ReportTrial(p)
    PROVE  SearchInv'
<1>0. SearchTypeOK /\ LocalOK(p)
    BY DEF SearchInv, LocalsOK
<1>1. /\ UNCHANGED <<dataset, protocol, embeddings, models>>
      /\ UNCHANGED <<chosen, selection, benchmark, opened>>
    BY DEF ReportTrial, prepared, frozen, sealed
<1>2. /\ proc[p].read \in Protocols /\ proc[p].todo # <<>>
      /\ proc[p].model \in Trials /\ proc[p].todo \in Lists
    BY <1>0 DEF ReportTrial, Running, LocalOK, SearchTypeOK, Stages
<1>3. Head(proc[p].todo) \in Names /\ Tail(proc[p].todo) \in Lists
    BY <1>2 DEF Lists
<1>4. reports' \in [Names -> Trials \cup {None, Torn}]
    BY <1>0, <1>2, <1>3 DEF ReportTrial, SearchTypeOK
<1>5. /\ proc' \in [Processes -> Stages] /\ Alone(p)
      /\ proc'[p].read = proc[p].read
      /\ \/ proc'[p].pc = "train"
         \/ /\ proc'[p].pc = "report open"
            /\ proc'[p].todo = proc[p].todo /\ proc'[p].model = proc[p].model
    <2>1. "report open" \in Points /\ "train" \in Points /\ None \in Winners
        BY DEF Points, Winners
    <2>2. CASE GoTo(p, "report open")
        BY <1>0, <2>1, <2>2, Goes
    <2>3. CASE proc' = [proc EXCEPT ![p].pc = "train",
                                    ![p].todo = Tail(proc[p].todo),
                                    ![p].model = None]
        BY <1>0, <1>3, <2>1, <2>3 DEF SearchTypeOK, Stages, Alone
    <2>4. QED
        BY <2>2, <2>3 DEF ReportTrial
<1>6. SearchTypeOK'
    BY <1>0, <1>1, <1>4, <1>5 DEF SearchTypeOK
<1>7. LocalOK(p)'
    BY <1>2, <1>5 DEF LocalOK
<1>8. QED
    BY <1>1, <1>5, <1>6, <1>7, AsideStep

\* --stage select: the winner is the parent or a trial that is on disk.
LEMMA SelectStep ==
    ASSUME SearchInv, NEW p \in Processes, Select(p)
    PROVE  SearchInv'
<1>0. SearchTypeOK
    BY DEF SearchInv
<1>1. /\ UNCHANGED <<dataset, protocol, embeddings, models, reports>>
      /\ UNCHANGED <<chosen, selection, benchmark, opened>>
    BY DEF Select, prepared, trials, frozen, sealed
<1>2. PICK i \in 1..Len(Candidates) :
        proc' = [proc EXCEPT ![p].pc = "freeze", ![p].model = Candidates[i]]
    BY DEF Select
<1>3. Candidates[i] = ParentModel \/ \E c \in Names : Candidates[i] = reports[c]
    <2> DEFINE tail == [k \in 1..Len(Configs) |-> reports[Configs[k]]]
               All == {reports[c] : c \in Names}
    <2>1. Configs \in Seq(Names)
        BY SearchAssumption DEF Names
    <2>2. \A k \in 1..Len(Configs) : Configs[k] \in Names
        BY <2>1
    <2>3. Len(Configs) \in Nat
        BY <2>1
    <2>4. tail \in Seq(All) /\ Len(tail) = Len(Configs)
        BY <2>2, <2>3
    <2>5. Candidates = <<ParentModel>> \o tail
        BY DEF Candidates
    <2>6. <<ParentModel>> \in Seq({ParentModel}) /\ Len(<<ParentModel>>) = 1
        OBVIOUS
    <2>7. i \in 1..1 + Len(tail)
        BY <1>2, <2>4, <2>5, <2>6
    <2>8. CASE i = 1
        BY <2>4, <2>5, <2>6, <2>8
    <2>9. CASE i # 1
        <3>1. i - 1 \in 1..Len(tail) /\ Candidates[i] = tail[i - 1]
            BY <2>3, <2>4, <2>5, <2>6, <2>7, <2>9
        <3>2. QED
            BY <2>2, <2>4, <3>1
    <2>10. QED
        BY <2>8, <2>9
<1>4. \/ Candidates[i] = ParentModel
      \/ Candidates[i] \in Trials /\ models[Candidates[i].name] # None
    <2>1. \A c \in Names : reports[c] \in Trials /\ models[c] = reports[c]
                           /\ models[c] # None
        BY <1>0 DEF Select, Whole, SearchTypeOK
    <2>2. \A c \in Names : reports[c].name \in Names
        BY <2>1 DEF Trials
    <2>3. QED
        BY <1>3, <2>1, <2>2
<1>5. /\ proc' \in [Processes -> Stages] /\ Alone(p)
      /\ proc'[p].pc = "freeze" /\ proc'[p].model = Candidates[i]
    <2>1. Candidates[i] \in Winners /\ "freeze" \in Points
        BY <1>4 DEF Winners, Points
    <2>2. QED
        BY <1>0, <1>2, <2>1 DEF SearchTypeOK, Stages, Alone
<1>6. SearchTypeOK'
    BY <1>0, <1>1, <1>5 DEF SearchTypeOK
<1>7. LocalOK(p)'
    BY <1>1, <1>4, <1>5 DEF LocalOK
<1>8. QED
    BY <1>1, <1>5, <1>6, <1>7, AsideStep

\* The directory model is made by one process, once.
LEMMA FreezeStep ==
    ASSUME SearchInv, NEW p \in Processes, FreezeWinner(p)
    PROVE  SearchInv'
<1>0. SearchTypeOK /\ LocalOK(p) /\ FrozenOnce /\ SealedOnce
    BY DEF SearchInv, LocalsOK
<1>1. /\ UNCHANGED <<dataset, protocol, embeddings, models, reports>>
      /\ UNCHANGED <<selection, benchmark, opened>>
    BY DEF FreezeWinner, prepared, trials, sealed
<1>2. "freeze open" \in Points /\ "select" \in Points
    BY DEF Points
<1>3. /\ proc' \in [Processes -> Stages] /\ Alone(p)
      /\ proc'[p].pc \in {"idle", "freeze open", "select"}
      /\ proc'[p].pc = "freeze open" => proc'[p].model = proc[p].model
    BY <1>0, <1>2, Goes, Exits DEF FreezeWinner
<1>4. SearchTypeOK'
    BY <1>0, <1>1, <1>3 DEF SearchTypeOK
<1>5. CASE Running(p, "freeze") /\ chosen # None /\ chosen' = chosen /\ Exit(p)
    <2>1. proc'[p].pc = "idle"
        BY <1>0, <1>5, Exits
    <2>2. LocalOK(p)'
        BY <2>1 DEF LocalOK
    <2>3. QED
        BY <1>1, <1>3, <1>4, <1>5, <2>1, <2>2, AsideStep
<1>6. CASE /\ Running(p, "freeze") /\ chosen = None
           /\ \/ /\ proc[p].model.name = Parent
                 /\ chosen' = proc[p].model /\ GoTo(p, "select")
              \/ /\ proc[p].model.name # Parent
                 /\ chosen' = Torn /\ GoTo(p, "freeze open")
    <2>1. selection = None /\ opened = <<>> /\ \A q \in Processes : ~Freezing(q)
        BY <1>0, <1>6 DEF FrozenOnce, SealedOnce, Whole
    <2>2. \/ proc[p].model = ParentModel
          \/ /\ proc[p].model \in Trials
             /\ models[proc[p].model.name] # None
        BY <1>0, <1>6 DEF Running, LocalOK
    <2>3. chosen' # None
        <3>1. proc[p].model \in Trials => proc[p].model.name # Parent
            BY SearchAssumption DEF Trials, Names
        <3>2. QED
            BY <1>6, <2>2, <3>1, SearchAssumption, Contents
    <2>4. LocalOK(p)'
        <3>1. ParentModel.name = Parent
            BY DEF ParentModel
        <3>2. proc'[p].pc = "freeze open" => proc[p].model.name # Parent
            BY <1>0, <1>2, <1>6, Goes
        <3>3. QED
            BY <1>1, <1>3, <2>2, <3>1, <3>2 DEF LocalOK
    <2>5. FrozenOnce'
        BY <1>1, <1>3, <2>1, <2>3 DEF FrozenOnce, Freezing, Alone
    <2>6. SealedOnce'
        BY <1>0, <1>1, <1>3, <2>1 DEF SealedOnce, Alone, Whole
    <2>7. LocalsOK'
        BY <1>0, <1>1, <1>3, <1>4, <2>4, Others DEF SearchInv
    <2>8. QED
        BY <1>4, <2>5, <2>6, <2>7 DEF SearchInv
<1>7. CASE /\ Running(p, "freeze open")
           /\ chosen' = models[proc[p].model.name] /\ GoTo(p, "select")
    <2>1. proc'[p].pc = "select"
        BY <1>0, <1>2, <1>7, Goes
    <2>2. selection = None /\ opened = <<>>
          /\ \A q \in Processes \ {p} : ~Freezing(q)
        BY <1>0, <1>7 DEF FrozenOnce, SealedOnce, Whole, Running, Freezing
    <2>3. chosen' # None
        BY <1>0, <1>7 DEF Running, LocalOK
    <2>4. LocalOK(p)'
        BY <2>1 DEF LocalOK
    <2>5. FrozenOnce'
        BY <1>1, <1>3, <2>1, <2>2, <2>3 DEF FrozenOnce, Freezing, Alone
    <2>6. SealedOnce'
        BY <1>0, <1>1, <1>3, <2>1, <2>2 DEF SealedOnce, Alone, Whole
    <2>7. LocalsOK'
        BY <1>0, <1>1, <1>3, <1>4, <2>4, Others DEF SearchInv
    <2>8. QED
        BY <1>4, <2>5, <2>6, <2>7 DEF SearchInv
<1>8. QED
    BY <1>5, <1>6, <1>7 DEF FreezeWinner

\* selection.json is the work of the one process that froze the model.
LEMMA SelectionStep ==
    ASSUME SearchInv, NEW p \in Processes, WriteSelection(p)
    PROVE  SearchInv'
<1>0. SearchTypeOK /\ FrozenOnce /\ SealedOnce
    BY DEF SearchInv
<1>1. /\ UNCHANGED <<dataset, protocol, embeddings, models, reports>>
      /\ UNCHANGED <<chosen, benchmark, opened>>
    BY DEF WriteSelection, prepared, trials, sealed
<1>2. /\ proc' \in [Processes -> Stages] /\ Alone(p)
      /\ \/ /\ proc[p].pc = "select" /\ selection' = Torn
            /\ proc'[p].pc = "select open"
         \/ /\ proc[p].pc = "select open" /\ selection' = chosen
            /\ proc'[p].pc = "idle"
    <2>1. "select open" \in Points
        BY DEF Points
    <2>2. QED
        BY <1>0, <2>1, Goes, Exits DEF WriteSelection, Running
<1>3. /\ chosen # None /\ ~Whole(selection) /\ opened = <<>>
      /\ \A q \in Processes \ {p} : ~Freezing(q)
    BY <1>0, <1>2 DEF FrozenOnce, SealedOnce, Freezing, Whole
<1>4. SearchTypeOK'
    BY <1>0, <1>1, <1>2 DEF SearchTypeOK
<1>5. LocalOK(p)'
    BY <1>2 DEF LocalOK
<1>6. LocalsOK'
    BY <1>0, <1>1, <1>2, <1>4, <1>5, Others DEF SearchInv
<1>7. FrozenOnce'
    BY <1>1, <1>2, <1>3 DEF FrozenOnce, Freezing, Alone
<1>8. SealedOnce'
    BY <1>0, <1>1, <1>2, <1>3 DEF SealedOnce, Alone, Whole
<1>9. QED
    BY <1>4, <1>6, <1>7, <1>8 DEF SearchInv

\* --stage benchmark: mkdir lets one process through.
LEMMA BenchmarkStep ==
    ASSUME SearchInv, NEW p \in Processes,
           Benchmark(p) \/ OpenBenchmark(p) \/ Evaluate(p) \/ WriteTarget(p)
    PROVE  SearchInv'
<1>0. SearchTypeOK /\ FrozenOnce /\ SealedOnce
    BY DEF SearchInv
<1>1. /\ UNCHANGED <<dataset, protocol, embeddings, models, reports>>
      /\ UNCHANGED <<chosen, selection>>
    BY DEF Benchmark, OpenBenchmark, Evaluate, WriteTarget, prepared, trials, frozen
<1>2. \A pc \in {"open", "evaluate", "target", "target open"} : pc \in Points
    BY DEF Points
<1>3. /\ proc' \in [Processes -> Stages] /\ Alone(p)
      /\ proc'[p].pc \in {"idle", "open", "evaluate", "target", "target open"}
    BY <1>0, <1>2, Goes, Exits DEF Benchmark, OpenBenchmark, Evaluate, WriteTarget
<1>4. benchmark' \in BOOLEAN
    BY <1>0 DEF Benchmark, OpenBenchmark, Evaluate, WriteTarget, sealed, SearchTypeOK
<1>5. SearchTypeOK'
    BY <1>0, <1>1, <1>3, <1>4 DEF SearchTypeOK
<1>6. LocalOK(p)'
    BY <1>3 DEF LocalOK
<1>7. LocalsOK'
    BY <1>0, <1>1, <1>3, <1>5, <1>6, Others DEF SearchInv
<1>8. FrozenOnce'
    BY <1>0, <1>1, <1>3 DEF FrozenOnce, Freezing, Alone
<1>9. SealedOnce'
    <2>1. CASE Benchmark(p)
        <3>1. /\ proc'[p].pc = "open" /\ Whole(selection) /\ selection = chosen
              /\ UNCHANGED <<benchmark, opened>>
            BY <1>0, <1>2, <2>1, Goes DEF Benchmark, sealed
        <3>2. QED
            BY <1>0, <1>1, <1>3, <3>1 DEF SealedOnce, Alone, Whole
    <2>2. CASE OpenBenchmark(p)
        <3>1. /\ opened' = opened /\ proc[p].pc = "open"
              /\ \/ ~benchmark /\ benchmark' = TRUE /\ proc'[p].pc = "evaluate"
                 \/ benchmark /\ benchmark' = benchmark /\ proc'[p].pc = "idle"
            BY <1>0, <1>2, <2>2, Goes, Exits DEF OpenBenchmark, Running
        <3>2. Whole(selection) /\ selection = chosen
            BY <1>0, <3>1 DEF SealedOnce
        <3>3. CASE ~benchmark /\ benchmark' = TRUE /\ proc'[p].pc = "evaluate"
            <4>1. opened = <<>> /\ \A q \in Processes : proc[q].pc # "evaluate"
                BY <1>0, <3>3 DEF SealedOnce
            <4>2. QED
                BY <1>0, <1>1, <1>3, <3>1, <3>2, <3>3, <4>1
                DEF SealedOnce, Alone, Whole
        <3>4. CASE benchmark /\ benchmark' = benchmark /\ proc'[p].pc = "idle"
            BY <1>0, <1>1, <1>3, <3>1, <3>2, <3>4 DEF SealedOnce, Alone, Whole
        <3>5. QED
            BY <3>1, <3>3, <3>4
    <2>3. CASE Evaluate(p)
        <3>1. /\ benchmark' = benchmark /\ proc[p].pc = "evaluate"
              /\ \/ opened' = Append(opened, chosen) /\ proc'[p].pc = "target"
                 \/ opened' = opened /\ proc'[p].pc = "idle"
            BY <1>0, <1>2, <2>3, Goes, Exits DEF Evaluate, Running
        <3>2. /\ Whole(selection) /\ selection = chosen /\ benchmark /\ opened = <<>>
              /\ \A q \in Processes \ {p} : proc[q].pc # "evaluate"
            BY <1>0, <3>1 DEF SealedOnce
        <3>3. opened' \in {<<>>, <<selection>>}
            BY <3>1, <3>2
        <3>4. QED
            BY <1>0, <1>1, <1>3, <3>1, <3>2, <3>3 DEF SealedOnce, Alone, Whole
    <2>4. CASE WriteTarget(p)
        <3>1. proc'[p].pc \in {"idle", "target open"} /\ UNCHANGED <<benchmark, opened>>
            BY <1>0, <1>2, <2>4, Goes, Exits DEF WriteTarget
        <3>2. QED
            BY <1>0, <1>1, <1>3, <3>1 DEF SealedOnce, Alone, Whole
    <2>5. QED
        BY <2>1, <2>2, <2>3, <2>4
<1>10. QED
    BY <1>5, <1>7, <1>8, <1>9 DEF SearchInv

\* A killed process leaves only files behind.
LEMMA CrashStep ==
    ASSUME SearchInv, NEW p \in Processes, Crash(p)
    PROVE  SearchInv'
<1>1. /\ UNCHANGED <<dataset, protocol, models, reports>>
      /\ UNCHANGED <<chosen, selection, benchmark, opened>> /\ Exit(p)
      /\ embeddings' \in {embeddings, Torn}
    BY DEF Crash, prepared, trials, frozen, sealed
<1>2. proc' \in [Processes -> Stages] /\ Alone(p) /\ proc'[p].pc = "idle"
    BY <1>1, Exits DEF SearchInv
<1>3. SearchTypeOK' /\ LocalOK(p)'
    BY <1>1, <1>2 DEF SearchInv, SearchTypeOK, LocalOK, Files
<1>4. QED
    BY <1>1, <1>2, <1>3, AsideStep

\* What --stage train can be asked for are lists of configurations.
LEMMA TodoLists == Configs \in Lists /\ \A c \in Names : <<c>> \in Lists
BY SearchAssumption DEF Lists, Names

\* Every step preserves the invariant.
LEMMA SearchPreserved ==
    SearchInv /\ [Next]_vars => SearchInv'
<1> SUFFICES ASSUME SearchInv, [Next]_vars PROVE SearchInv'
    OBVIOUS
<1>1. ASSUME NEW p \in Processes, Step(p) PROVE SearchInv'
    <2> QED
        BY <1>1, TodoLists, PrepareStep, EncodeStep, TrainStep, FitStep, ExportStep,
           ReportStep, SelectStep, FreezeStep, SelectionStep, BenchmarkStep
        DEF Step
<1>2. CASE UNCHANGED vars
    BY <1>2 DEF vars, prepared, trials, frozen, sealed, SearchInv, SearchTypeOK,
                LocalsOK, LocalOK, FrozenOnce, Freezing, SealedOnce, Whole
<1>3. QED
    BY <1>1, <1>2, CrashStep DEF Next

\* HoldoutOpenedOnce (benchmark_winner of ai_pipeline/continuation.py): however
\* many stages run side by side and wherever they die, the labels of the
\* holdout are read at most once, for the model that selection.json names.
THEOREM SearchHoldoutOpenedOnce == Spec => []HoldoutOpenedOnce
<1>1. SearchInv => HoldoutOpenedOnce
    <2> SUFFICES ASSUME SearchInv PROVE HoldoutOpenedOnce
        OBVIOUS
    <2>1. opened = <<>> \/ (opened = <<selection>> /\ Whole(selection))
        BY DEF SearchInv, SealedOnce, Whole
    <2>2. CASE opened = <<>>
        BY <2>2 DEF HoldoutOpenedOnce
    <2>3. CASE opened = <<selection>> /\ Whole(selection)
        BY <2>3 DEF HoldoutOpenedOnce
    <2>4. QED
        BY <2>1, <2>2, <2>3
<1>2. QED
    BY <1>1, SearchInitially, SearchPreserved, PTL DEF Spec

-----------------------------------------------------------------------------
(* What a step does, stage by stage: where the process gets to, what it    *)
(* keeps in memory and which file it changes.                              *)

Keeps(p) ==
    /\ proc'[p].todo = proc[p].todo /\ proc'[p].read = proc[p].read
    /\ proc'[p].vectors = proc[p].vectors /\ proc'[p].model = proc[p].model

From(p, here, there) == proc[p].pc = here /\ proc'[p].pc = there

\* --stage prepare.
LEMMA PrepareEffect ==
    ASSUME SearchInv, NEW p \in Processes,
           Prepare(p) \/ StoreSalt(p) \/ WriteDataset(p) \/ WriteProtocol(p)
    PROVE  /\ Alone(p)
           /\ UNCHANGED <<embeddings, models, reports, chosen, selection>>
           /\ UNCHANGED <<benchmark, target, opened, raced, faults>>
           /\ \/ From(p, "idle", "salt") /\ UNCHANGED <<salt, dataset, protocol>>
              \/ /\ From(p, "salt", "dataset") /\ ~salt /\ salt'
                 /\ UNCHANGED <<dataset, protocol>>
              \/ From(p, "salt", "idle") /\ UNCHANGED <<salt, dataset, protocol>>
              \/ From(p, "dataset", "dataset open") /\ UNCHANGED <<salt, protocol>>
              \/ From(p, "dataset open", "register") /\ UNCHANGED <<salt, protocol>>
              \/ /\ From(p, "register", "register open") /\ protocol' = Torn
                 /\ UNCHANGED <<salt, dataset>>
              \/ /\ From(p, "register open", "idle")
                 /\ protocol' = [dataset |-> dataset, vectors |-> None]
                 /\ UNCHANGED <<salt, dataset>>
<1>0. /\ SearchTypeOK
      /\ {"salt", "dataset", "dataset open", "register", "register open"}
           \subseteq Points
    BY DEF SearchInv, Points
<1>1. CASE Prepare(p)
    BY <1>0, <1>1, Goes
    DEF Prepare, Running, From, prepared, trials, frozen, sealed
<1>2. CASE StoreSalt(p)
    BY <1>0, <1>2, Goes, Exits
    DEF StoreSalt, Running, From, trials, frozen, sealed
<1>3. CASE WriteDataset(p)
    BY <1>0, <1>3, Goes
    DEF WriteDataset, Running, From, trials, frozen, sealed
<1>4. CASE WriteProtocol(p)
    BY <1>0, <1>4, Goes, Exits
    DEF WriteProtocol, Running, From, prepared, trials, frozen, sealed
<1> QED
    BY <1>1, <1>2, <1>3, <1>4

\* --stage encode.
LEMMA EncodeEffect ==
    ASSUME SearchInv, NEW p \in Processes,
           \/ Encode(p) \/ CacheEmbeddings(p) \/ ReadChecksum(p)
           \/ RegisterEmbeddings(p)
    PROVE  /\ Alone(p)
           /\ UNCHANGED <<salt, dataset, models, reports, chosen, selection>>
           /\ UNCHANGED <<benchmark, target, opened, faults>>
           /\ \/ /\ From(p, "idle", "encode") /\ proc'[p].read = protocol
                 /\ Whole(protocol) /\ protocol.dataset = dataset
                 /\ UNCHANGED <<protocol, embeddings, raced>>
              \/ /\ From(p, "encode", "replace") /\ Keeps(p)
                 /\ UNCHANGED <<protocol, embeddings, raced>>
              \/ /\ From(p, "encode", "audit") /\ Keeps(p) /\ embeddings # None
                 /\ UNCHANGED <<protocol, embeddings, raced>>
              \/ /\ From(p, "encode", "idle")
                 /\ UNCHANGED <<protocol, embeddings, raced>>
              \/ /\ From(p, "replace", "audit") /\ Keeps(p)
                 /\ ~raced' => ~raced /\ embeddings = None /\ embeddings' = p
                 /\ UNCHANGED protocol
              \/ From(p, "replace", "idle") /\ raced' /\ UNCHANGED protocol
              \/ /\ From(p, "audit", "ready") /\ proc'[p].read = proc[p].read
                 /\ proc'[p].vectors = embeddings
                 /\ UNCHANGED <<protocol, embeddings, raced>>
              \/ /\ From(p, "ready", "ready open") /\ Keeps(p) /\ protocol' = Torn
                 /\ UNCHANGED <<embeddings, raced>>
              \/ /\ From(p, "ready open", "idle")
                 /\ protocol' = [proc[p].read EXCEPT !.vectors = proc[p].vectors]
                 /\ UNCHANGED <<embeddings, raced>>
<1>0. /\ SearchTypeOK
      /\ {"encode", "replace", "audit", "ready", "ready open"} \subseteq Points
      /\ proc \in [Processes -> Stages]
    BY DEF SearchInv, SearchTypeOK, Points
<1>1. CASE Encode(p)
    BY <1>0, <1>1
    DEF Encode, Running, CheckedInputs, From, Alone, Stages, prepared, trials,
        frozen, sealed
<1>2. CASE CacheEmbeddings(p)
    <2>1. /\ UNCHANGED <<salt, dataset, protocol, models, reports, chosen, selection>>
          /\ UNCHANGED <<benchmark, target, opened, faults>>
        BY <1>2 DEF CacheEmbeddings, prepared, trials, frozen, sealed
    <2>2. CASE Running(p, "encode")
        <3>1. UNCHANGED <<embeddings, raced>>
            BY <1>2, <2>2 DEF CacheEmbeddings, Running
        <3>2. \/ GoTo(p, "replace") \/ Exit(p)
              \/ embeddings # None /\ GoTo(p, "audit")
            BY <1>2, <2>2 DEF CacheEmbeddings, Running
        <3> QED
            BY <1>0, <2>1, <2>2, <3>1, <3>2, Goes, Exits DEF Running, From, Keeps
    <2>3. CASE Running(p, "replace")
        <3>1. p \in Writers
            BY <2>3 DEF Writers
        <3>2. /\ raced' = (raced \/ Overlaps(p))
              /\ \/ GoTo(p, "audit") /\ (~raced' => embeddings' = p)
                 \/ Exit(p) /\ embeddings # None
            BY <1>2, <2>3 DEF CacheEmbeddings, Running
        <3>3. ~raced' => ~raced /\ embeddings = None
            BY <3>1, <3>2 DEF Overlaps
        <3> QED
            BY <1>0, <2>1, <2>3, <3>2, <3>3, Goes, Exits DEF Running, From, Keeps
    <2> QED
        BY <1>2, <2>2, <2>3 DEF CacheEmbeddings
<1>3. CASE ReadChecksum(p)
    BY <1>0, <1>3
    DEF ReadChecksum, Running, From, Alone, Stages, prepared, trials, frozen, sealed
<1>4. CASE RegisterEmbeddings(p)
    BY <1>0, <1>4, Goes, Exits
    DEF RegisterEmbeddings, Running, From, Keeps, prepared, trials, frozen, sealed
<1> QED
    BY <1>1, <1>2, <1>3, <1>4

\* The trial a stage works at.
At(p) == Head(proc[p].todo)

\* --stage train.
LEMMA TrainEffect ==
    ASSUME SearchInv, NEW p \in Processes,
           \/ \E todo \in Lists : Train(p, todo)
           \/ FitCandidate(p) \/ ExportTrial(p) \/ ReportTrial(p)
    PROVE  /\ Alone(p)
           /\ UNCHANGED <<salt, dataset, protocol, embeddings, chosen, selection>>
           /\ UNCHANGED <<benchmark, target, opened, raced, faults>>
           /\ \/ /\ From(p, "idle", "train")
                 /\ embeddings # None /\ protocol.vectors = embeddings
                 /\ proc'[p].read = protocol /\ proc'[p].vectors = embeddings
                 /\ UNCHANGED <<models, reports>>
              \/ From(p, "train", "idle") /\ UNCHANGED <<models, reports>>
              \/ /\ From(p, "train", "train")
                 /\ proc'[p].read = proc[p].read /\ proc'[p].vectors = proc[p].vectors
                 /\ UNCHANGED <<models, reports>>
              \/ /\ From(p, "train", "export")
                 /\ proc'[p].read = proc[p].read /\ proc'[p].vectors = proc[p].vectors
                 /\ proc'[p].model.vectors = proc[p].vectors
                 /\ proc'[p].model.claims = proc[p].read.vectors
                 /\ UNCHANGED <<models, reports>>
              \/ /\ From(p, "export", "report") /\ Keeps(p) /\ models[At(p)] = None
                 /\ models' = [models EXCEPT ![At(p)] = proc[p].model]
                 /\ UNCHANGED reports
              \/ From(p, "export", "idle") /\ UNCHANGED <<models, reports>>
              \/ /\ From(p, "report", "report open") /\ Keeps(p)
                 /\ reports' = [reports EXCEPT ![At(p)] = Torn]
                 /\ UNCHANGED models
              \/ /\ From(p, "report open", "train")
                 /\ proc'[p].read = proc[p].read /\ proc'[p].vectors = proc[p].vectors
                 /\ reports' = [reports EXCEPT ![At(p)] = proc[p].model]
                 /\ UNCHANGED models
<1>0. /\ SearchTypeOK
      /\ {"train", "export", "report", "report open"} \subseteq Points
      /\ proc \in [Processes -> Stages]
    BY DEF SearchInv, SearchTypeOK, Points
<1>1. ASSUME NEW todo \in Lists, Train(p, todo)
      PROVE  /\ Alone(p) /\ From(p, "idle", "train")
             /\ embeddings # None /\ protocol.vectors = embeddings
             /\ proc'[p].read = protocol /\ proc'[p].vectors = embeddings
             /\ UNCHANGED <<prepared, protocol, embeddings, trials, frozen, sealed,
                            raced, faults>>
    BY <1>0, <1>1 DEF Train, VectorsReady, Running, From, Alone, Stages
<1>2. CASE FitCandidate(p)
    <2>1. /\ proc[p].pc = "train"
          /\ UNCHANGED <<prepared, protocol, embeddings, trials, frozen, sealed,
                         raced, faults>>
        BY <1>2 DEF FitCandidate, Running
    <2>2. CASE Exit(p)
        BY <1>0, <2>1, <2>2, Exits DEF From, prepared, trials, frozen, sealed
    <2>3. CASE proc' = [proc EXCEPT ![p].todo = Tail(proc[p].todo)]
        BY <1>0, <2>1, <2>3 DEF Stages, From, Alone, prepared, trials, frozen, sealed
    <2>4. ASSUME NEW score \in Scores,
                 proc' = [proc EXCEPT ![p].pc = "export", ![p].model = Fitted(p, score)]
          PROVE  /\ Alone(p) /\ From(p, "train", "export")
                 /\ proc'[p].read = proc[p].read /\ proc'[p].vectors = proc[p].vectors
                 /\ proc'[p].model.vectors = proc[p].vectors
                 /\ proc'[p].model.claims = proc[p].read.vectors
        BY <1>0, <2>1, <2>4 DEF Stages, From, Alone, Fitted
    <2> QED
        BY <1>2, <2>1, <2>2, <2>3, <2>4 DEF FitCandidate, prepared, trials, frozen, sealed
<1>3. CASE ExportTrial(p)
    BY <1>0, <1>3, Goes, Exits
    DEF ExportTrial, Running, From, Keeps, At, prepared, frozen, sealed
<1>4. CASE ReportTrial(p)
    <2>1. CASE Running(p, "report")
        <3>1. /\ GoTo(p, "report open") /\ reports' = [reports EXCEPT ![At(p)] = Torn]
            BY <2>1, <1>4 DEF ReportTrial, Running, At
        <3>2. Alone(p) /\ From(p, "report", "report open") /\ Keeps(p)
            BY <1>0, <2>1, <3>1, Goes DEF Running, From, Keeps
        <3> QED
            BY <1>4, <3>1, <3>2 DEF ReportTrial, prepared, frozen, sealed
    <2>2. CASE ~Running(p, "report")
        <3>1. /\ proc[p].pc = "report open"
              /\ reports' = [reports EXCEPT ![At(p)] = proc[p].model]
              /\ proc' = [proc EXCEPT ![p].pc = "train",
                                      ![p].todo = Tail(proc[p].todo),
                                      ![p].model = None]
            BY <1>4, <2>2 DEF ReportTrial, Running, At
        <3>2. /\ Alone(p) /\ From(p, "report open", "train")
              /\ proc'[p].read = proc[p].read /\ proc'[p].vectors = proc[p].vectors
            BY <1>0, <3>1 DEF Stages, From, Alone
        <3> QED
            BY <1>4, <3>1, <3>2 DEF ReportTrial, prepared, frozen, sealed
    <2> QED
        BY <2>1, <2>2
<1> QED
    BY <1>1, <1>2, <1>3, <1>4 DEF prepared, trials, frozen, sealed

\* --stage select.
LEMMA SelectEffect ==
    ASSUME SearchInv, NEW p \in Processes,
           Select(p) \/ FreezeWinner(p) \/ WriteSelection(p)
    PROVE  /\ Alone(p)
           /\ UNCHANGED <<salt, dataset, protocol, embeddings, models, reports>>
           /\ UNCHANGED <<benchmark, target, opened, raced, faults>>
           /\ \/ From(p, "idle", "freeze") /\ UNCHANGED <<chosen, selection>>
              \/ From(p, "freeze", "idle") /\ UNCHANGED <<chosen, selection>>
              \/ /\ From(p, "freeze", "select") /\ chosen = None
                 /\ chosen' = ParentModel /\ UNCHANGED selection
              \/ /\ From(p, "freeze", "freeze open") /\ chosen = None
                 /\ chosen' = Torn /\ UNCHANGED selection
              \/ /\ From(p, "freeze open", "select") /\ chosen' \in Trials
                 /\ UNCHANGED selection
              \/ /\ From(p, "select", "select open") /\ selection' = Torn
                 /\ UNCHANGED chosen
              \/ /\ From(p, "select open", "idle") /\ selection' = chosen
                 /\ UNCHANGED chosen
<1>0. /\ SearchTypeOK /\ LocalOK(p)
      /\ {"freeze", "freeze open", "select", "select open"} \subseteq Points
      /\ proc \in [Processes -> Stages]
    BY DEF SearchInv, SearchTypeOK, LocalsOK, Points
<1>1. CASE Select(p)
    <2>1. /\ proc[p].pc = "idle"
          /\ UNCHANGED <<prepared, protocol, embeddings, trials, frozen, sealed,
                         raced, faults>>
        BY <1>1 DEF Select, Running
    <2>2. PICK w : proc' = [proc EXCEPT ![p].pc = "freeze", ![p].model = w]
        BY <1>1 DEF Select
    <2>3. Alone(p) /\ From(p, "idle", "freeze")
        BY <1>0, <2>1, <2>2 DEF From, Alone, Stages
    <2> QED
        BY <2>1, <2>3 DEF prepared, trials, frozen, sealed
<1>2. CASE FreezeWinner(p)
    <2>1. UNCHANGED <<prepared, protocol, embeddings, trials, selection, sealed,
                      raced, faults>>
        BY <1>2 DEF FreezeWinner
    <2>2. CASE /\ Running(p, "freeze") /\ proc[p].model.name = Parent
               /\ chosen = None /\ chosen' = proc[p].model /\ GoTo(p, "select")
        <3>1. proc[p].model = ParentModel
            <4>1. proc[p].model \in Trials => proc[p].model.name # Parent
                BY SearchAssumption DEF Trials, Names
            <4> QED
                BY <1>0, <2>2, <4>1 DEF Running, LocalOK
        <3> QED
            BY <1>0, <2>1, <2>2, <3>1, Goes
            DEF Running, From, prepared, trials, sealed
    <2>3. CASE /\ Running(p, "freeze") /\ chosen = None /\ chosen' = Torn
               /\ GoTo(p, "freeze open")
        BY <1>0, <2>1, <2>3, Goes DEF Running, From, prepared, trials, sealed
    <2>4. CASE Running(p, "freeze") /\ chosen' = chosen /\ Exit(p)
        BY <1>0, <2>1, <2>4, Exits DEF Running, From, prepared, trials, sealed
    <2>5. CASE /\ Running(p, "freeze open")
               /\ chosen' = models[proc[p].model.name] /\ GoTo(p, "select")
        <3>1. proc[p].model \in Trials /\ models[proc[p].model.name] # None
            BY <1>0, <2>5 DEF Running, LocalOK
        <3>2. models[proc[p].model.name] \in Trials
            BY <1>0, <3>1 DEF SearchTypeOK, Trials
        <3> QED
            BY <1>0, <2>1, <2>5, <3>2, Goes DEF Running, From, prepared, trials, sealed
    <2> QED
        BY <1>2, <2>2, <2>3, <2>4, <2>5 DEF FreezeWinner
<1>3. CASE WriteSelection(p)
    BY <1>0, <1>3, Goes, Exits
    DEF WriteSelection, Running, From, prepared, trials, sealed
<1> QED
    BY <1>1, <1>2, <1>3

\* --stage benchmark.
LEMMA BenchmarkEffect ==
    ASSUME SearchInv, NEW p \in Processes,
           Benchmark(p) \/ OpenBenchmark(p) \/ Evaluate(p) \/ WriteTarget(p)
    PROVE  /\ Alone(p)
           /\ UNCHANGED <<salt, dataset, protocol, embeddings, models, reports>>
           /\ UNCHANGED <<chosen, selection, raced>>
           /\ \/ From(p, "idle", "open") /\ UNCHANGED <<benchmark, target, faults>>
              \/ From(p, "open", "evaluate") /\ UNCHANGED <<target, faults>>
              \/ From(p, "open", "idle") /\ UNCHANGED <<benchmark, target, faults>>
              \/ From(p, "evaluate", "target") /\ UNCHANGED <<benchmark, target, faults>>
              \/ /\ From(p, "evaluate", "idle") /\ faults' = faults + 1
                 /\ UNCHANGED <<benchmark, target>>
              \/ /\ From(p, "target", "target open") /\ target' = Torn
                 /\ UNCHANGED <<benchmark, faults>>
              \/ /\ From(p, "target open", "idle") /\ target' = selection
                 /\ UNCHANGED <<benchmark, faults>>
<1>0. /\ SearchTypeOK
      /\ {"open", "evaluate", "target", "target open"} \subseteq Points
    BY DEF SearchInv, Points
<1>1. CASE Benchmark(p)
    BY <1>0, <1>1, Goes DEF Benchmark, Running, From, prepared, trials, frozen, sealed
<1>2. CASE OpenBenchmark(p)
    BY <1>0, <1>2, Goes, Exits DEF OpenBenchmark, Running, From, prepared, trials, frozen
<1>3. CASE Evaluate(p)
    BY <1>0, <1>3, Goes, Exits DEF Evaluate, Running, From, prepared, trials, frozen
<1>4. CASE WriteTarget(p)
    BY <1>0, <1>4, Goes, Exits DEF WriteTarget, Running, From, prepared, trials, frozen
<1> QED
    BY <1>1, <1>2, <1>3, <1>4

\* The death of a stage.
LEMMA CrashEffect ==
    ASSUME SearchInv, NEW p \in Processes, Crash(p)
    PROVE  /\ Alone(p) /\ proc'[p].pc = "idle" /\ faults' = faults + 1
           /\ UNCHANGED <<salt, dataset, protocol, models, reports>>
           /\ UNCHANGED <<chosen, selection, benchmark, target>>
           /\ ~raced' => ~raced /\ embeddings' = embeddings
BY Exits DEF SearchInv, Crash, prepared, trials, frozen, sealed

-----------------------------------------------------------------------------
(* Trials are fitted on the registered embeddings.                         *)
(*                                                                         *)
(* A stage that trains has loaded the embeddings that were registered when *)
(* it started; they stay, since an encoding that replaces embeddings, or   *)
(* goes on writing into them, races by definition.                         *)

Training == {"train", "export", "report", "report open"}

FittedInv ==
    ~raced =>
    /\ \A c \in Names : models[c] # None =>
         /\ embeddings # None
         /\ models[c].vectors = embeddings /\ models[c].claims = embeddings
    /\ \A p \in Processes : proc[p].pc \in Training =>
         /\ embeddings # None
         /\ proc[p].vectors = embeddings /\ proc[p].read.vectors = embeddings
    /\ \A p \in Processes : proc[p].pc = "export" =>
         /\ proc[p].model.vectors = embeddings
         /\ proc[p].model.claims = embeddings

\* There are no trials in an empty directory.
LEMMA FittedInitially == Init => FittedInv
<1>1. Init => /\ \A p \in Processes : proc[p].pc = "idle"
              /\ \A c \in Names : models[c] = None
    BY DEF Init, NoProcess
<1> QED
    BY <1>1 DEF FittedInv, Training

\* A step that neither trains nor encodes.
LEMMA FittedFrame ==
    ASSUME FittedInv, NEW p \in Processes, Alone(p), proc'[p].pc \notin Training,
           UNCHANGED <<models, embeddings, raced>>
    PROVE  FittedInv'
BY DEF FittedInv, Alone, Training

\* Every step keeps trials on the registered embeddings.
LEMMA FittedPreserved ==
    SearchInv /\ FittedInv /\ [Next]_vars => FittedInv'
<1> SUFFICES ASSUME SearchInv, FittedInv, [Next]_vars PROVE FittedInv'
    OBVIOUS
<1>1. ASSUME NEW p \in Processes,
             Prepare(p) \/ StoreSalt(p) \/ WriteDataset(p) \/ WriteProtocol(p)
      PROVE  FittedInv'
    BY <1>1, PrepareEffect, FittedFrame DEF From, Training
<1>2. ASSUME NEW p \in Processes,
             \/ Encode(p) \/ CacheEmbeddings(p) \/ ReadChecksum(p)
             \/ RegisterEmbeddings(p)
      PROVE  FittedInv'
    <2>1. /\ Alone(p) /\ models' = models /\ proc'[p].pc \notin Training
          /\ \/ embeddings' = embeddings /\ raced' = raced
             \/ ~raced' => ~raced /\ embeddings = None
        BY <1>2, EncodeEffect DEF From, Training
    <2>2. CASE embeddings' = embeddings /\ raced' = raced
        BY <2>1, <2>2, FittedFrame
    <2>3. CASE ~raced' => ~raced /\ embeddings = None
        BY <2>1, <2>3 DEF FittedInv, Alone, Training
    <2> QED
        BY <2>1, <2>2, <2>3
<1>3. ASSUME NEW p \in Processes,
             \/ \E todo \in Lists : Train(p, todo)
             \/ FitCandidate(p) \/ ExportTrial(p) \/ ReportTrial(p)
      PROVE  FittedInv'
    <2>1. /\ Alone(p) /\ embeddings' = embeddings /\ raced' = raced
          /\ \A q \in Processes : q # p => proc'[q] = proc[q]
          /\ models \in [Names -> Trials \cup {None}]
        BY <1>3, TrainEffect DEF Alone, SearchInv, SearchTypeOK
    <2>2. CASE From(p, "export", "report") /\ Keeps(p)
               /\ models' = [models EXCEPT ![At(p)] = proc[p].model]
        BY <2>1, <2>2 DEF FittedInv, From, Keeps, Training
    <2>3. CASE models' = models
        <3>1. \/ proc'[p].pc = "idle"
              \/ /\ From(p, "idle", "train")
                 /\ embeddings # None /\ protocol.vectors = embeddings
                 /\ proc'[p].read = protocol /\ proc'[p].vectors = embeddings
              \/ /\ proc[p].pc \in Training /\ proc'[p].pc \in Training
                 /\ proc'[p].read = proc[p].read /\ proc'[p].vectors = proc[p].vectors
                 /\ proc'[p].pc # "export"
              \/ /\ From(p, "train", "export")
                 /\ proc'[p].read = proc[p].read /\ proc'[p].vectors = proc[p].vectors
                 /\ proc'[p].model.vectors = proc[p].vectors
                 /\ proc'[p].model.claims = proc[p].read.vectors
            BY <1>3, TrainEffect DEF From, Keeps, Training
        <3> QED
            BY <2>1, <2>3, <3>1 DEF FittedInv, From, Training
    <2> QED
        BY <1>3, <2>2, <2>3, TrainEffect
<1>4. ASSUME NEW p \in Processes, Select(p) \/ FreezeWinner(p) \/ WriteSelection(p)
      PROVE  FittedInv'
    BY <1>4, SelectEffect, FittedFrame DEF From, Training
<1>5. ASSUME NEW p \in Processes,
             Benchmark(p) \/ OpenBenchmark(p) \/ Evaluate(p) \/ WriteTarget(p)
      PROVE  FittedInv'
    BY <1>5, BenchmarkEffect, FittedFrame DEF From, Training
<1>6. ASSUME NEW p \in Processes, Crash(p)
      PROVE  FittedInv'
    <2>1. Alone(p) /\ proc'[p].pc = "idle" /\ models' = models
        BY <1>6, CrashEffect
    <2>2. CASE raced'
        BY <2>2 DEF FittedInv
    <2>3. CASE ~raced'
        <3>1. ~raced /\ embeddings' = embeddings
            BY <1>6, <2>3, CrashEffect
        <3> QED
            BY <2>1, <2>3, <3>1 DEF FittedInv, Alone, Training
    <2> QED
        BY <2>2, <2>3
<1>7. CASE UNCHANGED vars
    BY <1>7 DEF vars, trials, FittedInv
<1> QED
    BY <1>1, <1>2, <1>3, <1>4, <1>5, <1>6, <1>7, TodoLists DEF Next, Step

\* FittedOnRegistered (train_candidates of ai_pipeline/continuation.py): every
\* trial on disk was fitted on the embeddings its manifest claims, and those
\* are the registered ones, unless two encodings raced.
THEOREM SearchFittedOnRegistered == Spec => []FittedOnRegistered
<1>1. FittedInv => FittedOnRegistered
    BY DEF FittedInv, FittedOnRegistered
<1> QED
    BY <1>1, SearchInitially, SearchPreserved, FittedInitially, FittedPreserved,
       PTL DEF Spec

-----------------------------------------------------------------------------
(* A search in which no process died can go on.                            *)
(*                                                                         *)
(* A file that is torn, or that is there without the one that belongs      *)
(* beside it, has a process at work that will finish it, as long as no     *)
(* process died; so when all are idle, the files agree.                    *)

Among(points) == \E p \in Processes : proc[p].pc \in points

Drawing == {"dataset", "dataset open", "register"}
Preparing == Drawing \cup {"register open"}
Registering == {"audit", "ready", "ready open"}
Encoding == {"encode", "replace"} \cup Registering
Reporting == {"report", "report open"}
Choosing == {"freeze open", "select", "select open"}
Opening == {"evaluate", "target", "target open"}

\* One process draws the dataset, and encodings start when it is through.
InputsInv ==
    /\ \A p, q \in Processes :
         proc[p].pc \in Preparing /\ proc[q].pc \in Preparing => p = q
    /\ \A p \in Processes :
         /\ proc[p].pc \in Preparing => salt
         /\ proc[p].pc \in Drawing => protocol = None
         /\ proc[p].pc = "register open" => protocol = Torn
         /\ proc[p].pc \in Encoding =>
              salt /\ proc[p].read.dataset = dataset /\ ~Among(Preparing)
    /\ ~salt => dataset = None /\ protocol = None
    /\ Whole(protocol) => protocol.dataset = dataset
    /\ faults = 0 =>
         /\ protocol = Torn => Among({"register open", "ready open"})
         /\ salt /\ protocol = None => Among(Drawing)

\* Embeddings are registered, or the process that will do so has looked.
EncodedInv ==
    ~raced =>
    /\ \A p \in Processes : proc[p].pc \in Registering => embeddings # None
    /\ \A p \in Processes :
         proc[p].pc \in {"ready", "ready open"} => proc[p].vectors = embeddings
    /\ faults = 0 /\ embeddings # None =>
         \/ Whole(protocol) /\ protocol.vectors = embeddings
         \/ Among(Registering)

\* An exported trial is reported, or about to be.
TrialsInv ==
    /\ \A p \in Processes :
         proc[p].pc \in Reporting => models[At(p)] = proc[p].model
    /\ \A c \in Names : models[c] = None => reports[c] = None
    /\ faults = 0 => \A c \in Names :
         \/ models[c] = None \/ reports[c] = models[c]
         \/ \E p \in Processes : proc[p].pc \in Reporting /\ At(p) = c

\* A chosen model is the one selection.json names, or about to be.
ChosenInv ==
    /\ Whole(selection) => selection = chosen
    /\ \A p \in Processes : proc[p].pc \in {"select", "select open"} => Whole(chosen)
    /\ faults = 0 =>
         /\ chosen # None => selection # None \/ Among(Choosing)
         /\ selection = Torn => Among({"select open"})

\* An opened benchmark has its result, or is about to.
OpenedInv ==
    /\ \A p \in Processes : proc[p].pc \in {"target", "target open"} => Whole(selection)
    /\ faults = 0 /\ benchmark => target # None \/ Among(Opening \ {"target open"})

GoesOnInv ==
    SearchInv /\ InputsInv /\ EncodedInv /\ TrialsInv /\ ChosenInv /\ OpenedInv
              /\ faults \in Nat

\* An empty directory has no file without its writer.
LEMMA GoesOnInitially == Init => GoesOnInv
<1> SUFFICES ASSUME Init PROVE GoesOnInv
    OBVIOUS
<1>1. \A p \in Processes : proc[p].pc = "idle"
    BY DEF Init, NoProcess
<1>2. InputsInv
    BY <1>1, SearchAssumption
    DEF Init, InputsInv, Among, Preparing, Drawing, Encoding, Registering, Whole
<1>3. EncodedInv
    BY <1>1 DEF Init, EncodedInv, Among, Registering
<1>4. TrialsInv
    BY <1>1 DEF Init, TrialsInv, Reporting
<1>5. ChosenInv
    BY <1>1, SearchAssumption DEF Init, ChosenInv, Among, Choosing, Whole
<1>6. OpenedInv
    BY <1>1 DEF Init, OpenedInv, Among, Opening
<1> QED
    BY <1>2, <1>3, <1>4, <1>5, <1>6, SearchInitially DEF Init, GoesOnInv

\* A step that neither gets to some points nor leaves them, or is a fault.
Quiet(p, points) ==
    /\ Alone(p) /\ proc'[p].pc \notin points
    /\ faults' = 0 => faults = 0 /\ proc[p].pc \notin points

\* What keeps the five parts: quiet steps that leave their files alone.
LEMMA InputsFrame ==
    ASSUME InputsInv, NEW p \in Processes, Quiet(p, Preparing \cup Encoding),
           UNCHANGED <<salt, dataset, protocol>>
    PROVE  InputsInv'
<1>1. \A q \in Processes : q # p => proc'[q] = proc[q]
    BY DEF Quiet, Alone
<1>2. \A points \in SUBSET (Preparing \cup Encoding) :
        /\ Among(points)' => Among(points)
        /\ faults' = 0 /\ Among(points) => Among(points)'
    BY <1>1 DEF Quiet, Among
<1>3. \A q \in Processes : proc'[q].pc \in Preparing \cup Encoding =>
        q # p /\ proc'[q] = proc[q]
    BY <1>1 DEF Quiet
<1>4. /\ {"register open", "ready open"} \subseteq Preparing \cup Encoding
      /\ Drawing \subseteq Preparing
    BY DEF Preparing, Encoding, Registering
<1>5. faults' = 0 => faults = 0
    BY DEF Quiet
<1>6. faults' = 0 =>
         /\ protocol = Torn => Among({"register open", "ready open"})'
         /\ salt /\ protocol = None => Among(Drawing)'
    BY <1>2, <1>4, <1>5 DEF InputsInv
<1>7. \A q \in Processes : proc'[q].pc = "register open" => proc'[q].pc \in Preparing
    BY DEF Preparing
<1> QED
    BY <1>2, <1>3, <1>4, <1>6, <1>7 DEF InputsInv, Whole

\* Embeddings.
LEMMA EncodedFrame ==
    ASSUME EncodedInv, NEW p \in Processes, Quiet(p, Registering),
           UNCHANGED <<protocol, embeddings, raced>>
    PROVE  EncodedInv'
BY DEF EncodedInv, Quiet, Alone, Among, Registering, Whole

\* Trials.
LEMMA TrialsFrame ==
    ASSUME TrialsInv, NEW p \in Processes, Quiet(p, Reporting),
           UNCHANGED <<models, reports>>
    PROVE  TrialsInv'
BY DEF TrialsInv, Quiet, Alone, At

\* The chosen model.
LEMMA ChosenFrame ==
    ASSUME ChosenInv, NEW p \in Processes, Quiet(p, Choosing),
           UNCHANGED <<chosen, selection>>
    PROVE  ChosenInv'
BY DEF ChosenInv, Quiet, Alone, Among, Choosing, Whole

\* The benchmark.
LEMMA OpenedFrame ==
    ASSUME OpenedInv, NEW p \in Processes, Quiet(p, Opening),
           UNCHANGED <<selection, benchmark, target>>
    PROVE  OpenedInv'
BY DEF OpenedInv, Quiet, Alone, Among, Opening, Whole

\* A preparation leaves no half-written input but the one it is writing.
LEMMA PrepareGoesOn ==
    ASSUME GoesOnInv, NEW p \in Processes,
           Prepare(p) \/ StoreSalt(p) \/ WriteDataset(p) \/ WriteProtocol(p)
    PROVE  GoesOnInv'
<1>0. SearchInv' /\ SearchTypeOK
    BY PrepareStep DEF GoesOnInv, SearchInv
<1>1. /\ Alone(p)
      /\ UNCHANGED <<embeddings, models, reports, chosen, selection>>
      /\ UNCHANGED <<benchmark, target, raced, faults>>
    BY PrepareEffect DEF GoesOnInv
<1>2. /\ Quiet(p, Encoding) /\ Quiet(p, Registering) /\ Quiet(p, Reporting)
      /\ Quiet(p, Choosing) /\ Quiet(p, Opening)
    BY PrepareEffect
    DEF GoesOnInv, Quiet, From, Encoding, Registering, Reporting, Choosing, Opening
<1>3. \A q \in Processes : q # p => proc'[q] = proc[q]
    BY <1>1 DEF Alone
<1>4. InputsInv'
    <2>1. CASE proc[p].pc \notin Preparing /\ proc'[p].pc \notin Preparing
        <3>1. UNCHANGED <<salt, dataset, protocol>>
            BY <2>1, PrepareEffect DEF GoesOnInv, From, Preparing, Drawing
        <3>2. Quiet(p, Preparing \cup Encoding)
            BY <1>1, <1>2, <2>1 DEF Quiet
        <3> QED
            BY <3>1, <3>2, InputsFrame DEF GoesOnInv
    <2>2. CASE From(p, "salt", "dataset")
        <3>1. ~salt /\ salt' /\ UNCHANGED <<dataset, protocol>>
            BY <2>2, PrepareEffect DEF GoesOnInv, From
        <3>2. /\ protocol = None
              /\ \A q \in Processes : proc[q].pc \notin Preparing \cup Encoding
            BY <3>1 DEF GoesOnInv, InputsInv
        <3>3. \A q \in Processes : q # p => proc'[q].pc \notin Preparing \cup Encoding
            BY <1>3, <3>2
        <3>4. proc'[p].pc \in Drawing /\ proc'[p].pc # "register open"
              /\ proc'[p].pc \notin Encoding
            BY <2>2 DEF From, Drawing, Encoding, Registering
        <3>5. Among(Drawing)'
            BY <3>4 DEF Among
        <3>6. \A q \in Processes : proc'[q].pc = "register open" => q = p
            BY <3>3 DEF Preparing
        <3> QED
            BY <3>1, <3>2, <3>3, <3>4, <3>5, <3>6, SearchAssumption
            DEF InputsInv, Preparing, Whole
    <2>3. CASE proc[p].pc \in Preparing
        <3>1. /\ salt /\ ~Whole(protocol)
              /\ \A q \in Processes : q # p => proc[q].pc \notin Preparing
              /\ \A q \in Processes : proc[q].pc \notin Encoding
            BY <2>3 DEF GoesOnInv, InputsInv, Preparing, Whole, Among
        <3>2. /\ \A q \in Processes : q # p => proc'[q].pc \notin Preparing
              /\ \A q \in Processes : proc'[q].pc \notin Encoding
            BY <1>2, <1>3, <3>1 DEF Quiet
        <3>3. /\ salt' = salt
              /\ \/ /\ proc[p].pc \in Drawing /\ proc'[p].pc \in Drawing
                    /\ protocol' = protocol
                 \/ /\ proc'[p].pc = "register open" /\ protocol' = Torn
                 \/ /\ proc'[p].pc = "idle" /\ dataset' = dataset
                    /\ protocol' = [dataset |-> dataset, vectors |-> None]
            BY <2>3, PrepareEffect DEF GoesOnInv, From, Preparing, Drawing
        <3>4. /\ proc[p].pc \in Drawing => protocol = None
              /\ \A q \in Processes : proc'[q].pc = "register open" => q = p
            BY <3>2 DEF GoesOnInv, InputsInv, Preparing
        <3>5. CASE /\ proc[p].pc \in Drawing /\ proc'[p].pc \in Drawing
                   /\ protocol' = protocol
            <4>1. Among(Drawing)' /\ proc'[p].pc # "register open"
                BY <3>5 DEF Among, Drawing
            <4> QED
                BY <3>1, <3>2, <3>3, <3>4, <3>5, <4>1, SearchAssumption
                DEF InputsInv, Preparing, Whole
        <3>6. CASE proc'[p].pc = "register open" /\ protocol' = Torn
            <4>1. Among({"register open", "ready open"})'
                BY <3>6 DEF Among
            <4>2. proc'[p].pc \notin Drawing
                BY <3>6 DEF Drawing
            <4> QED
                BY <3>1, <3>2, <3>3, <3>6, <4>1, <4>2, SearchAssumption
                DEF InputsInv, Preparing, Whole
        <3>7. CASE /\ proc'[p].pc = "idle" /\ dataset' = dataset
                   /\ protocol' = [dataset |-> dataset, vectors |-> None]
            <4>1. protocol' \in Protocols /\ protocol'.dataset = dataset'
                BY <1>0, <3>7 DEF SearchTypeOK, Protocols, Files
            <4>2. protocol' # None /\ protocol' # Torn
                BY <4>1, Contents
            <4>3. \A q \in Processes : proc'[q].pc \notin Preparing
                BY <3>2, <3>7 DEF Preparing, Drawing
            <4> QED
                BY <3>1, <3>2, <3>3, <4>1, <4>2, <4>3 DEF InputsInv, Preparing, Whole
        <3> QED
            BY <3>3, <3>5, <3>6, <3>7
    <2> QED
        BY <2>1, <2>2, <2>3, PrepareEffect
        DEF GoesOnInv, From, Preparing, Drawing
<1>5. EncodedInv'
    <2>1. CASE protocol' = protocol
        BY <1>1, <1>2, <2>1, EncodedFrame DEF GoesOnInv
    <2>2. CASE protocol' # protocol
        <3>1. ~Whole(protocol)
            BY <2>2, PrepareEffect
            DEF GoesOnInv, InputsInv, From, Drawing, Whole
        <3>2. Among(Registering) => Among(Registering)'
            <4>1. proc[p].pc \notin Registering
                BY PrepareEffect DEF GoesOnInv, From, Registering
            <4> QED
                BY <1>3, <4>1 DEF Among
        <3>3. \A q \in Processes : proc'[q].pc \in Registering => proc'[q] = proc[q]
            BY <1>2, <1>3 DEF Quiet
        <3>4. \A q \in Processes :
                proc'[q].pc \in {"ready", "ready open"} => proc'[q].pc \in Registering
            BY DEF Registering
        <3> QED
            BY <1>1, <3>1, <3>2, <3>3, <3>4 DEF GoesOnInv, EncodedInv
    <2> QED
        BY <2>1, <2>2
<1> QED
    BY <1>0, <1>1, <1>2, <1>4, <1>5, TrialsFrame, ChosenFrame, OpenedFrame
    DEF GoesOnInv

\* An encoding registers the embeddings that are there.
LEMMA EncodeGoesOn ==
    ASSUME GoesOnInv, NEW p \in Processes,
           \/ Encode(p) \/ CacheEmbeddings(p) \/ ReadChecksum(p)
           \/ RegisterEmbeddings(p)
    PROVE  GoesOnInv'
<1>0. /\ SearchInv' /\ SearchTypeOK /\ LocalOK(p) /\ SearchTypeOK'
      /\ proc[p] \in Stages
    BY EncodeStep DEF GoesOnInv, SearchInv, LocalsOK, SearchTypeOK
<1>1. /\ Alone(p)
      /\ UNCHANGED <<salt, dataset, models, reports, chosen, selection>>
      /\ UNCHANGED <<benchmark, target, faults>>
    BY EncodeEffect DEF GoesOnInv
<1>2. /\ Quiet(p, Preparing) /\ Quiet(p, Reporting)
      /\ Quiet(p, Choosing) /\ Quiet(p, Opening)
    BY EncodeEffect
    DEF GoesOnInv, Quiet, From, Preparing, Drawing, Reporting, Choosing, Opening
<1>3. \A q \in Processes : q # p => proc'[q] = proc[q]
    BY <1>1 DEF Alone
<1>4. proc[p].pc \in Encoding =>
        /\ proc[p].read \in Protocols
        /\ salt /\ proc[p].read.dataset = dataset /\ ~Among(Preparing)
    BY <1>0 DEF LocalOK, GoesOnInv, InputsInv, Encoding, Registering
<1>5. InputsInv'
    <2>1. /\ salt /\ \A q \in Processes : proc[q].pc \notin Preparing
        <3>1. CASE proc[p].pc \in Encoding
            BY <1>4, <3>1 DEF Among
        <3>2. CASE proc[p].pc \notin Encoding
            <4>1. Whole(protocol)
                BY <3>2, EncodeEffect DEF GoesOnInv, From, Encoding, Registering
            <4> QED
                BY <4>1 DEF GoesOnInv, InputsInv, Whole, Preparing
        <3> QED
            BY <3>1, <3>2
    <2>2. \A q \in Processes : proc'[q].pc \notin Preparing
        BY <1>2, <1>3, <2>1 DEF Quiet
    <2>3. proc'[p].pc \in Encoding => proc'[p].read.dataset = dataset
        BY <1>4, EncodeEffect DEF GoesOnInv, From, Keeps, Encoding, Registering
    <2>4. \/ protocol' = protocol /\ proc[p].pc # "ready open"
          \/ protocol' = Torn /\ proc'[p].pc = "ready open"
          \/ /\ proc'[p].pc = "idle"
             /\ protocol' \in Protocols /\ protocol'.dataset = dataset
        <3>1. CASE From(p, "ready open", "idle")
            <4>1. /\ protocol' = [proc[p].read EXCEPT !.vectors = proc[p].vectors]
                  /\ proc[p].read \in Protocols /\ proc[p].read.dataset = dataset
                BY <1>4, <3>1, EncodeEffect
                DEF GoesOnInv, From, Encoding, Registering
            <4>2. proc[p].vectors \in Files
                BY <1>0 DEF Stages
            <4>3. protocol' \in Protocols /\ protocol'.dataset = dataset
                BY <4>1, <4>2 DEF Protocols
            <4> QED
                BY <3>1, <4>3 DEF From
        <3>2. CASE ~From(p, "ready open", "idle")
            BY <3>2, EncodeEffect DEF GoesOnInv, From
        <3> QED
            BY <3>1, <3>2
    <2>5. \A q \in Processes : proc'[q].pc \in Encoding => proc'[q].read.dataset = dataset
        BY <1>3, <2>3 DEF GoesOnInv, InputsInv
    <2>6. Whole(protocol') => protocol'.dataset = dataset
        BY <2>4, SearchAssumption DEF GoesOnInv, InputsInv, Whole
    <2>7. faults = 0 => protocol' # None
        <3>1. faults = 0 => protocol # None
            BY <2>1 DEF GoesOnInv, InputsInv, Among, Preparing
        <3> QED
            BY <2>4, <3>1, Contents, SearchAssumption
    <2>8. ASSUME faults = 0, protocol' = Torn
          PROVE  Among({"register open", "ready open"})'
        <3>1. CASE proc'[p].pc = "ready open"
            BY <3>1 DEF Among
        <3>2. CASE protocol' = protocol /\ proc[p].pc # "ready open"
            <4>1. PICK q \in Processes : proc[q].pc \in {"register open", "ready open"}
                BY <2>8, <3>2 DEF GoesOnInv, InputsInv, Among
            <4>2. q # p
                BY <2>1, <3>2, <4>1 DEF Preparing
            <4> QED
                BY <1>3, <4>1, <4>2 DEF Among
        <3> QED
            BY <2>4, <2>8, <3>1, <3>2, Contents
    <2>9. \A q \in Processes : proc'[q].pc \in Drawing \cup {"register open"} =>
            proc'[q].pc \in Preparing
        BY DEF Preparing
    <2>10. InputsInv'
        BY <1>1, <2>1, <2>2, <2>5, <2>6, <2>7, <2>8, <2>9 DEF InputsInv, Among
    <2> QED
        BY <2>10
<1>6. EncodedInv'
    <2> SUFFICES ASSUME ~raced' PROVE EncodedInv'
        BY DEF EncodedInv
    <2>1. ~raced
        BY EncodeEffect DEF GoesOnInv
    <2>2. \A q \in Processes \ {p} : proc[q].pc \in Registering => embeddings # None
        BY <2>1 DEF GoesOnInv, EncodedInv
    <2>3. CASE From(p, "replace", "audit")
        <3>1. embeddings' = p /\ embeddings = None /\ protocol' = protocol
            BY <2>3, EncodeEffect DEF GoesOnInv, From
        <3>2. embeddings' # None /\ Among(Registering)'
            BY <2>3, <3>1, Contents DEF From, Among, Registering
        <3>3. \A q \in Processes : proc'[q].pc \notin {"ready", "ready open"}
            BY <1>3, <2>2, <2>3, <3>1 DEF From, Registering
        <3> QED
            BY <3>2, <3>3 DEF EncodedInv
    <2>4. CASE ~From(p, "replace", "audit")
        <3>1. embeddings' = embeddings
            BY <2>4, EncodeEffect DEF GoesOnInv, From
        <3>2. proc'[p].pc \in Registering => embeddings # None
            BY <2>1, <2>4, EncodeEffect DEF GoesOnInv, EncodedInv, From, Registering
        <3>3. proc'[p].pc \in {"ready", "ready open"} => proc'[p].vectors = embeddings
            BY <2>1, EncodeEffect DEF GoesOnInv, EncodedInv, From, Keeps
        <3>4. \A q \in Processes : proc'[q].pc \in Registering => embeddings # None
            BY <1>3, <2>2, <3>2
        <3>5. \A q \in Processes :
                proc'[q].pc \in {"ready", "ready open"} => proc'[q].vectors = embeddings
            BY <1>3, <2>1, <3>3 DEF GoesOnInv, EncodedInv
        <3>6. ASSUME faults = 0, embeddings # None
              PROVE  \/ Whole(protocol') /\ protocol'.vectors = embeddings
                     \/ Among(Registering)'
            <4>1. CASE proc'[p].pc \in Registering
                BY <4>1 DEF Among
            <4>2. CASE From(p, "ready open", "idle")
                <5>1. /\ protocol' = [proc[p].read EXCEPT !.vectors = proc[p].vectors]
                      /\ proc[p].read \in Protocols /\ proc[p].vectors \in Files
                      /\ proc[p].vectors = embeddings
                    BY <1>0, <1>4, <2>1, <4>2, EncodeEffect
                    DEF GoesOnInv, EncodedInv, From, Encoding, Registering, Stages
                <5>2. protocol' \in Protocols /\ protocol'.vectors = embeddings
                    BY <5>1 DEF Protocols
                <5> QED
                    BY <5>2, Contents DEF Whole
            <4>3. CASE ~From(p, "ready open", "idle") /\ proc'[p].pc \notin Registering
                <5>1. protocol' = protocol /\ proc[p].pc \notin Registering
                    BY <4>3, EncodeEffect DEF GoesOnInv, From, Registering
                <5>2. CASE Among(Registering)
                    BY <1>3, <5>1, <5>2 DEF Among
                <5> QED
                    BY <2>1, <3>6, <5>1, <5>2 DEF GoesOnInv, EncodedInv, Whole
            <4> QED
                BY <4>1, <4>2, <4>3
        <3> QED
            BY <1>1, <3>1, <3>4, <3>5, <3>6 DEF EncodedInv
    <2> QED
        BY <2>3, <2>4
<1> QED
    BY <1>0, <1>1, <1>2, <1>5, <1>6, TrialsFrame, ChosenFrame, OpenedFrame
    DEF GoesOnInv

\* A trial that is exported is reported by the process that exported it.
LEMMA TrainGoesOn ==
    ASSUME GoesOnInv, NEW p \in Processes, SearchInv',
           \/ \E todo \in Lists : Train(p, todo)
           \/ FitCandidate(p) \/ ExportTrial(p) \/ ReportTrial(p)
    PROVE  GoesOnInv'
<1>0. /\ SearchTypeOK /\ LocalOK(p)
      /\ models \in [Names -> Trials \cup {None}]
      /\ reports \in [Names -> Trials \cup {None, Torn}]
      /\ proc[p] \in Stages
    BY DEF GoesOnInv, SearchInv, LocalsOK, SearchTypeOK
<1>1. /\ Alone(p)
      /\ UNCHANGED <<salt, dataset, protocol, embeddings, chosen, selection>>
      /\ UNCHANGED <<benchmark, target, raced, faults>>
    BY TrainEffect DEF GoesOnInv
<1>2. /\ Quiet(p, Preparing \cup Encoding) /\ Quiet(p, Registering)
      /\ Quiet(p, Choosing) /\ Quiet(p, Opening)
    BY TrainEffect
    DEF GoesOnInv, Quiet, From, Preparing, Drawing, Encoding, Registering, Choosing,
        Opening
<1>3. \A q \in Processes : q # p => proc'[q] = proc[q]
    BY <1>1 DEF Alone
<1>4. proc[p].pc \in {"export", "report", "report open"} =>
        At(p) \in Names /\ proc[p].model \in Trials /\ proc[p].model # None
    <2>1. proc[p].todo \in Seq(Names)
        BY <1>0 DEF Stages, Lists
    <2>2. proc[p].todo # <<>> => At(p) \in Names
        BY <2>1 DEF At
    <2> QED
        BY <1>0, <2>2, Contents DEF LocalOK
<1>5. TrialsInv'
    <2>0. \A q \in Processes : q # p => proc'[q] = proc[q] /\ At(q)' = At(q)
        BY <1>3 DEF At
    <2>1. CASE From(p, "export", "report")
        <3>1. /\ At(p) \in Names /\ proc[p].model # None /\ At(p)' = At(p)
              /\ models[At(p)] = None
              /\ models' = [models EXCEPT ![At(p)] = proc[p].model]
              /\ reports' = reports /\ proc'[p].model = proc[p].model
            BY <1>4, <2>1, TrainEffect DEF GoesOnInv, From, Keeps, At
        <3>2. /\ models'[At(p)] = proc[p].model
              /\ \A c \in Names : c # At(p) => models'[c] = models[c]
            BY <1>0, <3>1
        <3>3. \A c \in Names : models[c] # None => models'[c] = models[c]
            BY <3>1, <3>2
        <3>4. ASSUME NEW q \in Processes, q # p, proc'[q].pc \in Reporting
              PROVE  models'[At(q)'] = proc'[q].model
            <4>1. /\ proc[q].todo \in Lists /\ proc[q].todo # <<>>
                  /\ proc[q].model \in Trials /\ models[At(q)] = proc[q].model
                BY <2>0, <3>4
                DEF GoesOnInv, TrialsInv, SearchInv, SearchTypeOK, LocalsOK, LocalOK,
                    Reporting, Stages
            <4>2. At(q) \in Names
                BY <4>1 DEF At, Lists
            <4> QED
                BY <2>0, <3>3, <3>4, <4>1, <4>2, Contents
        <3>5. \A q \in Processes : proc'[q].pc \in Reporting =>
                models'[At(q)'] = proc'[q].model
            BY <3>1, <3>2, <3>4
        <3>6. \A c \in Names : models'[c] = None => reports[c] = None
            BY <3>1, <3>2 DEF GoesOnInv, TrialsInv
        <3>7. ASSUME faults = 0, NEW c \in Names
              PROVE  \/ models'[c] = None \/ reports[c] = models'[c]
                     \/ \E q \in Processes : proc'[q].pc \in Reporting /\ At(q)' = c
            <4>1. CASE c = At(p)
                BY <2>1, <3>1, <4>1 DEF From, Reporting
            <4>2. CASE c # At(p)
                <5>1. \A q \in Processes : proc[q].pc \in Reporting => q # p
                    BY <2>1 DEF From, Reporting
                <5> QED
                    BY <2>0, <3>2, <3>7, <4>2, <5>1 DEF GoesOnInv, TrialsInv
            <4> QED
                BY <4>1, <4>2
        <3> QED
            BY <1>1, <3>1, <3>5, <3>6, <3>7 DEF TrialsInv
    <2>2. CASE From(p, "report", "report open") \/ From(p, "report open", "train")
        <3>1. /\ At(p) \in Names /\ models' = models
              /\ models[At(p)] = proc[p].model /\ proc[p].model # None
            BY <1>4, <2>2, TrainEffect DEF GoesOnInv, TrialsInv, From, Reporting
        <3>2. \/ /\ proc'[p].pc = "report open" /\ At(p)' = At(p)
                 /\ proc'[p].model = proc[p].model
                 /\ reports' = [reports EXCEPT ![At(p)] = Torn]
              \/ /\ proc'[p].pc = "train"
                 /\ reports' = [reports EXCEPT ![At(p)] = proc[p].model]
            BY <2>2, TrainEffect DEF GoesOnInv, From, Keeps, At
        <3>3. /\ \A c \in Names : c # At(p) => reports'[c] = reports[c]
              /\ proc'[p].pc = "train" => reports'[At(p)] = models[At(p)]
            BY <1>0, <3>1, <3>2
        <3>4. \A q \in Processes : proc'[q].pc \in Reporting =>
                models[At(q)'] = proc'[q].model
            BY <2>0, <3>1, <3>2 DEF GoesOnInv, TrialsInv, Reporting
        <3>5. \A c \in Names : models[c] = None => reports'[c] = None
            BY <3>1, <3>3 DEF GoesOnInv, TrialsInv
        <3>6. ASSUME faults = 0, NEW c \in Names
              PROVE  \/ models[c] = None \/ reports'[c] = models[c]
                     \/ \E q \in Processes : proc'[q].pc \in Reporting /\ At(q)' = c
            <4>1. CASE c = At(p)
                BY <3>2, <3>3, <4>1 DEF Reporting
            <4>2. CASE c # At(p)
                BY <2>0, <3>3, <3>6, <4>2 DEF GoesOnInv, TrialsInv
            <4> QED
                BY <4>1, <4>2
        <3> QED
            BY <1>1, <3>1, <3>4, <3>5, <3>6 DEF TrialsInv
    <2>3. CASE /\ UNCHANGED <<models, reports>> /\ proc[p].pc \notin Reporting
               /\ proc'[p].pc \notin Reporting
        BY <1>1, <2>3, TrialsFrame DEF GoesOnInv, Quiet
    <2> QED
        BY <2>1, <2>2, <2>3, TrainEffect DEF GoesOnInv, From, Reporting
<1> QED
    BY <1>1, <1>2, <1>5, InputsFrame, EncodedFrame, ChosenFrame, OpenedFrame
    DEF GoesOnInv

\* A chosen model gets its selection.json from the process that froze it.
LEMMA SelectGoesOn ==
    ASSUME GoesOnInv, NEW p \in Processes, SearchInv',
           Select(p) \/ FreezeWinner(p) \/ WriteSelection(p)
    PROVE  GoesOnInv'
<1>1. /\ Alone(p)
      /\ UNCHANGED <<salt, dataset, protocol, embeddings, models, reports>>
      /\ UNCHANGED <<benchmark, target, raced, faults>>
    BY SelectEffect DEF GoesOnInv
<1>2. /\ Quiet(p, Preparing \cup Encoding) /\ Quiet(p, Registering)
      /\ Quiet(p, Reporting) /\ Quiet(p, Opening)
    BY SelectEffect
    DEF GoesOnInv, Quiet, From, Preparing, Drawing, Encoding, Registering, Reporting,
        Opening
<1>3. \A q \in Processes : q # p => proc'[q] = proc[q]
    BY <1>1 DEF Alone
<1>4. FrozenOnce
    BY DEF GoesOnInv, SearchInv
<1>5. ChosenInv' /\ (Whole(selection) => selection' = selection)
    <2>1. CASE proc[p].pc \notin Choosing /\ proc'[p].pc \notin Choosing
        <3>1. UNCHANGED <<chosen, selection>>
            BY <2>1, SelectEffect DEF GoesOnInv, From, Choosing
        <3> QED
            BY <1>1, <2>1, <3>1, ChosenFrame DEF GoesOnInv, Quiet
    <2>2. CASE proc[p].pc = "freeze" /\ proc'[p].pc \in Choosing
        <3>1. /\ chosen = None /\ selection' = selection
              /\ \/ proc'[p].pc = "select" /\ chosen' = ParentModel
                 \/ proc'[p].pc = "freeze open" /\ chosen' = Torn
            BY <2>2, SelectEffect DEF GoesOnInv, From, Choosing
        <3>2. /\ selection = None /\ \A q \in Processes : ~Freezing(q)
            BY <1>4, <3>1 DEF FrozenOnce
        <3>3. \A q \in Processes : proc'[q].pc \in {"select", "select open"} =>
                Whole(chosen')
            BY <1>3, <3>1, <3>2, Contents DEF Freezing, Whole
        <3>4. Among(Choosing)'
            BY <2>2 DEF Among
        <3> QED
            BY <3>1, <3>2, <3>3, <3>4, SearchAssumption DEF ChosenInv, Whole
    <2>3. CASE proc[p].pc \in {"freeze open", "select"}
        <3>1. /\ selection = None /\ \A q \in Processes : q # p => ~Freezing(q)
            BY <1>4, <2>3 DEF FrozenOnce, Freezing
        <3>2. \/ /\ proc'[p].pc = "select" /\ chosen' \in Trials
                 /\ selection' = selection
              \/ /\ proc'[p].pc = "select open" /\ selection' = Torn
                 /\ chosen' = chosen /\ Whole(chosen)
            BY <2>3, SelectEffect DEF GoesOnInv, ChosenInv, From
        <3>3. Whole(chosen')
            BY <3>2, Contents DEF Whole
        <3>4. Among(Choosing)' /\ (selection' = Torn => Among({"select open"})')
            BY <3>1, <3>2, SearchAssumption DEF Among, Choosing
        <3> QED
            BY <3>1, <3>2, <3>3, <3>4, SearchAssumption DEF ChosenInv, Whole
    <2>4. CASE From(p, "select open", "idle")
        <3>1. /\ selection' = chosen /\ chosen' = chosen /\ Whole(chosen)
            BY <2>4, SelectEffect DEF GoesOnInv, ChosenInv, From
        <3>2. ~Whole(selection)
            BY <1>4, <2>4 DEF FrozenOnce, From, Whole
        <3> QED
            BY <3>1, <3>2 DEF ChosenInv, Whole
    <2> QED
        BY <2>1, <2>2, <2>3, <2>4, SelectEffect DEF GoesOnInv, From, Choosing
<1>6. OpenedInv'
    BY <1>1, <1>2, <1>3, <1>5 DEF GoesOnInv, OpenedInv, Quiet, Among, Opening, Whole
<1> QED
    BY <1>1, <1>2, <1>5, <1>6, InputsFrame, EncodedFrame, TrialsFrame DEF GoesOnInv

\* An opened benchmark gets its result, or fails, which is a fault.
LEMMA BenchmarkGoesOn ==
    ASSUME GoesOnInv, NEW p \in Processes, SearchInv',
           Benchmark(p) \/ OpenBenchmark(p) \/ Evaluate(p) \/ WriteTarget(p)
    PROVE  GoesOnInv'
<1>1. /\ Alone(p)
      /\ UNCHANGED <<salt, dataset, protocol, embeddings, models, reports>>
      /\ UNCHANGED <<chosen, selection, raced>>
      /\ faults' \in Nat
      /\ faults' = 0 => faults' = faults /\ faults' # faults + 1
    <2>1. faults \in Nat /\ (faults' = faults \/ faults' = faults + 1)
        BY BenchmarkEffect DEF GoesOnInv
    <2>2. /\ faults' \in Nat
          /\ faults' = 0 => faults' = faults /\ faults' # faults + 1
        BY <2>1
    <2> QED
        BY <2>2, BenchmarkEffect DEF GoesOnInv
<1>2. /\ Quiet(p, Preparing \cup Encoding) /\ Quiet(p, Registering)
      /\ Quiet(p, Reporting) /\ Quiet(p, Choosing)
    BY <1>1, BenchmarkEffect
    DEF GoesOnInv, Quiet, From, Preparing, Drawing, Encoding, Registering, Reporting,
        Choosing
<1>3. \A q \in Processes : q # p => proc'[q] = proc[q]
    BY <1>1 DEF Alone
<1>4. OpenedInv'
    <2>1. \A q \in Processes : proc'[q].pc \in {"target", "target open"} =>
            Whole(selection)
        <3>1. proc'[p].pc \in {"target", "target open"} => Whole(selection)
            BY BenchmarkEffect DEF GoesOnInv, OpenedInv, SearchInv, SealedOnce, From
        <3> QED
            BY <1>3, <3>1 DEF GoesOnInv, OpenedInv
    <2>2. ASSUME faults' = 0, benchmark', ~Among(Opening \ {"target open"})'
          PROVE  target' # None
        <3>1. proc'[p].pc \notin {"evaluate", "target"}
            BY <2>2 DEF Among, Opening
        <3>2. CASE proc'[p].pc = "target open" \/ From(p, "target open", "idle")
            BY <3>1, <3>2, BenchmarkEffect, SearchAssumption
            DEF GoesOnInv, OpenedInv, From, Whole
        <3>3. CASE /\ proc[p].pc \notin {"evaluate", "target"}
                   /\ benchmark' = benchmark /\ target' = target
            BY <1>1, <1>3, <2>2, <3>3 DEF GoesOnInv, OpenedInv, Among, Opening
        <3>4. ~From(p, "evaluate", "idle")
            <4>1. faults' # faults + 1
                BY <1>1, <2>2
            <4> QED
                BY <4>1, BenchmarkEffect DEF GoesOnInv, From
        <3>5. From(p, "open", "idle") \/ From(p, "idle", "open") =>
                /\ proc[p].pc \notin {"evaluate", "target"}
                /\ benchmark' = benchmark /\ target' = target
            BY BenchmarkEffect DEF GoesOnInv, From
        <3>6. \/ From(p, "idle", "open") \/ From(p, "open", "idle")
              \/ From(p, "evaluate", "idle") \/ From(p, "target open", "idle")
              \/ proc'[p].pc \in {"evaluate", "target", "target open"}
            BY BenchmarkEffect DEF GoesOnInv, From
        <3> QED
            BY <3>1, <3>2, <3>3, <3>4, <3>5, <3>6
    <2> QED
        BY <1>1, <2>1, <2>2 DEF OpenedInv
<1> QED
    BY <1>1, <1>2, <1>4, InputsFrame, EncodedFrame, TrialsFrame, ChosenFrame
    DEF GoesOnInv

\* A death is a fault, after which nobody has to finish a file.
LEMMA CrashGoesOn ==
    ASSUME GoesOnInv, NEW p \in Processes, SearchInv', Crash(p)
    PROVE  GoesOnInv'
<1>1. /\ Alone(p) /\ proc'[p].pc = "idle" /\ faults' \in Nat /\ faults' # 0
      /\ UNCHANGED <<salt, dataset, protocol, models, reports>>
      /\ UNCHANGED <<chosen, selection, benchmark, target>>
      /\ ~raced' => ~raced /\ embeddings' = embeddings
    BY CrashEffect DEF GoesOnInv
<1>2. /\ Quiet(p, Preparing \cup Encoding) /\ Quiet(p, Registering)
      /\ Quiet(p, Reporting) /\ Quiet(p, Choosing) /\ Quiet(p, Opening)
    BY <1>1
    DEF Quiet, Preparing, Drawing, Encoding, Registering, Reporting, Choosing, Opening
<1>3. EncodedInv'
    <2>1. CASE raced'
        BY <2>1 DEF EncodedInv
    <2>2. CASE ~raced'
        <3>1. EncodedInv /\ UNCHANGED <<protocol, embeddings>> /\ ~raced
            BY <1>1, <2>2 DEF GoesOnInv
        <3> QED
            BY <1>1, <1>2, <3>1 DEF EncodedInv, Quiet, Alone, Registering
    <2> QED
        BY <2>1, <2>2
<1> QED
    BY <1>1, <1>2, <1>3, InputsFrame, TrialsFrame, ChosenFrame, OpenedFrame
    DEF GoesOnInv

\* Every step preserves the five parts.
LEMMA GoesOnPreserved ==
    GoesOnInv /\ [Next]_vars => GoesOnInv'
<1> SUFFICES ASSUME GoesOnInv, [Next]_vars PROVE GoesOnInv'
    OBVIOUS
<1>1. SearchInv'
    BY SearchPreserved DEF GoesOnInv
<1>2. CASE UNCHANGED vars
    <2>1. /\ UNCHANGED <<salt, dataset, protocol, embeddings, models, reports>>
          /\ UNCHANGED <<chosen, selection, benchmark, target, raced, faults, proc>>
        BY <1>2 DEF vars, prepared, trials, frozen, sealed
    <2>2. InputsInv' /\ EncodedInv'
        BY <2>1 DEF GoesOnInv, InputsInv, EncodedInv, Among, Whole
    <2>3. TrialsInv' /\ ChosenInv' /\ OpenedInv'
        BY <2>1 DEF GoesOnInv, TrialsInv, ChosenInv, OpenedInv, Among, At, Whole
    <2> QED
        BY <1>1, <2>1, <2>2, <2>3 DEF GoesOnInv
<1>3. ASSUME NEW p \in Processes, Step(p) \/ Crash(p) PROVE GoesOnInv'
    BY <1>1, <1>3, TodoLists, PrepareGoesOn, EncodeGoesOn, TrainGoesOn,
       SelectGoesOn, BenchmarkGoesOn, CrashGoesOn DEF Step
<1> QED
    BY <1>2, <1>3 DEF Next

\* StuckOnlyByFaults (the guards of main of ai_pipeline/continuation.py): when
\* no stage runs, none has died, no benchmark failed and no encodings raced,
\* some stage can be started that leaves a file that is still missing.
THEOREM SearchStuckOnlyByFaults == Spec => []StuckOnlyByFaults
<1>1. GoesOnInv => StuckOnlyByFaults
    <2> SUFFICES ASSUME GoesOnInv, faults = 0, ~raced,
                        \A p \in Processes : Running(p, "idle"), target = None
                 PROVE  CanGoOn
        BY DEF StuckOnlyByFaults, CanGoOn
    <2>1. \A points \in SUBSET (Points \ {"idle"}) : ~Among(points)
        BY DEF Running, Among
    <2>2. /\ ~Among({"register open", "ready open"}) /\ ~Among(Drawing)
          /\ ~Among(Registering) /\ ~Among(Choosing) /\ ~Among({"select open"})
          /\ ~Among(Opening \ {"target open"})
          /\ \A p \in Processes : proc[p].pc \notin Reporting
        BY <2>1 DEF Running, Among, Drawing, Registering, Choosing, Opening, Reporting
    <2>3. CASE ~salt
        BY <2>3 DEF GoesOnInv, InputsInv, CanGoOn
    <2>4. CASE salt
        <3>1. CheckedInputs
            BY <2>2, <2>4 DEF GoesOnInv, InputsInv, CheckedInputs, Whole
        <3>2. CASE embeddings = None
            BY <3>1, <3>2 DEF CanGoOn
        <3>3. CASE embeddings # None
            <4>1. VectorsReady
                BY <2>2, <3>1, <3>3 DEF GoesOnInv, EncodedInv, VectorsReady
            <4>2. ~benchmark
                BY <2>2 DEF GoesOnInv, OpenedInv
            <4>3. CASE selection = None
                <5>1. chosen = None
                    BY <2>2, <4>3 DEF GoesOnInv, ChosenInv
                <5>2. \A c \in Names :
                        \/ models[c] = None /\ reports[c] = None
                        \/ models[c] = reports[c] /\ models[c] \in Trials
                    BY <2>2 DEF GoesOnInv, TrialsInv, SearchInv, SearchTypeOK
                <5> QED
                    BY <4>1, <4>3, <5>1, <5>2, Contents DEF CanGoOn, Whole
            <4>4. CASE selection # None
                BY <2>2, <4>1, <4>2, <4>4 DEF GoesOnInv, ChosenInv, CanGoOn, Whole
            <4> QED
                BY <4>3, <4>4
        <3> QED
            BY <3>2, <3>3
    <2> QED
        BY <2>3, <2>4
<1> QED
    BY <1>1, GoesOnInitially, GoesOnPreserved, PTL DEF Spec

(***************************************************************************)
(* Training and release                                                    *)
(***************************************************************************)


Data == Versions \cup {NoFile}
Contracts == [parquet : Data, metadata : Data]

Trainers ==
    {NoTrainer}
    \cup [pc : {"rows"}, output : Outputs, resume : BOOLEAN]
    \cup [pc : {"contract"}, output : Outputs, resume : BOOLEAN, rows : Data]
    \cup [pc : {"epoch"}, output : Outputs, rows : Data, contract : Contracts,
          weights : Seq(Data)]

TrainingTypeOK ==
    /\ parquet \in Data /\ metadata \in Data /\ builder \in Data
    /\ overlapped \in BOOLEAN
    /\ trainer \in Trainers
    /\ checkpoint \in {NoFile} \cup [weights : Seq(Data), contract : Contracts]
    /\ artifacts \in [Outputs -> {NoFile} \cup [weights : Seq(Data), claims : Data]]

\* Every epoch went over version v.
Only(weights, v) == \A i \in 1..Len(weights) : weights[i] = v

\* The rows a trainer has in memory are those of the parquet it will name.
TrainerExact ==
    /\ trainer.pc = "contract" => trainer.rows = parquet
    /\ trainer.pc = "epoch" =>
         /\ trainer.rows = parquet /\ trainer.contract.parquet = parquet
         /\ Only(trainer.weights, parquet) /\ Len(trainer.weights) <= Epochs

\* A checkpoint was fitted on the dataset its contract names.
CheckpointExact ==
    checkpoint # NoFile => Only(checkpoint.weights, checkpoint.contract.parquet)

ArtifactsExact ==
    \A n \in Outputs : artifacts[n] # NoFile =>
       /\ Len(artifacts[n].weights) = Epochs
       /\ Only(artifacts[n].weights, artifacts[n].claims)

TrainingInv ==
    /\ TrainingTypeOK
    /\ ~overlapped => TrainerExact /\ CheckpointExact /\ ArtifactsExact

\* Nothing is built or trained at the start.
LEMMA TrainingInitially ==
    ReleaseInit => TrainingInv
<1> SUFFICES ASSUME ReleaseInit PROVE TrainingInv
    OBVIOUS
<1>1. TrainingTypeOK
    <2>1. artifacts \in [Outputs -> {NoFile} \cup [weights : Seq(Data), claims : Data]]
        BY DEF ReleaseInit
    <2>2. QED
        BY <2>1 DEF ReleaseInit, TrainingTypeOK, Data, Trainers
<1>2. TrainerExact
    BY DEF ReleaseInit, TrainerExact, NoTrainer
<1>3. CheckpointExact /\ ArtifactsExact
    BY DEF ReleaseInit, CheckpointExact, ArtifactsExact
<1>4. QED
    BY <1>1, <1>2, <1>3 DEF TrainingInv

\* Builds and the steps of the trainer keep what is trained on one version.
LEMMA TrainingPreserved ==
    TrainingInv /\ [ReleaseNext]_releaseVars => TrainingInv'
<1> SUFFICES ASSUME TrainingInv, [ReleaseNext]_releaseVars
             PROVE  TrainingInv'
    OBVIOUS
<1> USE ReleaseAssumption
<1>u. CASE UNCHANGED <<parquet, metadata, builder, overlapped, trainer,
                       checkpoint, artifacts>>
    BY <1>u DEF TrainingInv, TrainingTypeOK, TrainerExact, CheckpointExact,
                ArtifactsExact, Only
<1>1. ASSUME NEW v \in Versions, WriteParquet(v)
      PROVE  TrainingInv'
    <2>1. TrainingTypeOK'
        BY <1>1 DEF WriteParquet, TrainingInv, TrainingTypeOK, training, Data
    <2>2. ASSUME ~overlapped' PROVE TrainerExact' /\ CheckpointExact' /\ ArtifactsExact'
        <3>1. ~overlapped /\ trainer.pc \notin {"contract", "epoch"}
            BY <1>1, <2>2 DEF WriteParquet, Reading
        <3>2. QED
            BY <1>1, <3>1 DEF WriteParquet, training, TrainingInv, TrainerExact,
                              CheckpointExact, ArtifactsExact, Only
    <2>3. QED
        BY <2>1, <2>2 DEF TrainingInv
<1>2. CASE WriteMetadata
    <2>1. TrainingTypeOK'
        BY <1>2 DEF WriteMetadata, training, TrainingInv, TrainingTypeOK, Data
    <2>2. QED
        BY <1>2, <2>1 DEF WriteMetadata, training, TrainingInv, TrainerExact,
                          CheckpointExact, ArtifactsExact, Only
<1>3. ASSUME NEW n \in Outputs, NEW resume \in BOOLEAN, StartTraining(n, resume)
      PROVE  TrainingInv'
    <2>1. TrainingTypeOK'
        BY <1>3 DEF StartTraining, data, TrainingInv, TrainingTypeOK, Trainers
    <2>2. QED
        BY <1>3, <2>1 DEF StartTraining, data, TrainingInv, TrainerExact,
                          CheckpointExact, ArtifactsExact, Only
<1>4. CASE ReadRows
    <2>1. trainer \in [pc : {"rows"}, output : Outputs, resume : BOOLEAN]
        BY <1>4 DEF ReadRows, TrainingInv, TrainingTypeOK, Trainers, NoTrainer
    <2>2. TrainingTypeOK'
        BY <1>4, <2>1 DEF ReadRows, data, TrainingInv, TrainingTypeOK, Trainers
    <2>3. QED
        BY <1>4, <2>2 DEF ReadRows, data, TrainingInv, TrainerExact,
                          CheckpointExact, ArtifactsExact, Only
<1>5. CASE PrepareTraining
    <2>1. trainer \in [pc : {"contract"}, output : Outputs, resume : BOOLEAN,
                       rows : Data]
        BY <1>5 DEF PrepareTraining, TrainingInv, TrainingTypeOK, Trainers, NoTrainer
    <2>2. Contract \in Contracts /\ Contract.parquet = parquet
        BY DEF Contract, Contracts, TrainingInv, TrainingTypeOK
    <2>3. UNCHANGED <<parquet, metadata, builder, overlapped, checkpoint, artifacts>>
        BY <1>5 DEF PrepareTraining, data
    <2>4. CASE trainer' = NoTrainer
        BY <2>3, <2>4 DEF TrainingInv, TrainingTypeOK, Trainers, NoTrainer,
                          TrainerExact, CheckpointExact, ArtifactsExact, Only
    <2>5. ASSUME NEW weights \in Seq(Data), trainer' = Fitting(weights),
                 ~overlapped => Only(weights, parquet) /\ Len(weights) <= Epochs
          PROVE  TrainingInv'
        <3>1. TrainingTypeOK'
            BY <2>1, <2>2, <2>3, <2>5 DEF Fitting, TrainingInv, TrainingTypeOK, Trainers
        <3>2. ~overlapped => TrainerExact'
            BY <1>5, <2>1, <2>2, <2>3, <2>5
               DEF Fitting, PrepareTraining, TrainingInv, TrainerExact, Only
        <3>3. QED
            BY <2>3, <3>1, <3>2 DEF TrainingInv, CheckpointExact, ArtifactsExact, Only
    <2>6. CASE trainer' = Fitting(<<>>)
        <3>1. <<>> \in Seq(Data) /\ Len(<<>>) = 0 /\ 0 <= Epochs
            OBVIOUS
        <3>2. Only(<<>>, parquet)
            BY <3>1 DEF Only
        <3>3. QED
            BY <2>5, <2>6, <3>1, <3>2
    <2>7. CASE Resumes /\ trainer' = Fitting(checkpoint.weights)
        <3>1. checkpoint.weights \in Seq(Data) /\ Len(checkpoint.weights) <= Epochs
            BY <2>7 DEF Resumes, TrainingInv, TrainingTypeOK
        <3>2. ~overlapped => Only(checkpoint.weights, parquet)
            BY <2>2, <2>7 DEF Resumes, TrainingInv, CheckpointExact
        <3>3. QED
            BY <2>5, <2>7, <3>1, <3>2
    <2>8. QED
        BY <1>5, <2>4, <2>6, <2>7 DEF PrepareTraining
<1>6. CASE TrainEpoch
    <2>1. trainer \in [pc : {"epoch"}, output : Outputs, rows : Data,
                       contract : Contracts, weights : Seq(Data)]
        BY <1>6 DEF TrainEpoch, TrainingInv, TrainingTypeOK, Trainers, NoTrainer
    <2> DEFINE weights == Append(trainer.weights, trainer.rows)
    <2>2. /\ trainer' = [trainer EXCEPT !.weights = weights]
          /\ checkpoint' = [weights |-> weights, contract |-> trainer.contract]
          /\ UNCHANGED <<parquet, metadata, builder, overlapped, artifacts>>
          /\ Len(trainer.weights) < Epochs
        BY <1>6 DEF TrainEpoch, data
    <2>3. weights \in Seq(Data) /\ Len(weights) = Len(trainer.weights) + 1
        BY <2>1
    <2>4. TrainingTypeOK'
        BY <2>1, <2>2, <2>3 DEF TrainingInv, TrainingTypeOK, Trainers
    <2>5. ASSUME ~overlapped' PROVE TrainerExact' /\ CheckpointExact' /\ ArtifactsExact'
        <3>1. /\ trainer.rows = parquet /\ trainer.contract.parquet = parquet
              /\ Only(trainer.weights, parquet)
            BY <2>1, <2>2, <2>5 DEF TrainingInv, TrainerExact
        <3>2. Only(weights, parquet)
            BY <2>1, <2>3, <3>1 DEF Only
        <3>3. TrainerExact'
            BY <2>1, <2>2, <2>3, <3>1, <3>2 DEF TrainerExact, Only
        <3>4. CheckpointExact'
            BY <2>2, <3>1, <3>2 DEF CheckpointExact, Only
        <3>5. ArtifactsExact'
            BY <2>2, <2>5 DEF TrainingInv, ArtifactsExact, Only
        <3>6. QED
            BY <3>3, <3>4, <3>5
    <2>6. QED
        BY <2>4, <2>5 DEF TrainingInv
<1>7. CASE WriteArtifact
    <2>1. trainer \in [pc : {"epoch"}, output : Outputs, rows : Data,
                       contract : Contracts, weights : Seq(Data)]
        BY <1>7 DEF WriteArtifact, TrainingInv, TrainingTypeOK, Trainers, NoTrainer
    <2>2. TrainingTypeOK'
        BY <1>7, <2>1 DEF WriteArtifact, data, TrainingInv, TrainingTypeOK, Trainers
    <2>3. ASSUME ~overlapped' PROVE TrainerExact' /\ CheckpointExact' /\ ArtifactsExact'
        <3>1. Only(trainer.weights, parquet) /\ Len(trainer.weights) = Epochs
            BY <1>7, <2>1, <2>3 DEF WriteArtifact, data, TrainingInv, TrainerExact
        <3>2. ArtifactsExact'
            BY <1>7, <2>1, <2>3, <3>1
               DEF WriteArtifact, data, TrainingInv, TrainingTypeOK, ArtifactsExact, Only
        <3>3. QED
            BY <1>7, <2>3, <3>2 DEF WriteArtifact, data, NoTrainer, TrainingInv,
                                    TrainerExact, CheckpointExact, Only
    <2>4. QED
        BY <2>2, <2>3 DEF TrainingInv
<1>8. CASE Kill
    <2>1. TrainingTypeOK'
        BY <1>8 DEF Kill, TrainingInv, TrainingTypeOK, Trainers, Data
    <2>2. QED
        BY <1>8, <2>1 DEF Kill, NoTrainer, TrainingInv, TrainerExact,
                          CheckpointExact, ArtifactsExact, Only
<1>9. ASSUME NEW n \in Outputs, ScoreHoldout(n) PROVE TrainingInv'
    BY <1>9, <1>u DEF ScoreHoldout, data, training
<1>10. ASSUME NEW r \in BOOLEAN, WriteComparison(r) PROVE TrainingInv'
    BY <1>10, <1>u DEF WriteComparison, data, training
<1>11. CASE PassTime
    BY <1>11, <1>u DEF PassTime, data, training
<1>12. ASSUME NEW mode, NEW n \in Outputs, Deploy(mode, n) PROVE TrainingInv'
    BY <1>12, <1>u DEF Deploy, data, training
<1>13. ASSUME NEW h \in BOOLEAN, EndWindow(h) PROVE TrainingInv'
    BY <1>13, <1>u DEF EndWindow, data, training
<1>14. CASE UNCHANGED releaseVars
    BY <1>14, <1>u DEF releaseVars, data, training
<1>15. QED
    BY <1>1, <1>2, <1>3, <1>4, <1>5, <1>6, <1>7, <1>8, <1>9, <1>10, <1>11, <1>12,
       <1>13, <1>14 DEF ReleaseNext

\* An artifact whose epochs all went over one version was trained on that
\* version alone, since there is at least one epoch.
LEMMA ExactArtifacts ==
    TrainingInv => ResumeIsExact
<1> SUFFICES ASSUME TrainingInv, ~overlapped, NEW n \in Outputs, artifacts[n] # NoFile
             PROVE  /\ Len(artifacts[n].weights) = Epochs
                    /\ Trained(artifacts[n]) = {artifacts[n].claims}
    BY DEF ResumeIsExact
<1>1. Len(artifacts[n].weights) = Epochs /\ Only(artifacts[n].weights, artifacts[n].claims)
    BY DEF TrainingInv, ArtifactsExact
<1>2. 1 \in 1..Epochs
    BY ReleaseAssumption
<1>3. QED
    BY <1>1, <1>2 DEF Only, Trained

\* However often train.py is killed and resumed, and the dataset rebuilt, an
\* artifact has all its epochs over the one dataset its manifest names.
THEOREM ReleaseResumeIsExact == ReleaseSpec => []ResumeIsExact
<1>1. ReleaseSpec => []TrainingInv
    BY TrainingInitially, TrainingPreserved, PTL DEF ReleaseSpec
<1>2. QED
    BY <1>1, ExactArtifacts, PTL

-----------------------------------------------------------------------------

Modes == {"shadow", "canary"}

\* Windows have their times, and the rows that were scored are those of the
\* parquet the report will name.
EvidenceInv ==
    /\ clock \in Nat
    /\ live \in {NoFile} \cup [mode : Modes, model : Outputs, from : Nat]
    /\ windows \subseteq [mode : Modes, model : Outputs, from : Nat, to : Nat,
                          healthy : BOOLEAN]
    /\ overlapped \in BOOLEAN
    /\ ~overlapped => /\ evaluator.pc = "scored" => evaluator.rows = parquet
                      /\ comparison # NoFile => comparison.rows = comparison.dataset

\* There is no window and no report at the start.
LEMMA EvidenceInitially ==
    ReleaseInit => EvidenceInv
<1> SUFFICES ASSUME ReleaseInit PROVE EvidenceInv
    OBVIOUS
<1>1. clock \in Nat /\ live = NoFile /\ windows = {} /\ overlapped \in BOOLEAN
    BY DEF ReleaseInit
<1>2. evaluator.pc # "scored" /\ comparison = NoFile
    BY DEF ReleaseInit, NoEvaluator
<1>3. QED
    BY <1>1, <1>2 DEF EvidenceInv

\* Every step of the release keeps windows and report what the gate takes them
\* for.
LEMMA EvidencePreserved ==
    EvidenceInv /\ [ReleaseNext]_releaseVars => EvidenceInv'
<1> SUFFICES ASSUME EvidenceInv, [ReleaseNext]_releaseVars
             PROVE  EvidenceInv'
    OBVIOUS
<1>u. CASE UNCHANGED <<clock, live, windows, overlapped, parquet, evaluator, comparison>>
    BY <1>u DEF EvidenceInv
<1>1. ASSUME NEW v \in Versions, WriteParquet(v) PROVE EvidenceInv'
    BY <1>1 DEF WriteParquet, Reading, evaluation, operation, EvidenceInv
<1>2. CASE WriteMetadata
    BY <1>2, <1>u DEF WriteMetadata, evaluation, operation
<1>3. ASSUME NEW n \in Outputs, NEW resume \in BOOLEAN, StartTraining(n, resume)
      PROVE  EvidenceInv'
    BY <1>3, <1>u DEF StartTraining, data, evaluation, operation
<1>4. CASE ReadRows \/ PrepareTraining \/ TrainEpoch \/ WriteArtifact
    BY <1>4, <1>u DEF ReadRows, PrepareTraining, TrainEpoch, WriteArtifact, data,
                      evaluation, operation
<1>5. ASSUME NEW n \in Outputs, ScoreHoldout(n) PROVE EvidenceInv'
    BY <1>5 DEF ScoreHoldout, data, operation, EvidenceInv
<1>6. ASSUME NEW r \in BOOLEAN, WriteComparison(r) PROVE EvidenceInv'
    BY <1>6 DEF WriteComparison, data, operation, NoEvaluator, EvidenceInv
<1>7. CASE PassTime
    BY <1>7 DEF PassTime, data, evaluation, EvidenceInv
<1>8. ASSUME NEW mode \in Modes, NEW n \in Outputs, Deploy(mode, n) PROVE EvidenceInv'
    BY <1>8 DEF Deploy, data, evaluation, EvidenceInv
<1>9. ASSUME NEW h \in BOOLEAN, EndWindow(h) PROVE EvidenceInv'
    <2>1. live \in [mode : Modes, model : Outputs, from : Nat]
        BY <1>9 DEF EndWindow, EvidenceInv
    <2>2. QED
        BY <1>9, <2>1 DEF EndWindow, data, evaluation, EvidenceInv
<1>10. CASE Kill
    BY <1>10 DEF Kill, operation, NoEvaluator, EvidenceInv
<1>11. CASE UNCHANGED releaseVars
    BY <1>11, <1>u DEF releaseVars, data, evaluation, operation
<1>12. QED
    BY <1>1, <1>2, <1>3, <1>4, <1>5, <1>6, <1>7, <1>8, <1>9, <1>10, <1>11
       DEF ReleaseNext, Modes

\* On such windows and such a report the gate is right.
LEMMA ApprovalNeedsEvidence ==
    EvidenceInv => ApprovedOnItsEvidence
<1> SUFFICES ASSUME EvidenceInv, comparison # NoFile, NEW n \in Outputs,
                    NEW e \in Evidence, Approved(e, n)
             PROVE  /\ \E s, c \in windows :
                         /\ s.mode = "shadow" /\ c.mode = "canary"
                         /\ s.model = n /\ c.model = n
                         /\ s.healthy /\ c.healthy
                         /\ s.from + ShadowTime <= s.to /\ s.to <= c.from
                         /\ c.from + CanaryTime <= c.to
                    /\ comparison.model = n
                    /\ overlapped \/ comparison.rows = e.dataset
    BY DEF ApprovedOnItsEvidence
<1>1. /\ e.shadow \in windows /\ e.shadow.mode = "shadow"
      /\ e.canary \in windows /\ e.canary.mode = "canary"
    BY DEF Evidence
<1>2. /\ e.shadow.from \in Nat /\ e.shadow.to \in Nat
      /\ e.canary.from \in Nat /\ e.canary.to \in Nat
    BY <1>1 DEF EvidenceInv
<1>3. ShadowTime \in Nat /\ CanaryTime \in Nat
    BY ReleaseAssumption
<1>4. /\ e.shadow.from + ShadowTime <= e.shadow.to
      /\ e.canary.from + CanaryTime <= e.canary.to
    BY <1>2, <1>3 DEF Approved, CheckWindow
<1>5. /\ e.shadow.model = n /\ e.canary.model = n
      /\ e.shadow.healthy /\ e.canary.healthy
      /\ e.shadow.to <= e.canary.from
      /\ comparison.model = n /\ comparison.dataset = e.dataset
    BY DEF Approved, CheckWindow
<1>6. overlapped \/ comparison.rows = e.dataset
    BY <1>5 DEF EvidenceInv
<1>7. QED
    BY <1>1, <1>4, <1>5, <1>6

\* The gate approves a model only after a healthy shadow and a healthy canary
\* window of that model, long enough and in this order, and on a comparison of
\* that model over the rows of the reviewed dataset.
THEOREM ReleaseApprovedOnItsEvidence == ReleaseSpec => []ApprovedOnItsEvidence
<1>1. ReleaseSpec => []EvidenceInv
    BY EvidenceInitially, EvidencePreserved, PTL DEF ReleaseSpec
<1>2. QED
    BY <1>1, ApprovalNeedsEvidence, PTL

(***************************************************************************)
(* The dataset                                                             *)
(***************************************************************************)

Features == [post : Posts, text : Texts, source : Nat, computed : Nat]
EventRows == [id : Nat, request : Requests, post : Posts, type : EventTypes,
              occurred : Nat, ingested : Nat, long : BOOLEAN]
Histories == SUBSET [event : Nat, engaged : Nat, feature : Features]
Snapshots == [served : {TRUE}, ref : Nat, at : Nat,
              hash : [Posts -> Texts \cup {NoText}], context : Histories,
              late : BOOLEAN]

VersionsOK ==
    \A v \in versions :
       v \in [post : Posts, text : Texts, at : Nat] /\ v.at <= now

FeaturesOK ==
    /\ features \subseteq Features
    /\ \A f \in features : f.source <= f.computed /\ f.computed <= now

EventsOK ==
    /\ IsFiniteSet(events) /\ events \subseteq EventRows
    /\ \A e \in events :
         e.request \in Served /\ e.occurred <= e.ingested /\ e.ingested <= now

RequestsOK ==
    /\ requests \in [Requests -> {NoRequest} \cup Snapshots]
    /\ \A r \in Served : requests[r].ref <= requests[r].at /\ requests[r].at <= now

DatasetTypeOK ==
    now \in Nat /\ VersionsOK /\ FeaturesOK /\ EventsOK /\ RequestsOK

\* A text of a post is embedded once.
EmbeddedOnce ==
    \A f, g \in features : f.post = g.post /\ f.text = g.text => f = g

\* The texts a snapshot names were embedded when it was taken.
ScoredIsEmbedded ==
    \A r \in Served : \A p \in Posts : requests[r].hash[p] # NoText =>
       CandidateFeature(p, requests[r].hash[p], requests[r].ref) # {}

\* The context a request was served with is the history the rows stored by now
\* give for its reference time.
ServedHistory ==
    \A r \in Served :
       (\A p \in Posts : requests[r].hash[p] # NoText) /\ ~requests[r].late =>
          requests[r].context = History(events, features, requests[r].ref)

DatasetInv == DatasetTypeOK /\ EmbeddedOnce /\ ScoredIsEmbedded /\ ServedHistory

-----------------------------------------------------------------------------
(* The operators of the builder.                                           *)

Clicks(es, ref) == {e \in es : QualifiesForHistory(e, ref)}
Eligible(fs, at) == {f \in fs : f.source <= at /\ f.computed <= at}
FeatureOf(fs, e) == SelectFeature({g \in fs : g.post = e.post}, e.occurred)
Entry(e, f) == [event |-> e.id, engaged |-> e.occurred, feature |-> f]

\* An entry of a history is a click of the last ones with a feature that was
\* there when it was clicked.
LEMMA HistoryMembers ==
    ASSUME NEW es, NEW fs, NEW ref, NEW x
    PROVE  x \in History(es, fs, ref) <=>
             \E e \in Latest(Clicks(es, ref), HistoryLimit) :
                \E f \in FeatureOf(fs, e) : x = Entry(e, f)
<1> DEFINE last == Latest(Clicks(es, ref), HistoryLimit)
           entries(e) == {Entry(e, f) : f \in FeatureOf(fs, e)}
<1>1. History(es, fs, ref) = UNION {entries(e) : e \in last}
    BY DEF History, Clicks, FeatureOf, Entry
<1>2. \A e : x \in entries(e) <=> \E f \in FeatureOf(fs, e) : x = Entry(e, f)
    OBVIOUS
<1> HIDE DEF entries, last
<1>3. x \in UNION {entries(e) : e \in last} <=> \E e \in last : x \in entries(e)
    OBVIOUS
<1>4. x \in History(es, fs, ref) <=>
        \E e \in last : \E f \in FeatureOf(fs, e) : x = Entry(e, f)
    BY <1>1, <1>2, <1>3
<1> QED
    BY <1>4 DEF last

\* The feature that is selected was eligible.
LEMMA SelectedIsEligible ==
    ASSUME NEW fs, NEW at
    PROVE  SelectFeature(fs, at) \subseteq Eligible(fs, at)
BY DEF SelectFeature, Eligible

\* The choice depends on the eligible features only.
LEMMA SelectAgrees ==
    ASSUME NEW fs, NEW gs, NEW at, Eligible(fs, at) = Eligible(gs, at)
    PROVE  SelectFeature(fs, at) = SelectFeature(gs, at)
BY DEF SelectFeature, Eligible

\* Two sets of stored rows give one history if they have the same clicks and
\* the same features at the times of those.
LEMMA HistoryAgrees ==
    ASSUME NEW es, NEW ds, NEW fs, NEW gs, NEW ref,
           Clicks(es, ref) = Clicks(ds, ref),
           \A e \in Clicks(es, ref) : FeatureOf(fs, e) = FeatureOf(gs, e)
    PROVE  History(es, fs, ref) = History(ds, gs, ref)
<1>1. \A e \in Latest(Clicks(es, ref), HistoryLimit) : FeatureOf(fs, e) = FeatureOf(gs, e)
    BY DEF Latest
<1>2. ASSUME NEW x
      PROVE  x \in History(es, fs, ref) <=> x \in History(ds, gs, ref)
    BY <1>1, HistoryMembers
<1> QED
    BY <1>2

\* Of the n + s last clicks the n last are the n last of all.
LEMMA LatestOfLatest ==
    ASSUME NEW C, C \subseteq EventRows, IsFiniteSet(C), NEW n \in Nat, NEW s \in Nat
    PROVE  Latest(Latest(C, n + s), n) = Latest(C, n)
<1> DEFINE later(e, S) == {f \in S : ClickedBefore(e, f)}
           L == Latest(C, n + s)
<1>1. \A e \in C : IsFiniteSet(later(e, C)) /\ Cardinality(later(e, C)) \in Nat
    <2> TAKE e \in C
    <2>1. later(e, C) \subseteq C
        OBVIOUS
    <2> QED
        BY <2>1, FS_Subset, FS_CardinalityType
<1>2. \A e \in C : e \in L <=> Cardinality(later(e, C)) < n + s
    BY DEF Latest
<1>3. L \subseteq C
    BY DEF Latest
<1>4. ASSUME NEW e \in C, NEW f \in later(e, C)
      PROVE  Cardinality(later(f, C)) <= Cardinality(later(e, C))
    <2>1. later(f, C) \subseteq later(e, C)
        <3> SUFFICES ASSUME NEW g \in later(f, C) PROVE ClickedBefore(e, g)
            OBVIOUS
        <3>1. e \in EventRows /\ f \in EventRows /\ g \in EventRows
            OBVIOUS
        <3>2. ClickedBefore(e, f) /\ ClickedBefore(f, g)
            BY <1>4
        <3> HIDE DEF later
        <3> QED
            BY <3>1, <3>2 DEF ClickedBefore, EventRows
    <2> QED
        BY <1>1, <1>4, <2>1, FS_Subset
<1>5. ASSUME NEW e \in L PROVE later(e, L) = later(e, C)
    <2>1. \A f \in later(e, C) : f \in L
        <3> TAKE f \in later(e, C)
        <3>1. f \in C /\ e \in C
            BY <1>3
        <3>2. Cardinality(later(f, C)) <= Cardinality(later(e, C))
            BY <1>4, <3>1
        <3>3. Cardinality(later(f, C)) < n + s
            <4> HIDE DEF later, L
            <4> QED
                BY <1>1, <1>2, <1>5, <3>1, <3>2
        <3> QED
            BY <1>2, <3>1, <3>3
    <2> QED
        BY <1>3, <2>1
<1>6. \A e \in C : Cardinality(later(e, C)) < n => e \in L
    <2> HIDE DEF later, L
    <2> QED
        BY <1>1, <1>2
<1>7. Latest(L, n) = {e \in L : Cardinality(later(e, L)) < n}
    BY DEF Latest
<1>8. Latest(C, n) = {e \in C : Cardinality(later(e, C)) < n}
    BY DEF Latest
<1> HIDE DEF later, L
<1>9. Latest(L, n) = Latest(C, n)
    BY <1>3, <1>5, <1>6, <1>7, <1>8
<1> QED
    BY <1>9 DEF L

\* The history at a reference time takes what was stored by then, as the API
\* and an extraction at any later time do.
LEMMA HistoryIsPast ==
    ASSUME DatasetTypeOK, NEW ref \in Nat, NEW t \in Nat, ref <= t
    PROVE  History(Known(events, t), {f \in features : f.computed <= t}, ref)
             = History(events, features, ref)
<1>1. Clicks(Known(events, t), ref) = Clicks(events, ref)
    BY DEF DatasetTypeOK, EventsOK, EventRows, Clicks, Known, QualifiesForHistory
<1>2. ASSUME NEW e \in Clicks(events, ref)
      PROVE  FeatureOf({f \in features : f.computed <= t}, e) = FeatureOf(features, e)
    <2>1. e.occurred \in Nat /\ e.occurred < ref
        BY DEF DatasetTypeOK, EventsOK, EventRows, Clicks, QualifiesForHistory
    <2>2. Eligible({g \in {f \in features : f.computed <= t} : g.post = e.post}, e.occurred)
            = Eligible({g \in features : g.post = e.post}, e.occurred)
        BY <2>1 DEF DatasetTypeOK, FeaturesOK, Features, Eligible
    <2> QED
        BY <2>2, SelectAgrees DEF FeatureOf
<1> QED
    BY <1>1, <1>2, HistoryAgrees

\* What a request is served with is the history of the stored rows: neither the
\* limit of the query nor its bound on features leaves anything out.
LEMMA FetchedIsHistory ==
    ASSUME DatasetTypeOK, NEW ref \in Nat
    PROVE  FetchUserHistory(ref) = History(events, features, ref)
<1> DEFINE C == Clicks(events, ref)
           fs == {f \in features : f.source <= ref /\ f.computed <= ref}
           L == Latest(C, HistoryLimit + LookupSlack)
<1>1. FetchUserHistory(ref) = History(L, fs, ref)
    BY DEF FetchUserHistory, Clicks
<1>2. Clicks(L, ref) = L
    BY DEF Clicks, Latest
<1>3. Latest(L, HistoryLimit) = Latest(C, HistoryLimit)
    <2>1. C \subseteq EventRows /\ IsFiniteSet(C)
        BY FS_Subset DEF DatasetTypeOK, EventsOK, Clicks
    <2> QED
        BY <2>1, LatestOfLatest, DatasetAssumption
<1>4. ASSUME NEW e \in C PROVE FeatureOf(fs, e) = FeatureOf(features, e)
    <2>1. e.occurred \in Nat /\ e.occurred < ref
        BY DEF DatasetTypeOK, EventsOK, EventRows, Clicks, QualifiesForHistory
    <2>2. Eligible({g \in fs : g.post = e.post}, e.occurred)
            = Eligible({g \in features : g.post = e.post}, e.occurred)
        BY <2>1 DEF DatasetTypeOK, FeaturesOK, Features, Eligible
    <2> QED
        BY <2>2, SelectAgrees DEF FeatureOf
<1>5. Latest(C, HistoryLimit) \subseteq C
    BY DEF Latest
<1>6. ASSUME NEW x
      PROVE  x \in History(L, fs, ref) <=> x \in History(events, features, ref)
    <2> HIDE DEF L, fs
    <2> QED
        BY <1>2, <1>3, <1>4, <1>5, HistoryMembers
<1> QED
    BY <1>1, <1>6

\* A history has the shape the snapshots keep.
LEMMA HistoryType ==
    ASSUME DatasetTypeOK, NEW ref
    PROVE  History(events, features, ref) \in Histories
<1> SUFFICES ASSUME NEW x \in History(events, features, ref)
             PROVE  x \in [event : Nat, engaged : Nat, feature : Features]
    BY DEF Histories
<1>1. PICK e \in Latest(Clicks(events, ref), HistoryLimit) :
        \E f \in FeatureOf(features, e) : x = Entry(e, f)
    BY HistoryMembers
<1>2. PICK f \in FeatureOf(features, e) : x = Entry(e, f)
    BY <1>1
<1>3. e \in EventRows
    BY <1>1 DEF Latest, Clicks, DatasetTypeOK, EventsOK
<1>4. f \in Features
    BY <1>2, SelectedIsEligible DEF FeatureOf, Eligible, DatasetTypeOK, FeaturesOK
<1> QED
    BY <1>2, <1>3, <1>4 DEF Entry, EventRows

-----------------------------------------------------------------------------
(* The invariant.                                                          *)

\* Nothing is stored at the start.
LEMMA DatasetInitially == DatasetInit => DatasetInv
<1> SUFFICES ASSUME DatasetInit PROVE DatasetInv
    OBVIOUS
<1>1. Served = {}
    BY DEF DatasetInit, Served, NoRequest
<1>2. VersionsOK
    BY DEF DatasetInit, VersionsOK
<1>3. FeaturesOK
    BY DEF DatasetInit, FeaturesOK
<1>4. EventsOK
    BY FS_EmptySet DEF DatasetInit, EventsOK
<1>5. RequestsOK
    BY <1>1 DEF DatasetInit, RequestsOK
<1>6. EmbeddedOnce
    BY DEF DatasetInit, EmbeddedOnce
<1> QED
    BY <1>1, <1>2, <1>3, <1>4, <1>5, <1>6
    DEF DatasetInv, DatasetTypeOK, ScoredIsEmbedded, ServedHistory, DatasetInit

\* Marking the requests that are late changes nothing else about them.
LEMMA LateChangesNothing ==
    ASSUME RequestsOK, NEW marked \in [Requests -> BOOLEAN],
           requests' = [r \in Requests |->
              IF requests[r].served /\ marked[r]
              THEN [requests[r] EXCEPT !.late = TRUE] ELSE requests[r]]
    PROVE  /\ requests' \in [Requests -> {NoRequest} \cup Snapshots]
           /\ Served' = Served
           /\ \A r \in Served :
                /\ requests[r] \in Snapshots /\ requests'[r] \in Snapshots
                /\ requests'[r].ref = requests[r].ref
                /\ requests'[r].at = requests[r].at
                /\ requests'[r].hash = requests[r].hash
                /\ requests'[r].context = requests[r].context
                /\ ~requests'[r].late => ~requests[r].late /\ ~marked[r]
<1>1. \A r \in Requests :
        /\ requests[r] \in {NoRequest} \cup Snapshots
        /\ requests[r].served \in BOOLEAN
        /\ requests[r].served <=> requests[r] \in Snapshots
    <2>1. \A q \in Snapshots : q.served = TRUE
        BY DEF Snapshots
    <2>2. NoRequest.served = FALSE
        BY DEF NoRequest
    <2>3. \A r \in Requests : requests[r] \in {NoRequest} \cup Snapshots
        BY DEF RequestsOK
    <2> QED
        BY <2>1, <2>2, <2>3, Zenon
<1>2. ASSUME NEW r \in Requests, requests[r] \in Snapshots
      PROVE  LET q == requests'[r] IN
             /\ q \in Snapshots /\ q.served
             /\ q.ref = requests[r].ref /\ q.at = requests[r].at
             /\ q.hash = requests[r].hash /\ q.context = requests[r].context
             /\ ~q.late => ~requests[r].late /\ ~marked[r]
    BY <1>1, <1>2 DEF Snapshots
<1>3. ASSUME NEW r \in Requests, requests[r] \notin Snapshots
      PROVE  requests'[r] = NoRequest /\ ~requests'[r].served
    BY <1>1, <1>3 DEF NoRequest
<1>4. Served' = Served
    BY <1>1, <1>2, <1>3 DEF Served
<1> QED
    BY <1>1, <1>2, <1>3, <1>4 DEF Served

\* The clock and the edits leave what is stored about features, requests and
\* events alone.
LEMMA UnstoredKeepsInv ==
    ASSUME DatasetInv, UNCHANGED <<features, requests, events>>,
           now' \in Nat, now <= now', VersionsOK'
    PROVE  DatasetInv'
<1>1. Served' = Served
    BY DEF Served
<1>2. FeaturesOK'
    <2> SUFFICES \A f \in features : f.source <= f.computed /\ f.computed <= now'
        BY DEF DatasetInv, DatasetTypeOK, FeaturesOK
    <2> QED
        BY DEF DatasetInv, DatasetTypeOK, FeaturesOK, Features
<1>3. EventsOK'
    <2> SUFFICES \A e \in events : e.request \in Served /\ e.occurred <= e.ingested
                                   /\ e.ingested <= now'
        BY <1>1 DEF DatasetInv, DatasetTypeOK, EventsOK
    <2> QED
        BY DEF DatasetInv, DatasetTypeOK, EventsOK, EventRows
<1>4. RequestsOK'
    <2>1. \A r \in Served : requests[r] \in Snapshots
        BY DEF DatasetInv, DatasetTypeOK, RequestsOK, Served, NoRequest
    <2>2. \A r \in Served : requests[r].at \in Nat
        BY <2>1 DEF Snapshots
    <2>3. \A r \in Served : requests[r].ref <= requests[r].at /\ requests[r].at <= now'
        BY <2>2 DEF DatasetInv, DatasetTypeOK, RequestsOK
    <2> QED
        BY <1>1, <2>3 DEF DatasetInv, DatasetTypeOK, RequestsOK
<1>5. EmbeddedOnce'
    BY DEF DatasetInv, EmbeddedOnce
<1>6. ScoredIsEmbedded'
    BY <1>1 DEF DatasetInv, ScoredIsEmbedded, CandidateFeature
<1>7. ServedHistory'
    BY <1>1 DEF DatasetInv, ServedHistory
<1> QED
    BY <1>2, <1>3, <1>4, <1>5, <1>6, <1>7 DEF DatasetInv, DatasetTypeOK

\* A feature that is inserted is younger than every click a request looked at,
\* unless the request is marked late.
LEMMA InsertKeepsInv ==
    ASSUME DatasetInv, NEW p \in Posts, NEW computed \in Recent,
           InsertFeature(p, computed)
    PROVE  DatasetInv'
<1> DEFINE marked == [r \in Requests |->
                        requests[r].served /\ computed < requests[r].ref]
<1>1. PICK v \in ReadAt(p, computed) :
        /\ ~\E f \in features : f.post = p /\ f.text = v.text
        /\ features' = features \cup {FeatureRow(v, computed)}
    BY DEF InsertFeature
<1> DEFINE new == FeatureRow(v, computed)
<1>2. computed \in Nat /\ computed <= now
    BY DEF Recent, DatasetInv, DatasetTypeOK
<1>3. new \in Features /\ new.source <= new.computed /\ new.computed = computed
      /\ new.post = p /\ new.text = v.text
    BY <1>2 DEF ReadAt, DatasetInv, DatasetTypeOK, VersionsOK, FeatureRow, Features
<1>4. UNCHANGED <<now, versions, events>>
    BY DEF InsertFeature
<1>5. requests' = [r \in Requests |->
              IF requests[r].served /\ marked[r]
              THEN [requests[r] EXCEPT !.late = TRUE] ELSE requests[r]]
    BY DEF InsertFeature, Late
<1>6. /\ requests' \in [Requests -> {NoRequest} \cup Snapshots]
      /\ Served' = Served
      /\ \A r \in Served :
           /\ requests[r] \in Snapshots /\ requests'[r] \in Snapshots
           /\ requests'[r].ref = requests[r].ref
           /\ requests'[r].at = requests[r].at
           /\ requests'[r].hash = requests[r].hash
           /\ requests'[r].context = requests[r].context
           /\ ~requests'[r].late => ~requests[r].late /\ ~marked[r]
    <2>1. marked \in [Requests -> BOOLEAN]
        OBVIOUS
    <2> HIDE DEF marked
    <2> QED
        BY <1>5, <2>1, LateChangesNothing DEF DatasetInv, DatasetTypeOK
<1> HIDE DEF marked
<1>7. features' = features \cup {new}
    BY <1>1
<1> HIDE DEF new
<1>8. FeaturesOK'
    <2>1. features' \subseteq Features
        BY <1>3, <1>7 DEF DatasetInv, DatasetTypeOK, FeaturesOK
    <2>2. \A f \in features' : f.source <= f.computed /\ f.computed <= now
        BY <1>2, <1>3, <1>7 DEF DatasetInv, DatasetTypeOK, FeaturesOK
    <2> QED
        BY <1>4, <2>1, <2>2 DEF FeaturesOK
<1>9. RequestsOK'
    BY <1>4, <1>6 DEF RequestsOK, DatasetInv, DatasetTypeOK
<1>10. DatasetTypeOK'
    BY <1>4, <1>6, <1>8, <1>9 DEF DatasetInv, DatasetTypeOK, VersionsOK, EventsOK
<1>11. EmbeddedOnce'
    BY <1>1, <1>3, <1>7 DEF DatasetInv, EmbeddedOnce
<1>12. ScoredIsEmbedded'
    <2> SUFFICES ASSUME NEW r \in Served, NEW q \in Posts, requests[r].hash[q] # NoText
                 PROVE  CandidateFeature(q, requests[r].hash[q], requests[r].ref)' # {}
        BY <1>6 DEF ScoredIsEmbedded
    <2>1. PICK f \in features : f \in CandidateFeature(q, requests[r].hash[q], requests[r].ref)
        BY DEF DatasetInv, ScoredIsEmbedded, CandidateFeature
    <2>2. f \in CandidateFeature(q, requests[r].hash[q], requests[r].ref)'
        BY <1>6, <1>7, <2>1 DEF CandidateFeature
    <2> QED
        BY <2>2
<1>13. ASSUME NEW r \in Served, computed >= requests[r].ref
       PROVE  History(events, features', requests[r].ref)
                = History(events, features, requests[r].ref)
    <2> DEFINE ref == requests[r].ref
    <2>1. ref \in Nat
        BY <1>6 DEF Snapshots
    <2>2. ASSUME NEW e \in Clicks(events, ref)
          PROVE  FeatureOf(features', e) = FeatureOf(features, e)
        <3>1. e.occurred \in Nat /\ e.occurred < ref
            BY DEF DatasetInv, DatasetTypeOK, EventsOK, EventRows, Clicks,
                   QualifiesForHistory
        <3>2. ~(computed <= e.occurred)
            BY <1>2, <1>13, <2>1, <3>1
        <3>3. Eligible({g \in features' : g.post = e.post}, e.occurred)
                = Eligible({g \in features : g.post = e.post}, e.occurred)
            BY <1>3, <1>7, <3>2 DEF Eligible
        <3> QED
            BY <3>3, SelectAgrees DEF FeatureOf
    <2> QED
        BY <2>2, HistoryAgrees
<1>14. ServedHistory'
    <2> SUFFICES ASSUME NEW r \in Served, \A q \in Posts : requests[r].hash[q] # NoText,
                        ~requests'[r].late
                 PROVE  requests[r].context = History(events, features', requests[r].ref)
        BY <1>4, <1>6 DEF ServedHistory
    <2>1. requests[r].ref \in Nat /\ r \in Requests /\ requests[r].served
        BY <1>6 DEF Snapshots, Served
    <2>2. computed >= requests[r].ref
        <3>1. ~marked[r]
            BY <1>6
        <3>2. ~(computed < requests[r].ref)
            BY <2>1, <3>1, Zenon DEF marked
        <3> QED
            BY <1>2, <2>1, <3>2
    <2>3. requests[r].context = History(events, features, requests[r].ref)
        BY <1>6 DEF DatasetInv, ServedHistory
    <2> QED
        BY <1>13, <2>2, <2>3
<1> QED
    BY <1>10, <1>11, <1>12, <1>14 DEF DatasetInv

\* What a request is served with: the history of its reference time, and texts
\* that were embedded by then.
LEMMA ServedSnapshot ==
    ASSUME DatasetInv, NEW r \in Requests, NEW ref \in Recent, Serve(r, ref)
    PROVE  \E snap \in Snapshots :
             /\ requests' = [requests EXCEPT ![r] = snap]
             /\ snap.ref <= now /\ snap.at = now
             /\ (\A p \in Posts : snap.hash[p] # NoText) =>
                  snap.context = History(events, features, snap.ref)
             /\ \A p \in Posts : snap.hash[p] # NoText =>
                  CandidateFeature(p, snap.hash[p], snap.ref) # {}
<1> DEFINE snapshot(at, hash, context) ==
             [served |-> TRUE, ref |-> at, at |-> now, hash |-> hash,
              context |-> context, late |-> FALSE]
           none == [p \in Posts |-> NoText]
<1>1. ref \in Nat /\ ref <= now /\ now \in Nat
    BY DEF Recent, DatasetInv, DatasetTypeOK
<1>2. \/ \E shown \in [Posts -> Texts] :
            /\ \A p \in Posts : /\ \E v \in ReadAt(p, ref) : v.text = shown[p]
                               /\ CandidateFeature(p, shown[p], ref) # {}
            /\ requests' = [requests EXCEPT ![r] =
                 snapshot(ref, shown, FetchUserHistory(ref))]
      \/ requests' = [requests EXCEPT ![r] = snapshot(ref, none, {})]
      \/ requests' = [requests EXCEPT ![r] = snapshot(now, none, {})]
    BY DEF Serve
<1>3. CASE \E shown \in [Posts -> Texts] :
            /\ \A p \in Posts : /\ \E v \in ReadAt(p, ref) : v.text = shown[p]
                               /\ CandidateFeature(p, shown[p], ref) # {}
            /\ requests' = [requests EXCEPT ![r] =
                 snapshot(ref, shown, FetchUserHistory(ref))]
    <2>1. PICK shown \in [Posts -> Texts] :
            /\ \A p \in Posts : CandidateFeature(p, shown[p], ref) # {}
            /\ requests' = [requests EXCEPT ![r] =
                 snapshot(ref, shown, FetchUserHistory(ref))]
        BY <1>3
    <2> DEFINE snap == snapshot(ref, shown, FetchUserHistory(ref))
    <2>2. FetchUserHistory(ref) = History(events, features, ref)
          /\ FetchUserHistory(ref) \in Histories
        BY <1>1, FetchedIsHistory, HistoryType DEF DatasetInv
    <2>3. snap \in Snapshots
        BY <1>1, <2>2 DEF Snapshots
    <2> QED
        BY <1>1, <2>1, <2>2, <2>3
<1>4. ASSUME NEW at \in {ref, now},
             requests' = [requests EXCEPT ![r] = snapshot(at, none, {})]
      PROVE  \E snap \in Snapshots :
             /\ requests' = [requests EXCEPT ![r] = snap]
             /\ snap.ref <= now /\ snap.at = now
             /\ (\A p \in Posts : snap.hash[p] # NoText) =>
                  snap.context = History(events, features, snap.ref)
             /\ \A p \in Posts : snap.hash[p] # NoText =>
                  CandidateFeature(p, snap.hash[p], snap.ref) # {}
    <2> DEFINE snap == snapshot(at, none, {})
    <2>1. snap \in Snapshots
        BY <1>1, <1>4 DEF Snapshots, Histories
    <2>2. ASSUME Posts = {} PROVE History(events, features, at) = {}
        <3>1. events = {}
            BY <2>2 DEF DatasetInv, DatasetTypeOK, EventsOK, EventRows
        <3>2. Latest(Clicks(events, at), HistoryLimit) = {}
            BY <3>1 DEF Latest, Clicks
        <3> QED
            BY <3>2, HistoryMembers
    <2>3. (\A p \in Posts : snap.hash[p] # NoText) => Posts = {}
        OBVIOUS
    <2>4. /\ requests' = [requests EXCEPT ![r] = snap]
          /\ snap.ref = at /\ snap.at = now /\ snap.context = {}
          /\ \A p \in Posts : snap.hash[p] = NoText
        BY <1>4
    <2>5. at <= now
        BY <1>1
    <2> HIDE DEF snap
    <2> QED
        BY <2>1, <2>2, <2>3, <2>4, <2>5
<1> QED
    BY <1>2, <1>3, <1>4

\* Serving adds one snapshot to those that are there.
LEMMA ServeKeepsInv ==
    ASSUME DatasetInv, NEW r \in Requests, NEW ref \in Recent, Serve(r, ref)
    PROVE  DatasetInv'
<1>1. PICK snap \in Snapshots :
             /\ requests' = [requests EXCEPT ![r] = snap]
             /\ snap.ref <= now /\ snap.at = now
             /\ (\A p \in Posts : snap.hash[p] # NoText) =>
                  snap.context = History(events, features, snap.ref)
             /\ \A p \in Posts : snap.hash[p] # NoText =>
                  CandidateFeature(p, snap.hash[p], snap.ref) # {}
    BY ServedSnapshot
<1>2. UNCHANGED <<now, versions, features, events>>
    BY DEF Serve
<1>3. now \in Nat
    BY DEF DatasetInv, DatasetTypeOK
<1>4. requests' \in [Requests -> {NoRequest} \cup Snapshots]
    BY <1>1 DEF DatasetInv, DatasetTypeOK, RequestsOK
<1>5. requests'[r] = snap /\ \A q \in Requests \ {r} : requests'[q] = requests[q]
    BY <1>1 DEF DatasetInv, DatasetTypeOK, RequestsOK
<1>6. Served' = Served \cup {r}
    <2>1. snap.served
        BY DEF Snapshots
    <2> QED
        BY <1>5, <2>1 DEF Served
<1>7. \A q \in Served' : q = r \/ (q \in Served /\ requests'[q] = requests[q])
    BY <1>5, <1>6 DEF Served
<1>8. DatasetTypeOK'
    <2>1. EventsOK'
        BY <1>2, <1>6 DEF DatasetInv, DatasetTypeOK, EventsOK
    <2>2. RequestsOK'
        BY <1>1, <1>2, <1>3, <1>4, <1>5, <1>7
        DEF DatasetInv, DatasetTypeOK, RequestsOK
    <2> QED
        BY <1>2, <2>1, <2>2 DEF DatasetInv, DatasetTypeOK, VersionsOK, FeaturesOK
<1>9. EmbeddedOnce'
    BY <1>2 DEF DatasetInv, EmbeddedOnce
<1>10. ScoredIsEmbedded'
    <2> SUFFICES ASSUME NEW q \in Served', NEW p \in Posts,
                        requests'[q].hash[p] # NoText
                 PROVE  CandidateFeature(p, requests'[q].hash[p], requests'[q].ref) # {}
        BY <1>2 DEF ScoredIsEmbedded, CandidateFeature
    <2> QED
        BY <1>1, <1>5, <1>7 DEF DatasetInv, ScoredIsEmbedded
<1>11. ServedHistory'
    <2> SUFFICES ASSUME NEW q \in Served', \A p \in Posts : requests'[q].hash[p] # NoText,
                        ~requests'[q].late
                 PROVE  requests'[q].context = History(events, features, requests'[q].ref)
        BY <1>2 DEF ServedHistory
    <2> QED
        BY <1>1, <1>5, <1>7 DEF DatasetInv, ServedHistory
<1> QED
    BY <1>8, <1>9, <1>10, <1>11 DEF DatasetInv

\* A row that comes late is one no request looked at, unless that is marked.
LEMMA IngestKeepsInv ==
    ASSUME DatasetInv, NEW r \in Requests, NEW p \in Posts, NEW type \in EventTypes,
           NEW occurred \in Recent, NEW ingested \in Recent,
           Ingest(r, p, type, occurred, ingested)
    PROVE  DatasetInv'
<1> DEFINE row == [id |-> Cardinality(events) + 1, request |-> r, post |-> p,
                   type |-> type, occurred |-> occurred, ingested |-> ingested,
                   long |-> FALSE]
           marked == [q \in Requests |->
                        requests[q].served /\ QualifiesForHistory(row, requests[q].ref)]
<1>1. /\ r \in Served /\ occurred <= ingested
      /\ events' = events \cup {row}
      /\ UNCHANGED <<now, versions, features>>
    BY DEF Ingest
<1>2. /\ IsFiniteSet(events) /\ Cardinality(events) \in Nat
      /\ now \in Nat
      /\ occurred \in Nat /\ ingested \in Nat /\ ingested <= now
    BY FS_CardinalityType DEF DatasetInv, DatasetTypeOK, EventsOK, Recent
<1>3. row \in EventRows
    BY <1>2 DEF EventRows
<1>4. requests' = [q \in Requests |->
              IF requests[q].served /\ marked[q]
              THEN [requests[q] EXCEPT !.late = TRUE] ELSE requests[q]]
    BY DEF Ingest, Late
<1>5. marked \in [Requests -> BOOLEAN]
    BY DEF QualifiesForHistory
<1>6. \A q \in Served : ~marked[q] => ~QualifiesForHistory(row, requests[q].ref)
    BY DEF Served
<1>7. row.request = r /\ row.occurred = occurred /\ row.ingested = ingested
    OBVIOUS
<1> HIDE DEF marked, row
<1>8. /\ requests' \in [Requests -> {NoRequest} \cup Snapshots]
      /\ Served' = Served
      /\ \A q \in Served :
           /\ requests[q] \in Snapshots /\ requests'[q] \in Snapshots
           /\ requests'[q].ref = requests[q].ref
           /\ requests'[q].at = requests[q].at
           /\ requests'[q].hash = requests[q].hash
           /\ requests'[q].context = requests[q].context
           /\ ~requests'[q].late => ~requests[q].late /\ ~marked[q]
    BY <1>4, <1>5, LateChangesNothing DEF DatasetInv, DatasetTypeOK
<1>9. EventsOK'
    <2>1. IsFiniteSet(events')
        BY <1>1, <1>2, FS_AddElement
    <2>2. events' \subseteq EventRows
        BY <1>1, <1>3 DEF DatasetInv, DatasetTypeOK, EventsOK
    <2>3. \A e \in events' :
             e.request \in Served /\ e.occurred <= e.ingested /\ e.ingested <= now
        BY <1>1, <1>2, <1>7 DEF DatasetInv, DatasetTypeOK, EventsOK
    <2> QED
        BY <1>1, <1>8, <2>1, <2>2, <2>3 DEF EventsOK
<1>10. RequestsOK'
    BY <1>1, <1>8 DEF RequestsOK, DatasetInv, DatasetTypeOK
<1>11. DatasetTypeOK'
    BY <1>1, <1>9, <1>10 DEF DatasetInv, DatasetTypeOK, VersionsOK, FeaturesOK
<1>12. EmbeddedOnce'
    BY <1>1 DEF DatasetInv, EmbeddedOnce
<1>13. ScoredIsEmbedded'
    <2> SUFFICES ASSUME NEW s \in Served, NEW q \in Posts, requests[s].hash[q] # NoText
                 PROVE  CandidateFeature(q, requests[s].hash[q], requests[s].ref) # {}
        BY <1>1, <1>8 DEF ScoredIsEmbedded, CandidateFeature
    <2> QED
        BY DEF DatasetInv, ScoredIsEmbedded
<1>14. ServedHistory'
    <2> SUFFICES ASSUME NEW s \in Served, \A q \in Posts : requests[s].hash[q] # NoText,
                        ~requests'[s].late
                 PROVE  requests[s].context = History(events', features, requests[s].ref)
        BY <1>1, <1>8 DEF ServedHistory
    <2>1. ~requests[s].late /\ ~QualifiesForHistory(row, requests[s].ref)
        BY <1>6, <1>8
    <2>2. Clicks(events', requests[s].ref) = Clicks(events, requests[s].ref)
        BY <1>1, <2>1 DEF Clicks
    <2>3. History(events', features, requests[s].ref)
            = History(events, features, requests[s].ref)
        BY <2>2, HistoryAgrees
    <2> QED
        BY <2>1, <2>3 DEF DatasetInv, ServedHistory
<1> QED
    BY <1>11, <1>12, <1>13, <1>14 DEF DatasetInv

\* The clock moves on, or a post gets a text.
LEMMA UnstoredStepKeepsInv ==
    ASSUME DatasetInv,
           Tick \/ \E p \in Posts, t \in Texts : Edit(p, t)
    PROVE  DatasetInv'
<1>1. now \in Nat
    BY DEF DatasetInv, DatasetTypeOK
<1>2. CASE Tick
    <2>1. now' = now + 1 /\ UNCHANGED <<versions, features, requests, events>>
        BY <1>2 DEF Tick
    <2>2. VersionsOK'
        BY <1>1, <2>1 DEF DatasetInv, DatasetTypeOK, VersionsOK
    <2> QED
        BY <1>1, <2>1, <2>2, UnstoredKeepsInv
<1>3. ASSUME NEW p \in Posts, NEW t \in Texts, Edit(p, t)
      PROVE  DatasetInv'
    <2>1. /\ versions' = versions \cup {[post |-> p, text |-> t, at |-> now]}
          /\ UNCHANGED <<now, features, requests, events>>
        BY <1>3 DEF Edit
    <2>2. VersionsOK'
        BY <1>1, <2>1 DEF DatasetInv, DatasetTypeOK, VersionsOK
    <2> QED
        BY <1>1, <2>1, <2>2, UnstoredKeepsInv
<1> QED
    BY <1>2, <1>3

\* Every step of the system keeps the invariant.
LEMMA DatasetPreserved == DatasetInv /\ [DatasetNext]_datasetVars => DatasetInv'
<1> SUFFICES ASSUME DatasetInv, [DatasetNext]_datasetVars PROVE DatasetInv'
    OBVIOUS
<1>1. CASE Tick \/ \E p \in Posts, t \in Texts : Edit(p, t)
    BY <1>1, UnstoredStepKeepsInv
<1>2. ASSUME NEW p \in Posts, NEW at \in Recent, InsertFeature(p, at)
      PROVE  DatasetInv'
    BY <1>2, InsertKeepsInv
<1>3. ASSUME NEW r \in Requests, NEW at \in Recent, Serve(r, at)
      PROVE  DatasetInv'
    BY <1>3, ServeKeepsInv
<1>4. ASSUME NEW r \in Requests, NEW p \in Posts, NEW type \in EventTypes,
             NEW occurred \in Recent, NEW ingested \in Recent,
             Ingest(r, p, type, occurred, ingested)
      PROVE  DatasetInv'
    BY <1>4, IngestKeepsInv
<1>5. CASE UNCHANGED datasetVars
    <2>1. now \in Nat
        BY DEF DatasetInv, DatasetTypeOK
    <2>2. VersionsOK'
        BY <1>5 DEF datasetVars, DatasetInv, DatasetTypeOK, VersionsOK
    <2> QED
        BY <1>5, <2>1, <2>2, UnstoredKeepsInv DEF datasetVars
<1> QED
    BY <1>1, <1>2, <1>3, <1>4, <1>5 DEF DatasetNext

\* The invariant of the stored rows holds in every state.
LEMMA DatasetInvariant == DatasetSpec => []DatasetInv
BY DatasetInitially, DatasetPreserved, PTL DEF DatasetSpec

-----------------------------------------------------------------------------
(* The rows of an extraction.                                              *)

\* The row of an impression first seen at a time.
RowOf(r, p, q, es, fs, seen) ==
    LET linked == {e \in es : e.request = r /\ e.post = p} IN
    [request |-> r, post |-> p, served |-> q.at, seen |-> seen,
     click |-> \E e \in LabelEvents(q.at, seen, linked) : e.type = "click",
     label |-> Semantic(LabelEvents(q.at, seen, linked), "v2", TRUE),
     article |-> Article(q, p, fs),
     history |-> History(es, fs, q.ref)]

SeenOf(r, p, q, es, t) ==
    {x \in ExposureAt(q.at, {e \in es : e.request = r /\ e.post = p}) : Mature(x, t)}

IsRow(row, reqs, es, fs, t) ==
    \E r \in {x \in Requests : reqs[x].served} : \E p \in Posts :
    \E seen \in SeenOf(r, p, reqs[r], Known(es, t), t) :
       row = RowOf(r, p, reqs[r], Known(es, t), {f \in fs : f.computed <= t}, seen)

\* A row of an extraction is that of an impression that was seen, made from
\* the events and features known then.
LEMMA RowSources ==
    ASSUME NEW reqs, NEW es, NEW fs, NEW t, NEW row
    PROVE  row \in Dataset(reqs, es, fs, t) <=> IsRow(row, reqs, es, fs, t)
<1> DEFINE gs == {f \in fs : f.computed <= t}
           ds == Known(es, t)
           served == {x \in Requests : reqs[x].served}
<1>1. Dataset(reqs, es, fs, t) =
        UNION {RowsOf(r, p, reqs[r], ds, gs, t) : r \in served, p \in Posts}
    BY DEF Dataset
<1>2. \A r, p : RowsOf(r, p, reqs[r], ds, gs, t) =
        {RowOf(r, p, reqs[r], ds, gs, seen) : seen \in SeenOf(r, p, reqs[r], ds, t)}
    BY DEF RowsOf, RowOf, SeenOf
<1> HIDE DEF gs, ds, served
<1>3. row \in UNION {RowsOf(r, p, reqs[r], ds, gs, t) : r \in served, p \in Posts}
        <=> \E r \in served, p \in Posts : row \in RowsOf(r, p, reqs[r], ds, gs, t)
    OBVIOUS
<1>4. \A r, p : row \in RowsOf(r, p, reqs[r], ds, gs, t) <=>
        \E seen \in SeenOf(r, p, reqs[r], ds, t) : row = RowOf(r, p, reqs[r], ds, gs, seen)
    BY <1>2
<1>5. row \in Dataset(reqs, es, fs, t) <=>
        \E r \in served : \E p \in Posts : \E seen \in SeenOf(r, p, reqs[r], ds, t) :
           row = RowOf(r, p, reqs[r], ds, gs, seen)
    <2>1. row \in Dataset(reqs, es, fs, t) <=>
            \E r \in served : \E p \in Posts : row \in RowsOf(r, p, reqs[r], ds, gs, t)
        BY <1>1, <1>3
    <2> QED
        BY <1>4, <2>1, Zenon
<1> QED
    BY <1>5, Zenon DEF gs, ds, served, IsRow

\* An impression is seen after it was served and before the extraction, which
\* therefore has the whole history of its reference time.
LEMMA RowFacts ==
    ASSUME DatasetInv, NEW t \in 0..now, NEW row \in Rows(t)
    PROVE  \E r \in Served, p \in Posts : \E seen \in Nat :
             LET q == requests[r] IN
             /\ q \in Snapshots
             /\ q.ref <= q.at /\ q.at <= seen /\ seen <= t
             /\ row = RowOf(r, p, q, Known(events, t),
                            {f \in features : f.computed <= t}, seen)
             /\ row.history = History(events, features, q.ref)
<1>1. PICK r \in Served, p \in Posts :
        \E seen \in SeenOf(r, p, requests[r], Known(events, t), t) :
           row = RowOf(r, p, requests[r], Known(events, t),
                       {f \in features : f.computed <= t}, seen)
    <2>1. row \in Dataset(requests, events, features, t)
        BY DEF Rows
    <2>2. IsRow(row, requests, events, features, t)
        BY <2>1, RowSources
    <2> QED
        BY <2>2, Zenon DEF Served, IsRow
<1> DEFINE q == requests[r]
<1>2. PICK seen \in SeenOf(r, p, q, Known(events, t), t) :
        row = RowOf(r, p, q, Known(events, t), {f \in features : f.computed <= t}, seen)
    BY <1>1
<1>3. q \in Snapshots
    <2>1. q \in {NoRequest} \cup Snapshots /\ q.served
        BY DEF DatasetInv, DatasetTypeOK, RequestsOK, Served
    <2> QED
        BY <2>1 DEF NoRequest
<1>4. PICK e \in Known(events, t) : e.occurred = seen /\ e.occurred >= q.at
    BY <1>2 DEF SeenOf, ExposureAt
<1>5. e \in EventRows /\ e.occurred <= t
    BY <1>4 DEF Known, DatasetInv, DatasetTypeOK, EventsOK
<1>6. q.ref \in Nat /\ q.at \in Nat /\ t \in Nat /\ seen \in Nat
    <2>1. q.ref \in Nat /\ q.at \in Nat
        BY <1>3 DEF Snapshots
    <2>2. t \in Nat
        BY DEF DatasetInv, DatasetTypeOK
    <2>3. e.occurred \in Nat
        BY <1>5 DEF EventRows
    <2> QED
        BY <1>4, <2>1, <2>2, <2>3
<1>7. q.ref <= q.at
    BY DEF DatasetInv, DatasetTypeOK, RequestsOK
<1>8. q.at <= seen /\ seen <= t
    BY <1>4, <1>5, <1>6
<1>9. row.history = History(Known(events, t), {f \in features : f.computed <= t}, q.ref)
    BY <1>2 DEF RowOf
<1>10. row.history = History(events, features, q.ref)
    BY <1>6, <1>7, <1>8, <1>9, HistoryIsPast DEF DatasetInv
<1> QED
    BY <1>2, <1>3, <1>6, <1>7, <1>8, <1>10

\* An entry of a history carries a feature that was there when its post was
\* clicked, before the reference time.
LEMMA HistoryFacts ==
    ASSUME DatasetTypeOK, NEW ref \in Nat, NEW h \in History(events, features, ref)
    PROVE  /\ h.feature \in features /\ h.engaged \in Nat
           /\ h.feature.source <= h.feature.computed
           /\ h.feature.computed <= h.engaged
           /\ h.engaged < ref
<1>1. PICK e \in Latest(Clicks(events, ref), HistoryLimit) :
        \E f \in FeatureOf(features, e) : h = Entry(e, f)
    BY HistoryMembers
<1>2. PICK f \in FeatureOf(features, e) : h = Entry(e, f)
    BY <1>1
<1>3. e \in EventRows /\ e.occurred < ref
    BY <1>1 DEF Latest, Clicks, QualifiesForHistory, DatasetTypeOK, EventsOK
<1>4. f \in features /\ f.computed <= e.occurred
    BY <1>2, SelectedIsEligible DEF FeatureOf, Eligible
<1> QED
    BY <1>2, <1>3, <1>4 DEF Entry, EventRows, DatasetTypeOK, FeaturesOK

\* The article of an impression is a feature of the post from before its
\* reference time.
LEMMA ArticleFacts ==
    ASSUME NEW q, NEW p, NEW fs, NEW f \in Article(q, p, fs)
    PROVE  /\ f \in fs /\ f.post = p /\ q.hash[p] \in {NoText, f.text}
           /\ f.source <= q.ref /\ f.computed <= q.ref
BY SelectedIsEligible DEF Article, Eligible

\* With the window closed an impression that was seen always has a label that
\* can be trained on.
LEMMA ClosedLabel ==
    ASSUME NEW L
    PROVE  Semantic(L, "v2", TRUE) # "exposure"
<1> DEFINE kinds == Qualifies(L, "v2", TRUE)
           first(i) == /\ Precedence[i] \in kinds
                       /\ \A j \in 1..i-1 : Precedence[j] \notin kinds
<1>1. \E i \in 1..6 : Precedence[i] \in kinds
    BY DEF Qualifies, Irreversible, Precedence
<1> HIDE DEF kinds
<1>2. \E i \in 1..6 : first(i)
    BY <1>1
<1>3. DOMAIN Precedence = 1..7
    BY DEF Precedence
<1>4. \A i \in 1..7 : first(i) => i \in 1..6
    BY <1>1
<1>5. \A i \in 1..6 : Precedence[i] # "exposure"
    BY DEF Precedence
<1>6. Semantic(L, "v2", TRUE) = Precedence[CHOOSE i \in DOMAIN Precedence : first(i)]
    BY DEF Semantic, Foremost, kinds
<1> DEFINE i == CHOOSE j \in DOMAIN Precedence : first(j)
<1> HIDE DEF first
<1>7. \E j \in DOMAIN Precedence : first(j)
    BY <1>2, <1>3
<1>8. i \in DOMAIN Precedence /\ first(i)
    BY <1>7, Zenon
<1> HIDE DEF i
<1>9. Precedence[i] # "exposure"
    BY <1>3, <1>4, <1>5, <1>8
<1> QED
    BY <1>6, <1>9 DEF i

-----------------------------------------------------------------------------
(* The theorems.                                                           *)

\* From the invariant: as long as a request is not late, the rows stored since
\* it was served change nothing in its history.
LEMMA InvTrainedAsServed == DatasetInv => TrainedAsServed
<1> SUFFICES ASSUME DatasetInv, NEW r \in Served,
                    \A p \in Posts : requests[r].hash[p] # NoText, ~requests[r].late,
                    NEW t \in requests[r].at..now
             PROVE  History(Known(events, t), {f \in features : f.computed <= t},
                            requests[r].ref) = requests[r].context
    BY DEF TrainedAsServed
<1>1. requests[r] \in Snapshots
    BY DEF DatasetInv, DatasetTypeOK, RequestsOK, Served, NoRequest
<1>2. requests[r].ref \in Nat /\ requests[r].at \in Nat
    BY <1>1 DEF Snapshots
<1>3. requests[r].ref <= requests[r].at
    BY DEF DatasetInv, DatasetTypeOK, RequestsOK
<1>4. t \in Nat /\ requests[r].ref <= t
    BY <1>2, <1>3 DEF DatasetInv, DatasetTypeOK
<1>5. requests[r].context = History(events, features, requests[r].ref)
    BY DEF DatasetInv, ServedHistory
<1> QED
    BY <1>2, <1>4, <1>5, HistoryIsPast DEF DatasetInv

\* From the invariant: a text that was scored had its only feature by the
\* reference time, and no extraction has a row of it before that.
LEMMA InvScoredTextIsTrained == DatasetInv => ScoredTextIsTrained
<1> SUFFICES ASSUME DatasetInv, NEW t \in 0..now, NEW row \in Rows(t),
                    requests[row.request].hash[row.post] # NoText
             PROVE  {f.text : f \in row.article} = {requests[row.request].hash[row.post]}
    BY DEF ScoredTextIsTrained
<1>1. PICK r \in Served, p \in Posts : \E seen \in Nat :
             LET q == requests[r] IN
             /\ q \in Snapshots
             /\ q.ref <= q.at /\ q.at <= seen /\ seen <= t
             /\ row = RowOf(r, p, q, Known(events, t),
                            {f \in features : f.computed <= t}, seen)
             /\ row.history = History(events, features, q.ref)
    BY RowFacts
<1> DEFINE q == requests[r]
           text == q.hash[p]
           fs == {f \in features : f.computed <= t}
<1>2. PICK seen \in Nat :
             /\ q \in Snapshots
             /\ q.ref <= q.at /\ q.at <= seen /\ seen <= t
             /\ row = RowOf(r, p, q, Known(events, t), fs, seen)
    BY <1>1
<1>3. row.request = r /\ row.post = p /\ row.article = Article(q, p, fs)
    BY <1>2 DEF RowOf
<1>4. q.ref \in Nat /\ q.at \in Nat /\ t \in Nat
    <2>1. q.ref \in Nat /\ q.at \in Nat
        BY <1>2 DEF Snapshots
    <2>2. t \in Nat
        BY DEF DatasetInv, DatasetTypeOK
    <2> QED
        BY <2>1, <2>2
<1>5. text # NoText
    BY <1>3
<1>6. PICK f \in features : f \in CandidateFeature(p, text, q.ref)
    BY <1>5 DEF DatasetInv, ScoredIsEmbedded, CandidateFeature
<1>7. f \in Features /\ f.post = p /\ f.text = text
      /\ f.source <= q.ref /\ f.computed <= q.ref
    BY <1>6 DEF CandidateFeature, DatasetInv, DatasetTypeOK, FeaturesOK
<1>8. f \in fs
    <2>1. f.computed \in Nat
        BY <1>7 DEF Features
    <2> QED
        BY <1>2, <1>4, <1>7, <2>1
<1>9. ASSUME NEW g \in fs, g.post = p, q.hash[p] \in {NoText, g.text}
      PROVE  g = f
    BY <1>5, <1>7, <1>9 DEF DatasetInv, EmbeddedOnce
<1>10. f \in Article(q, p, fs)
    <2> DEFINE gs == {g \in fs : g.post = p /\ q.hash[p] \in {NoText, g.text}}
    <2>1. gs = {f}
        BY <1>7, <1>8, <1>9
    <2>2. Newer(f, f)
        BY <1>7 DEF Newer, Features
    <2>3. f \in SelectFeature({f}, q.ref)
        BY <1>7, <2>2 DEF SelectFeature
    <2> QED
        BY <2>1, <2>3 DEF Article
<1>11. Article(q, p, fs) = {f}
    <2>1. \A g \in Article(q, p, fs) :
            g \in fs /\ g.post = p /\ q.hash[p] \in {NoText, g.text}
        <3> HIDE DEF q, fs
        <3> QED
            BY ArticleFacts
    <2> QED
        BY <1>9, <1>10, <2>1
<1> QED
    BY <1>3, <1>7, <1>11

\* An article whose features are in order is refused for its absence only.
LEMMA ArticleAccepted ==
    ASSUME NEW article, NEW available,
           \A f \in article : ~(f.source > f.computed) /\ ~(f.computed > available)
    PROVE  ArticleRefusals(article, available) \subseteq {"missing article"}
BY Zenon DEF ArticleRefusals

\* From the invariant: what the validator could refuse a row for is excluded
\* by the times its parts were stored at.
LEMMA InvBuilderMeetsValidator == DatasetInv => BuilderMeetsValidator
<1> SUFFICES ASSUME DatasetInv, NEW t \in 0..now, Rows(t) # {}
             PROVE  Refusals(Rows(t)) \subseteq
                      {"missing article", "short request", "one class"}
    BY Zenon DEF BuilderMeetsValidator
<1>1. ASSUME NEW row \in Rows(t)
      PROVE  /\ \A f \in row.article :
                   ~(f.source > f.computed) /\ ~(f.computed > row.served)
             /\ \A h \in row.history :
                   /\ ~(h.feature.source > h.feature.computed)
                   /\ ~(h.feature.computed > h.engaged)
                   /\ ~(h.engaged >= row.served)
             /\ ~(row.seen < row.served)
             /\ row.label # "exposure"
             /\ row.history = History(events, features, requests[row.request].ref)
    <2>1. PICK r \in Served, p \in Posts : \E seen \in Nat :
             LET q == requests[r] IN
             /\ q \in Snapshots
             /\ q.ref <= q.at /\ q.at <= seen /\ seen <= t
             /\ row = RowOf(r, p, q, Known(events, t),
                            {f \in features : f.computed <= t}, seen)
             /\ row.history = History(events, features, q.ref)
        BY <1>1, RowFacts
    <2> DEFINE q == requests[r]
               fs == {f \in features : f.computed <= t}
    <2>2. PICK seen \in Nat :
             /\ q \in Snapshots
             /\ q.ref <= q.at /\ q.at <= seen /\ seen <= t
             /\ row = RowOf(r, p, q, Known(events, t), fs, seen)
        BY <2>1
    <2>3. /\ row.request = r /\ row.served = q.at /\ row.seen = seen
          /\ row.article = Article(q, p, fs)
        BY <2>2 DEF RowOf
    <2>4. row.label # "exposure"
        BY <2>2, ClosedLabel DEF RowOf
    <2>5. q.ref \in Nat /\ q.at \in Nat
        BY <2>2 DEF Snapshots
    <2>6. ASSUME NEW f \in row.article
          PROVE  ~(f.source > f.computed) /\ ~(f.computed > row.served)
        <3>1. f \in features /\ f.computed <= q.ref
            BY <2>3, <2>6, ArticleFacts
        <3>2. f.source \in Nat /\ f.computed \in Nat /\ f.source <= f.computed
            BY <3>1 DEF DatasetInv, DatasetTypeOK, FeaturesOK, Features
        <3> QED
            BY <2>2, <2>3, <2>5, <3>1, <3>2
    <2>7. ASSUME NEW h \in row.history
          PROVE  /\ ~(h.feature.source > h.feature.computed)
                 /\ ~(h.feature.computed > h.engaged)
                 /\ ~(h.engaged >= row.served)
        <3>1. /\ h.feature \in features /\ h.engaged \in Nat
              /\ h.feature.source <= h.feature.computed
              /\ h.feature.computed <= h.engaged
              /\ h.engaged < q.ref
            BY <2>1, <2>5, <2>7, HistoryFacts DEF DatasetInv
        <3>2. h.feature.source \in Nat /\ h.feature.computed \in Nat
            BY <3>1 DEF DatasetInv, DatasetTypeOK, FeaturesOK, Features
        <3> QED
            BY <2>2, <2>3, <2>5, <3>1, <3>2
    <2>8. ~(row.seen < row.served)
        BY <2>2, <2>3, <2>5
    <2> QED
        BY <2>1, <2>3, <2>4, <2>6, <2>7, <2>8
<1>2. ASSUME NEW row \in Rows(t)
      PROVE  ArticleRefusals(row.article, row.served) \subseteq {"missing article"}
    BY <1>1, <1>2, ArticleAccepted
<1>3. ASSUME NEW row \in Rows(t), NEW h \in row.history
      PROVE  ArticleRefusals({h.feature}, h.engaged) \subseteq {"missing article"}
    BY <1>1, <1>3, ArticleAccepted
<1>4. \A x, y \in Rows(t) : x.request = y.request => x.history = y.history
    BY <1>1
<1> DEFINE rows == Rows(t)
<1>5. rows # {}
    OBVIOUS
<1> HIDE DEF rows
<1>6. UNION {ArticleRefusals(row.article, row.served) : row \in rows}
        \subseteq {"missing article"}
    BY <1>2, Zenon DEF rows
<1>7. UNION {UNION {ArticleRefusals({h.feature}, h.engaged) : h \in row.history}
             : row \in rows} \subseteq {"missing article"}
    <2> DEFINE refused(row) ==
                 UNION {ArticleRefusals({h.feature}, h.engaged) : h \in row.history}
    <2>1. ASSUME NEW row \in rows PROVE refused(row) \subseteq {"missing article"}
        BY <1>3, <2>1, Zenon DEF rows
    <2> HIDE DEF refused
    <2>2. UNION {refused(row) : row \in rows} \subseteq {"missing article"}
        BY <2>1, Zenon
    <2> QED
        BY <2>2, Zenon DEF refused
<1>8. /\ {"no rows" : x \in {y \in {rows} : y = {}}} = {}
      /\ {"seen before served" : row \in {x \in rows : x.seen < x.served}} = {}
      /\ {"no label" : row \in {x \in rows : x.label = "exposure"}} = {}
      /\ {"history not before serving" : row \in {x \in rows :
            \E h \in x.history : h.engaged >= x.served}} = {}
      /\ {"histories differ" : row \in {x \in rows :
            \E y \in rows : y.request = x.request /\ y.history # x.history}} = {}
    BY <1>1, <1>4, <1>5, Zenon DEF rows
<1>9. Refusals(rows) \subseteq {"missing article", "short request", "one class"}
    BY <1>6, <1>7, <1>8, Zenon DEF Refusals
<1> QED
    BY <1>9, Zenon DEF rows

\* Two states have the same rows for a time if the events and features known
\* then are the same, requests differ in marks only, and what was served since
\* has no events yet.
LEMMA SameRows ==
    ASSUME NEW reqs, NEW later, NEW es, NEW ds, NEW fs, NEW gs, NEW t,
           Known(es, t) = Known(ds, t),
           {f \in fs : f.computed <= t} = {f \in gs : f.computed <= t},
           \A r \in Requests : reqs[r].served =>
              /\ later[r].served
              /\ later[r].ref = reqs[r].ref /\ later[r].at = reqs[r].at
              /\ later[r].hash = reqs[r].hash,
           \A r \in Requests : later[r].served =>
              reqs[r].served \/ \A e \in Known(es, t) : e.request # r
    PROVE  Dataset(later, ds, gs, t) = Dataset(reqs, es, fs, t)
<1> DEFINE known == Known(es, t)
           there == {f \in fs : f.computed <= t}
<1>1. ASSUME NEW r \in Requests, reqs[r].served, NEW p \in Posts
      PROVE  /\ SeenOf(r, p, later[r], known, t) = SeenOf(r, p, reqs[r], known, t)
             /\ \A seen : RowOf(r, p, later[r], known, there, seen)
                            = RowOf(r, p, reqs[r], known, there, seen)
    <2>1. /\ later[r].ref = reqs[r].ref /\ later[r].at = reqs[r].at
          /\ later[r].hash = reqs[r].hash
        BY <1>1
    <2>2. SeenOf(r, p, later[r], known, t) = SeenOf(r, p, reqs[r], known, t)
        BY <2>1, Zenon DEF SeenOf
    <2>3. Article(later[r], p, there) = Article(reqs[r], p, there)
        BY <2>1, Zenon DEF Article
    <2>4. \A seen : RowOf(r, p, later[r], known, there, seen)
                      = RowOf(r, p, reqs[r], known, there, seen)
        BY <2>1, <2>3, Zenon DEF RowOf
    <2> QED
        BY <2>2, <2>4
<1>2. ASSUME NEW r \in Requests, ~reqs[r].served, later[r].served, NEW p \in Posts
      PROVE  SeenOf(r, p, later[r], known, t) = {}
    <2>1. {e \in known : e.request = r /\ e.post = p} = {}
        BY <1>2
    <2> QED
        BY <2>1 DEF SeenOf, ExposureAt
<1>3. Known(ds, t) = known /\ {f \in gs : f.computed <= t} = there
    OBVIOUS
<1> HIDE DEF known, there
<1>4. ASSUME NEW row
      PROVE  IsRow(row, later, ds, gs, t) <=> IsRow(row, reqs, es, fs, t)
    <2>1. IsRow(row, later, ds, gs, t) <=>
            \E r \in {x \in Requests : later[x].served} : \E p \in Posts :
            \E seen \in SeenOf(r, p, later[r], known, t) :
               row = RowOf(r, p, later[r], known, there, seen)
        BY <1>3, Zenon DEF IsRow
    <2>2. IsRow(row, reqs, es, fs, t) <=>
            \E r \in {x \in Requests : reqs[x].served} : \E p \in Posts :
            \E seen \in SeenOf(r, p, reqs[r], known, t) :
               row = RowOf(r, p, reqs[r], known, there, seen)
        BY Zenon DEF IsRow, known, there
    <2>3. ASSUME IsRow(row, later, ds, gs, t) PROVE IsRow(row, reqs, es, fs, t)
        <3>1. PICK r \in Requests, p \in Posts :
                /\ later[r].served
                /\ \E seen \in SeenOf(r, p, later[r], known, t) :
                      row = RowOf(r, p, later[r], known, there, seen)
            BY <2>1, <2>3, Zenon
        <3>2. reqs[r].served
            BY <1>2, <3>1, Zenon
        <3> QED
            BY <1>1, <2>2, <3>1, <3>2, Zenon
    <2>4. ASSUME IsRow(row, reqs, es, fs, t) PROVE IsRow(row, later, ds, gs, t)
        <3>1. PICK r \in Requests, p \in Posts :
                /\ reqs[r].served
                /\ \E seen \in SeenOf(r, p, reqs[r], known, t) :
                      row = RowOf(r, p, reqs[r], known, there, seen)
            BY <2>2, <2>4, Zenon
        <3>2. later[r].served
            BY <3>1, Zenon
        <3> QED
            BY <1>1, <2>1, <3>1, <3>2, Zenon
    <2> QED
        BY <2>3, <2>4
<1>5. ASSUME NEW row
      PROVE  row \in Dataset(later, ds, gs, t) <=> row \in Dataset(reqs, es, fs, t)
    BY <1>4, RowSources
<1>6. /\ Dataset(later, ds, gs, t) \subseteq Dataset(reqs, es, fs, t)
      /\ Dataset(reqs, es, fs, t) \subseteq Dataset(later, ds, gs, t)
    BY <1>5
<1> QED
    BY <1>6, Zenon

\* A step changes the rows of an extraction time only if it stores something
\* that is stamped before that time.
LEMMA StepReproducible ==
    ASSUME DatasetInv, [DatasetNext]_datasetVars, NEW t \in 0..now
    PROVE  \/ \E f \in features' \ features : f.computed <= t
           \/ \E e \in events' \ events : e.ingested <= t
           \/ Dataset(requests', events', features', t) = Rows(t)
<1>1. CASE \/ UNCHANGED datasetVars
           \/ Tick
           \/ \E p \in Posts, x \in Texts : Edit(p, x)
    <2>1. UNCHANGED <<features, requests, events>>
        BY <1>1 DEF datasetVars, Tick, Edit
    <2> QED
        BY <2>1, Zenon DEF Rows
<1>2. ASSUME NEW p \in Posts, NEW at \in Recent, InsertFeature(p, at),
             ~\E f \in features' \ features : f.computed <= t
      PROVE  Dataset(requests', events', features', t) = Rows(t)
    <2> DEFINE marked == [r \in Requests |->
                            requests[r].served /\ at < requests[r].ref]
    <2>1. \A r \in Requests : requests[r].served =>
              /\ requests'[r].served
              /\ requests'[r].ref = requests[r].ref
              /\ requests'[r].at = requests[r].at
              /\ requests'[r].hash = requests[r].hash
        <3>1. requests' = [r \in Requests |->
                 IF requests[r].served /\ marked[r]
                 THEN [requests[r] EXCEPT !.late = TRUE] ELSE requests[r]]
            BY <1>2 DEF InsertFeature, Late
        <3>2. marked \in [Requests -> BOOLEAN]
            OBVIOUS
        <3> HIDE DEF marked
        <3> QED
            BY <3>1, <3>2, LateChangesNothing DEF DatasetInv, DatasetTypeOK, Served
    <2>2. Served' = Served /\ events' = events
        BY <1>2, <2>1 DEF InsertFeature, Late, Served
    <2>3. PICK new : features' = features \cup {new}
        BY <1>2 DEF InsertFeature
    <2>4. {f \in features : f.computed <= t} = {f \in features' : f.computed <= t}
        BY <1>2, <2>3
    <2>5. \A r \in Requests : requests'[r].served => requests[r].served
        BY <2>2 DEF Served
    <2> QED
        BY <2>1, <2>2, <2>4, <2>5, SameRows DEF Rows
<1>3. ASSUME NEW r \in Requests, NEW at \in Recent, Serve(r, at)
      PROVE  Dataset(requests', events', features', t) = Rows(t)
    <2>1. PICK snap \in Snapshots : requests' = [requests EXCEPT ![r] = snap]
        BY <1>3, ServedSnapshot
    <2>2. ~requests[r].served /\ UNCHANGED <<features, events>>
        BY <1>3 DEF Serve
    <2>3. \A q \in Requests : q # r => requests'[q] = requests[q]
        BY <2>1 DEF DatasetInv, DatasetTypeOK, RequestsOK
    <2>4. \A e \in Known(events, t) : e.request # r
        BY <2>2 DEF Known, DatasetInv, DatasetTypeOK, EventsOK, Served
    <2>5. \A q \in Requests : requests[q].served => requests'[q] = requests[q]
        BY <2>2, <2>3
    <2>6. \A q \in Requests : requests'[q].served =>
             requests[q].served \/ \A e \in Known(events, t) : e.request # q
        BY <2>3, <2>4
    <2>7. \A q \in Requests : requests[q].served =>
              /\ requests'[q].served
              /\ requests'[q].ref = requests[q].ref
              /\ requests'[q].at = requests[q].at
              /\ requests'[q].hash = requests[q].hash
        BY <2>5
    <2> QED
        BY <2>2, <2>6, <2>7, SameRows DEF Rows
<1>4. ASSUME NEW r \in Requests, NEW p \in Posts, NEW type \in EventTypes,
             NEW occurred \in Recent, NEW ingested \in Recent,
             Ingest(r, p, type, occurred, ingested),
             ~\E e \in events' \ events : e.ingested <= t
      PROVE  Dataset(requests', events', features', t) = Rows(t)
    <2> DEFINE row == [id |-> Cardinality(events) + 1, request |-> r, post |-> p,
                       type |-> type, occurred |-> occurred, ingested |-> ingested,
                       long |-> FALSE]
               marked == [q \in Requests |->
                            requests[q].served /\ QualifiesForHistory(row, requests[q].ref)]
    <2>1. \A q \in Requests : requests[q].served =>
              /\ requests'[q].served
              /\ requests'[q].ref = requests[q].ref
              /\ requests'[q].at = requests[q].at
              /\ requests'[q].hash = requests[q].hash
        <3>1. requests' = [q \in Requests |->
                 IF requests[q].served /\ marked[q]
                 THEN [requests[q] EXCEPT !.late = TRUE] ELSE requests[q]]
            BY <1>4 DEF Ingest, Late
        <3>2. marked \in [Requests -> BOOLEAN]
            BY DEF QualifiesForHistory
        <3> HIDE DEF marked
        <3> QED
            BY <3>1, <3>2, LateChangesNothing DEF DatasetInv, DatasetTypeOK, Served
    <2>2. events' = events \cup {row} /\ features' = features
        BY <1>4 DEF Ingest
    <2> HIDE DEF row
    <2>3. Known(events, t) = Known(events', t)
        BY <1>4, <2>2 DEF Known
    <2>4. \A q \in Requests : requests'[q].served => requests[q].served
        BY <1>4 DEF Ingest, Late
    <2> QED
        BY <2>1, <2>2, <2>3, <2>4, SameRows DEF Rows
<1> QED
    BY <1>1, <1>2, <1>3, <1>4 DEF DatasetNext

\* No extraction time fails on leakage: the validator refuses a build only for
\* a missing article, a short request or a lack of classes.
THEOREM DatasetBuilderMeetsValidator == DatasetSpec => []BuilderMeetsValidator
BY DatasetInvariant, InvBuilderMeetsValidator, PTL

\* The history a model was served with is the one every later extraction
\* trains it with, unless a row that was stamped earlier came later.
THEOREM DatasetTrainedAsServed == DatasetSpec => []TrainedAsServed
BY DatasetInvariant, InvTrainedAsServed, PTL

\* A row whose text was scored has the embedding of that text at every
\* extraction time, whatever was edited since.
THEOREM DatasetScoredTextIsTrained == DatasetSpec => []ScoredTextIsTrained
BY DatasetInvariant, InvScoredTextIsTrained, PTL

\* A build for an earlier time gives the same rows again, unless a feature or
\* an event stamped before that time was stored meanwhile.
THEOREM DatasetReproducible == DatasetSpec => Reproducible
<1>1. DatasetInv /\ [DatasetNext]_datasetVars =>
        [\A t \in 0..now :
           \/ \E f \in features' \ features : f.computed <= t
           \/ \E e \in events' \ events : e.ingested <= t
           \/ Dataset(requests', events', features', t) = Rows(t)]_datasetVars
    BY StepReproducible
<1> QED
    BY <1>1, DatasetInvariant, PTL DEF DatasetSpec, Reproducible

(***************************************************************************)
(* The splits                                                              *)
(***************************************************************************)

\* A non-empty set of naturals has a least element.
LEMMA Least ==
    ASSUME NEW S, S \subseteq Nat, S # {}
    PROVE  \E m \in S : \A n \in S : m <= n
<1>1. PICK m \in S : \A n \in S : <<n, m>> \notin OpToRel(<, Nat)
    BY NatLessThanWellFounded, WFMin
<1>2. \A n \in S : ~(n < m)
    BY <1>1 DEF OpToRel
<1> QED
    BY <1>2

\* A product does not fall when a factor grows.
LEMMA Products ==
    ASSUME NEW n \in Nat, NEW p \in Nat, NEW q \in Nat, p <= q
    PROVE  n * p \in Nat /\ n * p <= n * q
OBVIOUS

\* What the two small splits leave for the training split.
LEMMA Counts ==
    ASSUME NEW n \in Nat, n >= 2
    PROVE  /\ TestCount(n) \in 1..n /\ ValidationCount(n) \in 0..n
           /\ TestCount(n) + ValidationCount(n) <= n
           /\ TrainPercent + ValidationPercent > 25 =>
                 TestCount(n) + ValidationCount(n) <= n - 1
<1> DEFINE rest == 100 - TrainPercent - ValidationPercent
           product == n * rest
           test == AtLeast(1, (product + 50) \div 100)
<1>1. rest \in 1..98 /\ (TrainPercent + ValidationPercent > 25 => rest <= 74)
    BY SplitAssumption
<1>2. product \in Nat /\ product <= n * 98 /\ (rest <= 74 => product <= n * 74)
    <2> HIDE DEF rest
    <2>1. rest \in Nat
        BY <1>1
    <2> QED
        BY <1>1, <2>1, Products
<1>3. TestCount(n) = test
    BY DEF TestCount
<1> HIDE DEF rest, product
<1>4. test \in 1..n /\ (rest <= 74 => test <= n - 1)
    BY <1>2 DEF AtLeast
<1> HIDE DEF test
<1> DEFINE share == n * ValidationPercent
           wanted == IF n >= 3 THEN AtLeast(1, Round(share)) ELSE 0
<1>5. wanted \in Nat
    <2>1. share \in Nat
        BY SplitAssumption, Products
    <2> HIDE DEF share
    <2>2. Round(share) \in Nat
        BY <2>1 DEF Round
    <2> QED
        BY <2>2 DEF AtLeast
<1>6. ValidationCount(n) = IF test + wanted >= n THEN AtLeast(0, n - test - 1) ELSE wanted
    BY <1>3 DEF ValidationCount
<1> HIDE DEF wanted
<1> QED
    BY <1>1, <1>3, <1>4, <1>5, <1>6 DEF AtLeast

\* The nearest boundaries that part no two requests of one time.
LEMMA DownClean ==
    ASSUME NEW b \in Nat
    PROVE  Down(b) \in 0..b /\ Clean(Down(b)) /\ \A d \in Down(b) + 1..b : ~Clean(d)
<1> DEFINE steps == {k \in 0..b : Clean(b - k)}
<1>1. steps \subseteq Nat /\ b \in steps
    BY DEF Clean
<1>2. PICK k \in steps : \A j \in steps : k <= j
    BY <1>1, Least
<1>3. b - k \in 0..b /\ Clean(b - k)
    BY <1>2
<1>4. \A d \in b - k + 1..b : ~Clean(d)
    <2> TAKE d \in b - k + 1..b
    <2>1. b - d \in 0..b /\ b - d < k /\ b - (b - d) = d
        BY <1>2
    <2> QED
        BY <1>2, <2>1
<1>5. \E c \in 0..b : Clean(c) /\ \A d \in c + 1..b : ~Clean(d)
    BY <1>3, <1>4
<1> QED
    BY <1>5 DEF Down

\* The same upwards, among the requests there are.
LEMMA UpClean ==
    ASSUME Len(times) \in Nat, NEW b \in 0..Len(times)
    PROVE  /\ Up(b) \in b..Len(times) /\ Clean(Up(b))
           /\ \A d \in b..Up(b) - 1 : ~Clean(d)
<1> DEFINE ends == {c \in b..Len(times) : Clean(c)}
<1>1. ends \subseteq Nat /\ Len(times) \in ends
    BY DEF Clean
<1>2. PICK c \in ends : \A d \in ends : c <= d
    BY <1>1, Least
<1>3. \A d \in b..c - 1 : ~Clean(d)
    <2> TAKE d \in b..c - 1
    <2>1. d \in b..Len(times) /\ ~(c <= d)
        BY <1>2
    <2> QED
        BY <1>2, <2>1
<1>4. \E e \in b..Len(times) : Clean(e) /\ \A d \in b..e - 1 : ~Clean(d)
    BY <1>2, <1>3
<1> QED
    BY <1>4 DEF Up

\* Requests of two times have a boundary between them.
LEMMA SomeBoundary ==
    ASSUME Len(times) \in Nat, Len(times) >= 2, times[1] # times[Len(times)]
    PROVE  \E c \in 1..Len(times) - 1 : Clean(c)
<1> DEFINE later == {i \in 1..Len(times) : times[i] # times[1]}
<1>1. later \subseteq Nat /\ Len(times) \in later
    OBVIOUS
<1>2. PICK i \in later : \A j \in later : i <= j
    BY <1>1, Least
<1>3. i - 1 \in 1..Len(times) - 1 /\ i - 1 \notin later /\ i - 1 + 1 = i
    BY <1>2
<1>4. times[i - 1] = times[1] /\ times[i] # times[1]
    BY <1>2, <1>3
<1> QED
    BY <1>3, <1>4 DEF Clean

\* Snapping gives a clean boundary, and leaves both sides populated if a clean
\* boundary can.
LEMMA SnapClean ==
    ASSUME Len(times) \in Nat, NEW b \in 0..Len(times), NEW left \in BOOLEAN
    PROVE  /\ Snap(b, left) \in 0..Len(times) /\ Clean(Snap(b, left))
           /\ b \in 1..Len(times) - 1 /\ (\E c \in 1..Len(times) - 1 : Clean(c)) =>
                 Snap(b, left) \in 1..Len(times) - 1
<1> DEFINE low == Down(b)
           high == Up(b)
           sides(c) == (IF c > 0 THEN 1 ELSE 0) + (IF c < Len(times) THEN 1 ELSE 0)
           wanted(c) == IF left THEN c > 0 ELSE c < Len(times)
           rest == IF wanted(low) # wanted(high)
                   THEN IF wanted(low) THEN low ELSE high
                   ELSE IF b - low <= high - b THEN low ELSE high
           snapped == Snap(b, left)
<1>1. low \in 0..b /\ Clean(low) /\ \A d \in low + 1..b : ~Clean(d)
    <2>1. b \in Nat
        OBVIOUS
    <2> QED
        BY ONLY <2>1, DownClean
<1>2. high \in b..Len(times) /\ Clean(high) /\ \A d \in b..high - 1 : ~Clean(d)
    BY UpClean
<1>3. snapped = IF b <= 0 THEN 0
                ELSE IF sides(low) # sides(high)
                THEN IF sides(low) > sides(high) THEN low ELSE high
                ELSE rest
    BY Zenon DEF Snap
<1>4. rest = low \/ rest = high
    OBVIOUS
<1> HIDE DEF rest, low, high, snapped
<1>5. sides(low) \in 0..2 /\ sides(high) \in 0..2
    OBVIOUS
<1>6. CASE b <= 0
    BY <1>3, <1>6 DEF Clean, snapped
<1>7. CASE b > 0
    <2>1. \/ snapped = low /\ sides(low) >= sides(high)
          \/ snapped = high /\ sides(high) >= sides(low)
        <3> HIDE DEF sides
        <3> QED
            BY <1>3, <1>4, <1>5, <1>7
    <2>2. snapped \in 0..Len(times) /\ Clean(snapped)
        BY <1>1, <1>2, <2>1
    <2>3. ASSUME b \in 1..Len(times) - 1, NEW c \in 1..Len(times) - 1, Clean(c)
          PROVE  snapped \in 1..Len(times) - 1
        <3>1. CASE c <= b
            <4>1. low >= c
                BY <1>1, <2>3, <3>1
            <4>2. sides(low) = 2
                BY <1>1, <2>3, <4>1
            <4>3. sides(snapped) = 2
                BY <1>5, <2>1, <4>2
            <4> QED
                BY <2>2, <4>3
        <3>2. CASE ~(c <= b)
            <4>1. high <= c
                BY <1>2, <2>3, <3>2
            <4>2. sides(high) = 2
                BY <1>2, <2>3, <4>1
            <4>3. sides(snapped) = 2
                BY <1>5, <2>1, <4>2
            <4> QED
                BY <2>2, <4>3
        <3> QED
            BY <3>1, <3>2
    <2> QED
        BY <2>2, <2>3 DEF snapped
<1> QED
    BY <1>6, <1>7

\* The splits of the dataset there is.
LEMMA SplitsClean ==
    ASSUME Len(times) \in Nat
    PROVE  /\ \A s \in {SplitV1, SplitV2} :
                 /\ 0 <= s.train /\ s.train <= s.validation /\ s.validation <= Len(times)
                 /\ Clean(s.train) /\ Clean(s.validation)
           /\ Len(times) >= 2 => SplitV1.validation < Len(times)
           /\ /\ Len(times) >= 2 /\ times[1] # times[Len(times)]
              /\ TrainPercent + ValidationPercent > 25
              => SplitV2.train > 0 /\ SplitV2.validation < Len(times)
<1> DEFINE n == Len(times)
           cut == n - TestCount(n)
           bound == n - ValidationCount(n) - TestCount(n)
<1>1. CASE n <= 1
    <2>1. SplitV1 = [train |-> n, validation |-> n] /\ SplitV2 = [train |-> n, validation |-> n]
        BY <1>1 DEF SplitV1, SplitV2
    <2> QED
        BY <1>1, <2>1 DEF Clean
<1>2. CASE n >= 2
    <2>1. /\ cut \in 0..n-1 /\ bound \in 0..cut
          /\ TrainPercent + ValidationPercent > 25 => bound >= 1
        <3>1. /\ TestCount(n) \in 1..n /\ ValidationCount(n) \in 0..n
              /\ TestCount(n) + ValidationCount(n) <= n
              /\ TrainPercent + ValidationPercent > 25 =>
                    TestCount(n) + ValidationCount(n) <= n - 1
            BY <1>2, Counts
        <3>2. n \in Nat
            OBVIOUS
        <3> HIDE DEF n
        <3> QED
            BY <1>2, <3>1, <3>2
    <2> DEFINE low == CHOOSE c \in Down(bound)..cut :
                         /\ c = Down(bound) \/ Clean(c)
                         /\ \A d \in c + 1..cut : ~Clean(d)
               train == Snap(bound, TRUE)
               validation == Snap(cut, FALSE)
    <2>2. SplitV1 = [train |-> Down(bound), validation |-> low]
        BY <1>2 DEF SplitV1
    <2>3. SplitV2 = [train |-> train, validation |-> AtLeast(train, validation)]
        BY <1>2 DEF SplitV2
    <2> HIDE DEF cut, bound
    <2>4. Down(bound) \in 0..bound /\ Clean(Down(bound))
          /\ Down(cut) \in 0..cut /\ Clean(Down(cut))
          /\ \A d \in Down(cut) + 1..cut : ~Clean(d)
        <3>1. bound \in Nat /\ cut \in Nat
            BY <2>1
        <3> QED
            BY <3>1, DownClean
    <2>5. low \in Down(bound)..cut /\ Clean(low)
        <3>1. \E c \in Down(bound)..cut : /\ c = Down(bound) \/ Clean(c)
                                         /\ \A d \in c + 1..cut : ~Clean(d)
            <4>1. CASE Down(cut) >= Down(bound)
                BY <2>1, <2>4, <4>1
            <4>2. CASE ~(Down(cut) >= Down(bound))
                <5>1. \A d \in Down(bound) + 1..cut : ~Clean(d)
                    BY <2>1, <2>4, <4>2
                <5> QED
                    BY <2>1, <2>4, <5>1
            <4> QED
                BY <4>1, <4>2
        <3>2. /\ low \in Down(bound)..cut
              /\ low = Down(bound) \/ Clean(low)
            BY <3>1
        <3> QED
            BY <2>4, <3>2
    <2>6. bound \in 0..Len(times) /\ cut \in 0..Len(times)
        BY <2>1
    <2>7. /\ train \in 0..n /\ Clean(train) /\ validation \in 0..n /\ Clean(validation)
          /\ bound \in 1..n-1 /\ (\E c \in 1..n-1 : Clean(c)) => train \in 1..n-1
          /\ cut \in 1..n-1 /\ (\E c \in 1..n-1 : Clean(c)) => validation \in 1..n-1
        BY <2>6, SnapClean
    <2> HIDE DEF low, train, validation
    <2>8. /\ 0 <= Down(bound) /\ Down(bound) <= low /\ low < n
          /\ Clean(Down(bound)) /\ Clean(low)
        BY <2>1, <2>4, <2>5
    <2>9. /\ 0 <= train /\ train <= AtLeast(train, validation)
          /\ AtLeast(train, validation) <= n
          /\ Clean(train) /\ Clean(AtLeast(train, validation))
        BY <2>7 DEF AtLeast
    <2>10. ASSUME times[1] # times[n], TrainPercent + ValidationPercent > 25
           PROVE  train > 0 /\ AtLeast(train, validation) < n
        <3>1. \E c \in 1..n-1 : Clean(c)
            BY <1>2, <2>10, SomeBoundary
        <3>2. bound \in 1..n-1 /\ cut \in 1..n-1
            BY <2>1, <2>10
        <3> QED
            BY <2>7, <3>1, <3>2 DEF AtLeast
    <2>11. /\ SplitV1.train = Down(bound) /\ SplitV1.validation = low
           /\ SplitV2.train = train /\ SplitV2.validation = AtLeast(train, validation)
        BY <2>2, <2>3
    <2>12. \A s \in {SplitV1, SplitV2} :
             /\ 0 <= s.train /\ s.train <= s.validation /\ s.validation <= n
             /\ Clean(s.train) /\ Clean(s.validation)
        <3>1. ASSUME NEW s, s = SplitV1
              PROVE  /\ 0 <= s.train /\ s.train <= s.validation /\ s.validation <= n
                     /\ Clean(s.train) /\ Clean(s.validation)
            BY <2>5, <2>6, <2>8, <2>11, <3>1
        <3>2. ASSUME NEW s, s = SplitV2
              PROVE  /\ 0 <= s.train /\ s.train <= s.validation /\ s.validation <= n
                     /\ Clean(s.train) /\ Clean(s.validation)
            BY <2>9, <2>11, <3>2
        <3> QED
            BY <3>1, <3>2
    <2> QED
        BY <2>8, <2>10, <2>11, <2>12
<1> QED
    BY <1>1, <1>2

\* The times of the requests are a sequence.
LEMMA SplitTimes == SplitSpec => [](times \in Seq(Nat))
<1>1. SplitInit => times \in Seq(Nat)
    BY DEF SplitInit
<1>2. times \in Seq(Nat) /\ [ServeRequest]_splitVars => (times \in Seq(Nat))'
    <2> SUFFICES ASSUME times \in Seq(Nat), ServeRequest PROVE times' \in Seq(Nat)
        BY DEF splitVars
    <2>1. PICK gap \in {0, 1} :
             times' = Append(times, IF times = <<>> THEN 1 ELSE times[Len(times)] + gap)
        BY DEF ServeRequest
    <2>2. (IF times = <<>> THEN 1 ELSE times[Len(times)] + gap) \in Nat
        <3>1. CASE times = <<>>
            BY <3>1
        <3>2. CASE times # <<>>
            <4>1. Len(times) \in 1..Len(times)
                BY <3>2
            <4> QED
                BY <4>1
        <3> QED
            BY <3>1, <3>2
    <2> QED
        BY <2>1, <2>2
<1> QED
    BY <1>1, <1>2, PTL DEF SplitSpec

\* No request of a later split is as old as one of an earlier split, and no split
\* is given up for it, for datasets of any length and any shares of training and
\* validation.  Two requests need more than a quarter of the dataset outside the
\* test split: with less, both of them belong to it.
THEOREM SplitNothingFromTheFuture ==
    ASSUME TrainPercent + ValidationPercent > 25
    PROVE  SplitSpec => []NothingFromTheFuture
<1>1. times \in Seq(Nat) => NothingFromTheFuture
    <2> SUFFICES ASSUME Len(times) \in Nat PROVE NothingFromTheFuture
        OBVIOUS
    <2> QED
        BY SplitsClean DEF NothingFromTheFuture
<1> QED
    BY <1>1, SplitTimes, PTL
=============================================================================
