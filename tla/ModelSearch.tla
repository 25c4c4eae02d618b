---------------------------- MODULE ModelSearch ----------------------------
(***************************************************************************)
(* ai_pipeline/continuation.py: a search for a better ranker, run stage by *)
(* stage from the command line over one directory.  The directory is the   *)
(* only memory: a stage looks at the files that are there, works for hours *)
(* and leaves its own.  Nothing locks it, so stages may overlap (--trial   *)
(* invites it), and a stage may die between two files.                     *)
(*                                                                         *)
(* A file is None, Torn (truncated and not finished, or mixed) or          *)
(* its contents.  A model is known by its configuration, its validation    *)
(* score, the embeddings it was fitted on and those its manifest claims.   *)
(* Two preparations or encodings differ (their arguments may), so their    *)
(* results carry the process that made them.                               *)
(***************************************************************************)
EXTENDS Naturals, Sequences, FiniteSets, Functions

CONSTANTS
    Processes,
    Configs,      \* the registered configurations, in order
    Parent,       \* the name of the model the search starts from
    ParentScore,  \* its validation_ndcg_at_10
    Scores,       \* the validation scores a fit can reach
    None,
    Torn,
    MaxFaults     \* bound on crashes and failed benchmarks

ASSUME SearchAssumption ==
    /\ Scores \subseteq Nat /\ ParentScore \in Nat /\ MaxFaults \in Nat
    /\ Configs \in Seq(Range(Configs)) /\ Parent \notin Range(Configs)
    /\ None # Torn

VARIABLES
    salt,        \* identity-salt exists
    dataset,     \* dataset.json
    protocol,    \* search-protocol.json: checksums of dataset and embeddings
    embeddings,  \* embeddings.npz
    models,      \* trials/<name>/model
    reports,     \* trials/<name>/training.json
    chosen,      \* model
    selection,   \* selection.json
    benchmark,   \* the directory benchmark exists
    target,      \* target-result.json
    opened,      \* the models that saw the holdout's labels
    raced,       \* two encodings wrote their embeddings at the same time
    faults,
    proc         \* the running stages

prepared == <<salt, dataset>>
trials == <<models, reports>>
frozen == <<chosen, selection>>
sealed == <<benchmark, target, opened>>
vars == <<prepared, protocol, embeddings, trials, frozen, sealed, raced,
          faults, proc>>

Names == Range(Configs)
NoProcess == [pc |-> "idle", todo |-> <<>>, read |-> None, vectors |-> None,
              model |-> None]
ParentModel == [name |-> Parent, score |-> ParentScore, vectors |-> None,
                claims |-> None]

\* What a file can hold is told from no file and from a torn one.
ASSUME ContentsAssumption ==
    LET Files == Processes \cup {None, Torn} IN
    /\ {None, Torn} \cap Processes = {}
    /\ {None, Torn} \cap [dataset : Files, vectors : Files] = {}
    /\ {None, Torn} \cap [name : Names \cup {Parent}, score : Scores \cup {ParentScore},
                          vectors : Files, claims : Files] = {}

Init ==
    /\ salt = FALSE /\ dataset = None /\ protocol = None /\ embeddings = None
    /\ models = [c \in Names |-> None] /\ reports = [c \in Names |-> None]
    /\ chosen = None /\ selection = None
    /\ benchmark = FALSE /\ target = None /\ opened = <<>>
    /\ raced = FALSE /\ faults = 0
    /\ proc = [p \in Processes |-> NoProcess]

Whole(file) == file \notin {None, Torn}
Running(p, pc) == proc[p].pc = pc
GoTo(p, pc) == proc' = [proc EXCEPT ![p].pc = pc]
Exit(p) == proc' = [proc EXCEPT ![p] = NoProcess]

(***************************************************************************)
(* --stage prepare                                                         *)
(***************************************************************************)

\* The dataset is drawn from the source files, which takes a while.
Prepare(p) ==
    /\ Running(p, "idle")
    /\ protocol = None /\ dataset = None
    /\ GoTo(p, "salt")
    /\ UNCHANGED <<prepared, protocol, embeddings, trials, frozen, sealed,
                   raced, faults>>

\* The salt may be there already.
MUT_StoreSalt(p) ==
    /\ Running(p, "salt")
    /\ salt' = TRUE /\ GoTo(p, "dataset")
    /\ UNCHANGED <<dataset, protocol, embeddings, trials, frozen, sealed,
                   raced, faults>>

\* store_identity_salt opens with O_EXCL: only one preparation gets past it.
StoreSalt(p) ==
    /\ Running(p, "salt")
    /\ \/ ~salt /\ salt' = TRUE /\ GoTo(p, "dataset")
       \/ salt /\ salt' = salt /\ Exit(p)
    /\ UNCHANGED <<dataset, protocol, embeddings, trials, frozen, sealed,
                   raced, faults>>

WriteDataset(p) ==
    /\ \/ Running(p, "dataset") /\ dataset' = Torn /\ GoTo(p, "dataset open")
       \/ Running(p, "dataset open") /\ dataset' = p /\ GoTo(p, "register")
    /\ UNCHANGED <<salt, protocol, embeddings, trials, frozen, sealed, raced,
                   faults>>

\* The protocol registers the checksum of the file as it is by then.
WriteProtocol(p) ==
    /\ \/ Running(p, "register") /\ protocol' = Torn /\ GoTo(p, "register open")
       \/ /\ Running(p, "register open")
          /\ protocol' = [dataset |-> dataset, vectors |-> None]
          /\ Exit(p)
    /\ UNCHANGED <<prepared, embeddings, trials, frozen, sealed, raced, faults>>

(***************************************************************************)
(* --stage encode                                                          *)
(***************************************************************************)

CheckedInputs == Whole(protocol) /\ dataset = protocol.dataset

\* With embeddings.npz there the stage returns at once: it registers nothing.
Encode(p) ==
    /\ Running(p, "idle")
    /\ CheckedInputs /\ embeddings = None
    /\ proc' = [proc EXCEPT ![p].pc = "encode", ![p].read = protocol]
    /\ UNCHANGED <<prepared, protocol, embeddings, trials, frozen, sealed,
                   raced, faults>>

\* The file is written without another look.
MUT_CacheEmbeddings(p) ==
    /\ Running(p, "encode")
    /\ embeddings' = p /\ GoTo(p, "audit")
    /\ UNCHANGED <<prepared, protocol, trials, frozen, sealed, raced, faults>>

Writers == {p \in Processes : Running(p, "replace")}

\* A process writes its embeddings, and another does or did so since it looked.
Overlaps(p) == p \in Writers /\ (embeddings # None \/ Writers # {p})

\* cached_embeddings looks again, keeps what another run has put there, if it
\* loads, and else writes embeddings.tmp.npz and renames it, a moment later.  That
\* is one name: two that write at once write one file.  The first to rename it
\* publishes the contents of either or a mixture; the other goes on writing into
\* what is published and finds nothing to rename, unless it opened the file later.
CacheEmbeddings(p) ==
    /\ \/ /\ Running(p, "encode")
          /\ \/ embeddings = None /\ GoTo(p, "replace")
             \/ embeddings # None /\ GoTo(p, "audit")
             \/ embeddings = Torn /\ Exit(p)
          /\ UNCHANGED <<embeddings, raced>>
       \/ /\ Running(p, "replace")
          /\ raced' = (raced \/ Overlaps(p))
          /\ \/ embeddings' \in (IF raced' THEN Writers \cup {Torn} ELSE {p})
                /\ GoTo(p, "audit")
             \/ /\ embeddings # None /\ embeddings' \in {embeddings, p, Torn}
                /\ Exit(p)
    /\ UNCHANGED <<prepared, protocol, trials, frozen, sealed, faults>>

ReadChecksum(p) ==
    /\ Running(p, "audit")
    /\ proc' = [proc EXCEPT ![p].pc = "ready", ![p].vectors = embeddings]
    /\ UNCHANGED <<prepared, protocol, embeddings, trials, frozen, sealed,
                   raced, faults>>

\* The protocol of two hours ago is written back with the checksum in it.
RegisterEmbeddings(p) ==
    /\ \/ Running(p, "ready") /\ protocol' = Torn /\ GoTo(p, "ready open")
       \/ /\ Running(p, "ready open")
          /\ protocol' = [proc[p].read EXCEPT !.vectors = proc[p].vectors]
          /\ Exit(p)
    /\ UNCHANGED <<prepared, embeddings, trials, frozen, sealed, raced, faults>>

(***************************************************************************)
(* --stage train                                                           *)
(***************************************************************************)

\* main, before it turns to a later stage: the embeddings are registered.
VectorsReady ==
    CheckedInputs /\ embeddings # None /\ embeddings = protocol.vectors

\* One trial (--trial) or all of them.
Train(p, todo) ==
    /\ Running(p, "idle")
    /\ VectorsReady /\ selection = None
    /\ proc' = [proc EXCEPT ![p].pc = "train", ![p].todo = todo,
                            ![p].read = protocol, ![p].vectors = embeddings]
    /\ UNCHANGED <<prepared, protocol, embeddings, trials, frozen, sealed,
                   raced, faults>>

Fitted(p, score) == [name |-> Head(proc[p].todo), score |-> score,
                     vectors |-> proc[p].vectors,
                     claims |-> proc[p].read.vectors]

\* A trial with a report is skipped, if its model loads; another is fitted.
FitCandidate(p) ==
    /\ Running(p, "train")
    /\ LET todo == proc[p].todo IN
       \/ todo = <<>> /\ Exit(p)
       \/ /\ todo # <<>> /\ reports[Head(todo)] # None
          /\ proc' = [proc EXCEPT ![p].todo = Tail(todo)]
       \/ /\ todo # <<>> /\ reports[Head(todo)] = None
          /\ \/ \E score \in Scores :
                  proc' = [proc EXCEPT ![p].pc = "export",
                                       ![p].model = Fitted(p, score)]
             \/ Exit(p)
    /\ UNCHANGED <<prepared, protocol, embeddings, trials, frozen, sealed,
                   raced, faults>>

\* export_artifact writes aside and renames, and refuses a directory that is
\* there: what another run, or one that died, has left stays.
ExportTrial(p) ==
    /\ Running(p, "export")
    /\ LET c == Head(proc[p].todo) IN
       \/ /\ models[c] = None
          /\ models' = [models EXCEPT ![c] = proc[p].model]
          /\ GoTo(p, "report")
       \/ models[c] # None /\ models' = models /\ Exit(p)
    /\ UNCHANGED <<prepared, protocol, embeddings, reports, frozen, sealed,
                   raced, faults>>

ReportTrial(p) ==
    /\ LET c == Head(proc[p].todo) IN
       \/ /\ Running(p, "report")
          /\ reports' = [reports EXCEPT ![c] = Torn]
          /\ GoTo(p, "report open")
       \/ /\ Running(p, "report open")
          /\ reports' = [reports EXCEPT ![c] = proc[p].model]
          /\ proc' = [proc EXCEPT ![p].pc = "train",
                                  ![p].todo = Tail(proc[p].todo),
                                  ![p].model = None]
    /\ UNCHANGED <<prepared, protocol, embeddings, models, frozen, sealed,
                   raced, faults>>

(***************************************************************************)
(* --stage select                                                          *)
(***************************************************************************)

Candidates == <<ParentModel>> \o [i \in 1..Len(Configs) |-> reports[Configs[i]]]

\* max() keeps the one it met first: the best, and better than all before it.
SelectWinner(list, i) ==
    /\ \A j \in 1..Len(list) : list[j].score <= list[i].score
    /\ \A j \in 1..i - 1 : list[j].score < list[i].score

\* Every trial has its report, and the model beside it is the one reported.
Select(p) ==
    /\ Running(p, "idle")
    /\ VectorsReady /\ selection = None
    /\ \A c \in Names : Whole(reports[c]) /\ models[c] = reports[c]
    /\ \E i \in 1..Len(Candidates) :
         /\ SelectWinner(Candidates, i)
         /\ proc' = [proc EXCEPT ![p].pc = "freeze", ![p].model = Candidates[i]]
    /\ UNCHANGED <<prepared, protocol, embeddings, trials, frozen, sealed,
                   raced, faults>>

\* The parent is exported, another winner copied file by file.  Both refuse a
\* directory that is there.
FreezeWinner(p) ==
    /\ \/ /\ Running(p, "freeze") /\ chosen = None
          /\ \/ /\ proc[p].model.name = Parent
                /\ chosen' = proc[p].model /\ GoTo(p, "select")
             \/ /\ proc[p].model.name # Parent
                /\ chosen' = Torn /\ GoTo(p, "freeze open")
       \/ Running(p, "freeze") /\ chosen # None /\ chosen' = chosen /\ Exit(p)
       \/ /\ Running(p, "freeze open")
          /\ chosen' = models[proc[p].model.name] /\ GoTo(p, "select")
    /\ UNCHANGED <<prepared, protocol, embeddings, trials, selection, sealed,
                   raced, faults>>

WriteSelection(p) ==
    /\ \/ Running(p, "select") /\ selection' = Torn /\ GoTo(p, "select open")
       \/ Running(p, "select open") /\ selection' = chosen /\ Exit(p)
    /\ UNCHANGED <<prepared, protocol, embeddings, trials, chosen, sealed,
                   raced, faults>>

(***************************************************************************)
(* --stage benchmark                                                       *)
(***************************************************************************)

Benchmark(p) ==
    /\ Running(p, "idle")
    /\ VectorsReady /\ Whole(selection) /\ selection = chosen /\ ~benchmark
    /\ GoTo(p, "open")
    /\ UNCHANGED <<prepared, protocol, embeddings, trials, frozen, sealed,
                   raced, faults>>

\* mkdir does not mind a directory that is there.
MUT_OpenBenchmark(p) ==
    /\ Running(p, "open")
    /\ benchmark' = TRUE /\ GoTo(p, "evaluate")
    /\ UNCHANGED <<prepared, protocol, embeddings, trials, frozen, target,
                   opened, raced, faults>>

\* mkdir creates the directory or fails: the seal.
OpenBenchmark(p) ==
    /\ Running(p, "open")
    /\ \/ ~benchmark /\ benchmark' = TRUE /\ GoTo(p, "evaluate")
       \/ benchmark /\ benchmark' = benchmark /\ Exit(p)
    /\ UNCHANGED <<prepared, protocol, embeddings, trials, frozen, target,
                   opened, raced, faults>>

\* benchmark_main scores the holdout, or finds its inputs changed.
Evaluate(p) ==
    /\ Running(p, "evaluate")
    /\ \/ opened' = Append(opened, chosen) /\ faults' = faults /\ GoTo(p, "target")
       \/ /\ faults < MaxFaults /\ faults' = faults + 1
          /\ opened' = opened /\ Exit(p)
    /\ UNCHANGED <<prepared, protocol, embeddings, trials, frozen, benchmark,
                   target, raced>>

WriteTarget(p) ==
    /\ \/ Running(p, "target") /\ target' = Torn /\ GoTo(p, "target open")
       \/ Running(p, "target open") /\ target' = selection /\ Exit(p)
    /\ UNCHANGED <<prepared, protocol, embeddings, trials, frozen, benchmark,
                   opened, raced, faults>>

(***************************************************************************)
(* Faults                                                                  *)
(***************************************************************************)

\* The process is killed, between two files or within one.  What it was writing
\* may by then be published, or be what another process writes.
Crash(p) ==
    /\ ~Running(p, "idle")
    /\ faults < MaxFaults /\ faults' = faults + 1
    /\ Exit(p)
    /\ raced' = (raced \/ Overlaps(p))
    /\ \/ embeddings' = embeddings
       \/ Overlaps(p) /\ embeddings # None /\ embeddings' = Torn
    /\ UNCHANGED <<prepared, protocol, trials, frozen, sealed>>

Step(p) ==
    \/ Prepare(p) \/ StoreSalt(p) \/ WriteDataset(p) \/ WriteProtocol(p)
    \/ Encode(p) \/ CacheEmbeddings(p) \/ ReadChecksum(p) \/ RegisterEmbeddings(p)
    \/ Train(p, Configs) \/ (\E c \in Names : Train(p, <<c>>))
    \/ FitCandidate(p) \/ ExportTrial(p) \/ ReportTrial(p)
    \/ Select(p) \/ FreezeWinner(p) \/ WriteSelection(p)
    \/ Benchmark(p) \/ OpenBenchmark(p) \/ Evaluate(p) \/ WriteTarget(p)

Next == \E p \in Processes : Step(p) \/ Crash(p)

Spec == Init /\ [][Next]_vars

(***************************************************************************)
(* Properties                                                              *)
(***************************************************************************)

\* The labels of the holdout are read once, for the frozen model: two stages
\* that both found no benchmark directory do not both open it.
HoldoutOpenedOnce ==
    /\ Len(opened) <= 1
    /\ \A i \in 1..Len(opened) : Whole(selection) /\ opened[i] = selection

\* Every model is fitted on the embeddings its manifest claims, and those are
\* the ones registered, unless two encodings wrote theirs at the same time.
FittedOnRegistered ==
    ~raced => \A c \in Names : models[c] # None =>
       /\ models[c].vectors = models[c].claims
       /\ models[c].vectors = embeddings

\* Some stage, started now, would leave a file that is still missing.
CanGoOn ==
    \/ target # None
    \/ ~salt /\ protocol = None /\ dataset = None
    \/ CheckedInputs /\ embeddings = None
    \/ VectorsReady /\ \/ selection = None /\ \E c \in Names :
                            reports[c] = None /\ models[c] = None
                       \/ selection = None /\ chosen = None /\ \A c \in Names :
                            Whole(reports[c]) /\ models[c] = reports[c]
                       \/ Whole(selection) /\ selection = chosen /\ ~benchmark

\* Overlapping stages refuse each other without harm: a directory no stage
\* can take further means a process died in it, the benchmark failed after it
\* was opened, or two encodings wrote at the same time.
StuckOnlyByFaults ==
    (faults = 0 /\ ~raced /\ \A p \in Processes : Running(p, "idle")) => CanGoOn
=============================================================================
