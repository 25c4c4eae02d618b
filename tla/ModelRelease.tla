---------------------------- MODULE ModelRelease ----------------------------
(***************************************************************************)
(* From a dataset to an approved model: build_dataset.py writes a parquet  *)
(* file and its metadata in place, train.py fits an artifact from the pair *)
(* with a checkpoint after every epoch, evaluate.py compares an artifact   *)
(* on the test split, the model is watched in shadow and as a canary, and  *)
(* release_gate.py decides from the comparison and the collected evidence. *)
(* Each is a process of its own, started by hand, that reads files at more *)
(* than one moment.                                                        *)
(*                                                                         *)
(* A dataset is known by its version.  All versions have as many rows, the *)
(* case row_count lets pass.                                               *)
(***************************************************************************)
EXTENDS Naturals, Sequences, FiniteSets

CONSTANTS
    Outputs,     \* the artifact directories in use
    Versions,    \* dataset versions
    Epochs,      \* --epochs
    ShadowTime,  \* 48 hours
    CanaryTime,  \* 24 hours
    NoFile,
    MaxBuilds,   \* bound on the builds
    MaxKills,    \* bound on killed processes
    MaxWindows,  \* bound on the observation windows
    MaxClock     \* bound on the clock

ASSUME ReleaseAssumption ==
    /\ Versions \subseteq Nat
    /\ {Epochs, ShadowTime, CanaryTime} \subseteq Nat \ {0}
    /\ {MaxBuilds, MaxKills, MaxWindows, MaxClock} \subseteq Nat

VARIABLES
    parquet, metadata,  \* the versions in the two files
    builder,            \* the version whose metadata is still to be written
    checkpoint,
    trainer,            \* the running train.py
    artifacts,
    evaluator,          \* the running evaluate.py
    comparison,         \* the comparison report
    live,               \* the model in shadow or canary, since when
    windows,            \* the observation windows that were recorded
    clock,
    overlapped,         \* the parquet changed under a reader
    builds, kills

data == <<parquet, metadata, builder, overlapped, builds>>
training == <<checkpoint, trainer, artifacts>>
evaluation == <<evaluator, comparison>>
operation == <<live, windows, clock>>
releaseVars == <<data, training, evaluation, operation, kills>>

NoTrainer == [pc |-> "idle"]
NoEvaluator == [pc |-> "idle"]

ReleaseInit ==
    /\ parquet = NoFile /\ metadata = NoFile /\ builder = NoFile
    /\ checkpoint = NoFile /\ trainer = NoTrainer
    /\ artifacts = [n \in Outputs |-> NoFile]
    /\ evaluator = NoEvaluator /\ comparison = NoFile
    /\ live = NoFile /\ windows = {}
    /\ clock = 0 /\ overlapped = FALSE /\ builds = 0 /\ kills = 0

(***************************************************************************)
(* Dataset                                                                 *)
(***************************************************************************)

\* Has some process read rows of the present parquet and not its checksum?
Reading == trainer.pc \in {"contract", "epoch"} \/ evaluator.pc = "scored"

WriteParquet(v) ==
    /\ builder = NoFile /\ builds < MaxBuilds
    /\ parquet' = v /\ builder' = v /\ builds' = builds + 1
    /\ overlapped' = (overlapped \/ Reading)
    /\ UNCHANGED <<metadata, training, evaluation, operation, kills>>

WriteMetadata ==
    /\ builder # NoFile
    /\ metadata' = builder /\ builder' = NoFile
    /\ UNCHANGED <<parquet, overlapped, builds, training, evaluation, operation,
                   kills>>

(***************************************************************************)
(* Training                                                                *)
(***************************************************************************)

\* train_from_dataset: the output must be new, the metadata are read first.
StartTraining(n, resume) ==
    /\ trainer.pc = "idle" /\ artifacts[n] = NoFile
    /\ metadata # NoFile
    /\ trainer' = [pc |-> "rows", output |-> n, resume |-> resume]
    /\ UNCHANGED <<data, checkpoint, artifacts, evaluation, operation,
                   kills>>

ReadRows ==
    /\ trainer.pc = "rows"
    /\ trainer' = [pc |-> "contract", output |-> trainer.output,
                   resume |-> trainer.resume, rows |-> parquet]
    /\ UNCHANGED <<data, checkpoint, artifacts, evaluation, operation,
                   kills>>

Contract == [parquet |-> parquet, metadata |-> metadata]

Fitting(weights) ==
    [pc |-> "epoch", output |-> trainer.output, rows |-> trainer.rows,
     contract |-> Contract, weights |-> weights]

\* Any checkpoint will do.
MUT_Resumes == checkpoint # NoFile /\ Len(checkpoint.weights) < Epochs

\* _validate_checkpoint_contract, and an epoch still to go.
Resumes ==
    /\ checkpoint # NoFile
    /\ checkpoint.contract = Contract /\ Len(checkpoint.weights) < Epochs

\* The checksums are taken now; a resumed run goes on from the weights of the
\* checkpoint or is refused.
PrepareTraining ==
    /\ trainer.pc = "contract"
    /\ trainer' = IF ~trainer.resume THEN Fitting(<<>>)
                  ELSE IF Resumes THEN Fitting(checkpoint.weights)
                  ELSE NoTrainer
    /\ UNCHANGED <<data, checkpoint, artifacts, evaluation, operation,
                   kills>>

\* One epoch over the rows in memory, and the checkpoint renamed into place.
TrainEpoch ==
    /\ trainer.pc = "epoch" /\ Len(trainer.weights) < Epochs
    /\ LET weights == Append(trainer.weights, trainer.rows) IN
       /\ trainer' = [trainer EXCEPT !.weights = weights]
       /\ checkpoint' = [weights |-> weights, contract |-> trainer.contract]
    /\ UNCHANGED <<data, artifacts, evaluation, operation, kills>>

\* The manifest takes its checksums at the end.
WriteArtifact ==
    /\ trainer.pc = "epoch" /\ Len(trainer.weights) = Epochs
    /\ artifacts' = [artifacts EXCEPT ![trainer.output] =
                       [weights |-> trainer.weights, claims |-> parquet]]
    /\ trainer' = NoTrainer
    /\ UNCHANGED <<data, checkpoint, evaluation, operation, kills>>

(***************************************************************************)
(* Evaluation                                                              *)
(***************************************************************************)

\* evaluate.py reads the rows and scores them ...
ScoreHoldout(n) ==
    /\ evaluator.pc = "idle" /\ parquet # NoFile /\ artifacts[n] # NoFile
    /\ evaluator' = [pc |-> "scored", model |-> n, rows |-> parquet]
    /\ UNCHANGED <<data, training, comparison, operation, kills>>

\* ... and writes the report over the last one, with the checksum the dataset
\* has by then.
WriteComparison(regressed) ==
    /\ evaluator.pc = "scored"
    /\ comparison' = [model |-> evaluator.model, rows |-> evaluator.rows,
                      dataset |-> parquet, regressed |-> regressed]
    /\ evaluator' = NoEvaluator
    /\ UNCHANGED <<data, training, operation, kills>>

(***************************************************************************)
(* Operation and the gate                                                  *)
(***************************************************************************)

\* Time counts while a model is watched.
PassTime ==
    /\ live # NoFile /\ clock < MaxClock /\ clock' = clock + 1
    /\ UNCHANGED <<data, training, evaluation, live, windows, kills>>

\* RANKER_MODE and the model path are set, and the window begins.
Deploy(mode, n) ==
    /\ live = NoFile /\ artifacts[n] # NoFile
    /\ Cardinality(windows) < MaxWindows
    /\ live' = [mode |-> mode, model |-> n, from |-> clock]
    /\ UNCHANGED <<data, training, evaluation, windows, clock, kills>>

\* The window ends; its latency, fallback and error rates were good or not.
EndWindow(healthy) ==
    /\ live # NoFile
    /\ windows' = windows \cup {[mode |-> live.mode, model |-> live.model,
                                 from |-> live.from, to |-> clock,
                                 healthy |-> healthy]}
    /\ live' = NoFile
    /\ UNCHANGED <<data, training, evaluation, clock, kills>>

\* check_window
CheckWindow(w, least) == w.to - w.from >= least /\ w.healthy

\* The canary may be of another model.
MUT_Approved(e, n) ==
    /\ comparison.dataset = e.dataset /\ comparison.model = n
    /\ e.comparison = comparison /\ e.model = n
    /\ e.shadow.model = n
    /\ CheckWindow(e.shadow, ShadowTime) /\ CheckWindow(e.canary, CanaryTime)
    /\ e.shadow.to <= e.canary.from
    /\ ~comparison.regressed

\* evaluate_release: nothing is missing and nothing failed.  The gate only
\* writes its answer down.
Approved(e, n) ==
    /\ comparison.dataset = e.dataset /\ comparison.model = n
    /\ e.comparison = comparison /\ e.model = n
    /\ e.shadow.model = n /\ e.canary.model = n
    /\ CheckWindow(e.shadow, ShadowTime) /\ CheckWindow(e.canary, CanaryTime)
    /\ e.shadow.to <= e.canary.from
    /\ ~comparison.regressed

\* What people can put into an evidence file: recorded windows, in their
\* places, the report they had before them, a model, the dataset reviewed.
Evidence == [comparison : {comparison}, model : Outputs, dataset : Versions,
             shadow : {w \in windows : w.mode = "shadow"},
             canary : {w \in windows : w.mode = "canary"}]

(***************************************************************************)

\* A process is killed; what it has written stays.
Kill ==
    /\ kills < MaxKills /\ kills' = kills + 1
    /\ \/ builder # NoFile /\ builder' = NoFile /\ UNCHANGED <<trainer, evaluator>>
       \/ trainer.pc # "idle" /\ trainer' = NoTrainer /\ UNCHANGED <<builder, evaluator>>
       \/ /\ evaluator.pc # "idle" /\ evaluator' = NoEvaluator
          /\ UNCHANGED <<builder, trainer>>
    /\ UNCHANGED <<parquet, metadata, overlapped, builds, checkpoint, artifacts,
                   comparison, operation>>

ReleaseNext ==
    \/ \E v \in Versions : WriteParquet(v)
    \/ WriteMetadata
    \/ \E n \in Outputs, resume \in BOOLEAN : StartTraining(n, resume)
    \/ ReadRows \/ PrepareTraining \/ TrainEpoch \/ WriteArtifact
    \/ \E n \in Outputs : ScoreHoldout(n)
    \/ \E regressed \in BOOLEAN : WriteComparison(regressed)
    \/ PassTime
    \/ \E mode \in {"shadow", "canary"}, n \in Outputs : Deploy(mode, n)
    \/ \E healthy \in BOOLEAN : EndWindow(healthy)
    \/ Kill

ReleaseSpec == ReleaseInit /\ [][ReleaseNext]_releaseVars

(***************************************************************************)
(* Properties                                                              *)
(***************************************************************************)

Trained(a) == {a.weights[i] : i \in 1..Len(a.weights)}

\* However often training was killed and resumed and the dataset rebuilt in
\* between, an artifact is its full number of epochs over the one dataset its
\* manifest names, unless the dataset was replaced under a running process.
ResumeIsExact ==
    ~overlapped => \A n \in Outputs : artifacts[n] # NoFile =>
       /\ Len(artifacts[n].weights) = Epochs
       /\ Trained(artifacts[n]) = {artifacts[n].claims}

\* The gate lets a model through on its own evidence: it ran healthy in shadow
\* and then as a canary, long enough, and the report compares it, not a
\* predecessor, on the rows of the reviewed dataset.
ApprovedOnItsEvidence ==
    comparison # NoFile => \A n \in Outputs, e \in Evidence : Approved(e, n) =>
       /\ \E s, c \in windows :
            /\ s.mode = "shadow" /\ c.mode = "canary"
            /\ s.model = n /\ c.model = n
            /\ s.healthy /\ c.healthy
            /\ s.from + ShadowTime <= s.to /\ s.to <= c.from
            /\ c.from + CanaryTime <= c.to
       /\ comparison.model = n
       /\ overlapped \/ comparison.rows = e.dataset

=============================================================================
