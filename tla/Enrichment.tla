----------------------------- MODULE Enrichment -----------------------------
(***************************************************************************)
(* What the offline stages have in common: the frames and the settings     *)
(* they are run with, the one job that runs at a time, and the rows they   *)
(* publish.  Stages are processes of their own, started by an operator who *)
(* may change the settings between two of them.  A published bundle is     *)
(* replaced in one step here; Publication has the steps of it.             *)
(***************************************************************************)
EXTENDS Integers, FiniteSets, Sequences, SequencesExt

CONSTANTS
    FrameCount,         \* canonical frames
    Configs,            \* settings the operator chooses from
    Lineages,           \* frame stores
    Videos,             \* numbers of the source videos
    VideoOf,            \* the video of each frame, by frame store
    Revisions,          \* commits of the models, 0 is "not known"
    BatchSize,          \* frames of a batch
    Plans,              \* bounds: the stages, the number of jobs and the changes of a behaviour
    MaxStops            \* bound on jobs that die

\* version names the artifact, model the checkpoint, revision its pin (0 is none), setting
\* everything else that a result depends on; ocr says whether OCR is enabled.
Settings == [version : Nat \ {0}, model : Nat, revision : Revisions, setting : Nat, ocr : BOOLEAN]

ASSUME ConfigAssumption ==
    /\ Configs \subseteq Settings
    /\ Configs # {} /\ Lineages # {} /\ 0 \in Revisions
ASSUME CountAssumption == /\ {FrameCount, BatchSize} \subseteq Nat \ {0}
                          /\ MaxStops \in Nat

Frames == 1..FrameCount

ASSUME VideoAssumption ==
    /\ IsFiniteSet(Videos) /\ Videos \subseteq Nat /\ Lineages \subseteq Nat \ {0}
    /\ VideoOf \in [Lineages -> [Frames -> Videos]]

\* A frame is known by its video and its coordinate.
IdOf(l, f) == <<VideoOf[l][f], f>>

VARIABLES
    config,     \* the settings of the next job
    lineage,    \* the frame store the frames table belongs to
    upstream,   \* the commit that a model loaded without a pin comes from
    job,        \* the job under way
    journal,    \* the run-state journal: how the last run of each stage went
    plan,       \* the member of Plans that bounds this behaviour
    runs, stops

shared == <<config, lineage, upstream, job, journal, plan, runs, stops>>

\* STAGES, and two that are started by hand, outside the runner and its journal.
Journaled == {"visual-index", "caption", "ocr", "objects", "asr", "context", "context-index",
              "asr-index"}
Stages == Journaled \cup {"text-index", "bm25"}

Idle == [stage |-> "none"]
At(stage) == job.stage = stage

Changes == {"settings", "frames", "models", "videos", "datasets"}
ASSUME PlanAssumption ==
    Plans \subseteq [stages : SUBSET Stages, jobs : Nat, changes : SUBSET Changes]

Statuses == {"missing", "pending", "completed", "failed"}

\* One row of a specialist artifact.  lineage is the frame store that it states, 0 for none;
\* store the one whose frame it is of, which its video and coordinate say.  by is what really
\* made its text: no column of the artifact says it.
Rows == [status : Statuses, version : Nat, model : Nat, lineage : Lineages \cup {0},
         store : Lineages \cup {0}, revision : Revisions, text : BOOLEAN,
         by : [setting : Nat, revision : Revisions]]

Unmade == [setting |-> 0, revision |-> 0]
Missing == [status |-> "missing", version |-> 0, model |-> 0, lineage |-> 0, store |-> 0,
            revision |-> 0, text |-> FALSE, by |-> Unmade]
NoRows == [f \in Frames |-> Missing]
NoManifest == [kind |-> "none"]
NoBundle == [rows |-> NoRows, manifest |-> NoManifest]

\* A row of the current settings and frames: the frame store that the job was told, status,
\* revision as it is recorded, and whether it has usable text.
Row(told, status, revision, text) ==
    [status |-> status, version |-> config.version, model |-> config.model,
     lineage |-> told, store |-> lineage, revision |-> revision, text |-> text,
     by |-> IF status = "completed" THEN [setting |-> config.setting, revision |-> revision]
            ELSE Unmade]

\* A row is found by its frame id; its video and coordinate are those of the frame.
SameFrame(row, f) == row.store # 0 /\ IdOf(row.store, f) = IdOf(lineage, f)

\* usable_completed_text()
Usable(row) == row.status = "completed" /\ row.text

SharedInit ==
    /\ config \in Configs /\ upstream \in Revisions
    /\ lineage = CHOOSE l \in Lineages : \A m \in Lineages : l <= m
    /\ plan \in Plans
    /\ job = Idle /\ journal = [s \in plan.stages \cap Journaled |-> "none"] /\ runs = 0 /\ stops = 0

\* run_stage(): the journal is written before and after the command of the stage.
Records(stage, status) ==
    journal' = IF stage \in DOMAIN journal THEN [journal EXCEPT ![stage] = status] ELSE journal

Starts(started) ==
    /\ At("none") /\ started.stage \in plan.stages /\ runs < plan.jobs
    /\ runs' = runs + 1 /\ job' = started /\ Records(started.stage, "running")
    /\ UNCHANGED <<config, lineage, upstream, plan, stops>>

Works(next) == job' = next /\ UNCHANGED <<config, lineage, upstream, journal, plan, runs, stops>>

Ends(published) ==
    /\ job' = Idle /\ Records(job.stage, IF published THEN "done" ELSE "failed")
    /\ UNCHANGED <<config, lineage, upstream, plan, runs, stops>>

\* A job of one step.
AtOnce(stage, published) ==
    /\ At("none") /\ stage \in plan.stages /\ runs < plan.jobs
    /\ runs' = runs + 1 /\ Records(stage, IF published THEN "done" ELSE "failed")
    /\ UNCHANGED <<config, lineage, upstream, job, plan, stops>>

\* The command dies between two of its steps, and the runner with it or not.
Dies ==
    /\ ~At("none") /\ stops < MaxStops
    /\ stops' = stops + 1 /\ job' = Idle
    /\ \E status \in {"running", "failed"} : Records(job.stage, status)
    /\ UNCHANGED <<config, lineage, upstream, plan, runs>>

\* The settings, the frame store or the model's branch change.
Configure ==
    /\ At("none") /\ "settings" \in plan.changes /\ runs < plan.jobs /\ config' \in Configs \ {config}
    /\ UNCHANGED <<lineage, upstream, job, journal, plan, runs, stops>>
Reingest ==
    /\ At("none") /\ "frames" \in plan.changes /\ runs < plan.jobs /\ lineage' \in Lineages \ {lineage}
    /\ UNCHANGED <<config, upstream, job, journal, plan, runs, stops>>
Upstream ==
    /\ At("none") /\ "models" \in plan.changes /\ runs < plan.jobs /\ upstream' \in Revisions \ {upstream}
    /\ UNCHANGED <<config, lineage, job, journal, plan, runs, stops>>

\* The frames of the next batch, and what is left of the work.
Chunk(todo) == {todo[i] : i \in DOMAIN todo \cap 1..BatchSize}
Rest(todo) == SubSeq(todo, BatchSize + 1, Len(todo))
InOrder(numbers) ==
    CHOOSE seq \in [1..Cardinality(numbers) -> numbers] :
        \A i, j \in DOMAIN seq : i < j => seq[i] < seq[j]
=============================================================================
