---------------------------- MODULE CaptionStage ----------------------------
(***************************************************************************)
(* offline/enrichment/caption: captions of all frames, resumed from the    *)
(* bundle of an earlier job, written at every checkpoint and at the end.   *)
(***************************************************************************)
EXTENDS Enrichment

CONSTANT WriteInterval      \* frames between two checkpoints

ASSUME WriteAssumption == WriteInterval \in Nat \ {0}

VARIABLE
    captions    \* the published bundle: captions.parquet and manifest.json

InitCaptions == captions = NoBundle

\* resolve_revision() of the vLLM adapter, once per job: the pin, or what the server that
\* runs now answers, 0 if it does not.
Served == IF config.revision # 0 THEN {config.revision} ELSE {upstream, 0}

\* frame_store_id: the runner always gives it, a list of datasets may leave it out.
Told == IF "datasets" \in plan.changes THEN {lineage, 0} ELSE {lineage}

\* guard_resume(): the manifest of the same version has to state the same settings.  A
\* manifest without a version, the one of a checkpoint, is not compared.
GuardResume(told, served) ==
    captions.rows # NoRows =>
        /\ captions.manifest # NoManifest
        /\ captions.manifest.kind = "complete" /\ captions.manifest.config.version = config.version
             => /\ captions.manifest.config = config
                /\ captions.manifest.revision = served
                /\ told # 0 => captions.manifest.lineage = told

\* Mutant: the frame store of a row is not looked at.
ValidCaptionAnywhere(told, row) ==
    /\ row.status = "completed" /\ row.text
    /\ row.version = config.version /\ row.model = config.model
\* valid_caption(): what of a row is looked at; a job that was not told the frame store
\* takes the rows of any.
ValidCaption(told, row) ==
    /\ row.status = "completed" /\ row.text
    /\ row.version = config.version /\ row.model = config.model
    /\ told # 0 => row.lineage = told

\* resume_rows()
ResumeRows(told) ==
    [f \in Frames |->
        IF ValidCaption(told, captions.rows[f]) /\ SameFrame(captions.rows[f], f)
        THEN captions.rows[f] ELSE Row(told, "pending", 0, FALSE)]

StartCaptions ==
    /\ \E told \in Told, served \in Served :
          LET rows == ResumeRows(told) IN
          /\ GuardResume(told, served)
          /\ Starts([stage |-> "caption", told |-> told, served |-> served, rows |-> rows,
                     since |-> 0, todo |-> InOrder({f \in Frames : rows[f].status = "pending"})])
    /\ UNCHANGED captions
RefuseCaptions ==
    /\ \E told \in Told, served \in Served : ~GuardResume(told, served)
    /\ AtOnce("caption", FALSE) /\ UNCHANGED captions

\* write_caption_artifacts(): the projection for older readers has no empty caption, so
\* a completed row without text makes the whole publication raise.
Projected(rows) == \A f \in Frames : rows[f].status = "completed" => rows[f].text

\* The rows of a batch state the revision that was resolved; the server may have been
\* replaced since, and nothing tells what made them.
FailedCaption == Row(job.told, "failed", job.served, FALSE)
NewCaption(text) == [Row(job.told, "completed", job.served, text) EXCEPT !.by.revision = 0]

\* A batch: some images cannot be read, then all the others are captioned, some with an
\* empty text, or all of them fail.
Captioned(chunk, unreadable, fails, empty) ==
    [f \in Frames |->
        CASE f \notin chunk                 -> job.rows[f]
          [] f \in unreadable \/ (f \in chunk /\ fails) -> FailedCaption
          [] OTHER                          -> NewCaption(f \notin empty)]

Checkpoint == [kind |-> "in_progress", lineage |-> job.told, revision |-> job.served]

CaptionBatch ==
    /\ At("caption") /\ job.todo # <<>>
    /\ LET chunk == Chunk(job.todo) IN
       \E unreadable \in SUBSET chunk, fails \in BOOLEAN :
       \E empty \in IF fails THEN {{}} ELSE SUBSET (chunk \ unreadable) :
          LET rows == Captioned(chunk, unreadable, fails, empty)
              since == job.since + Cardinality(chunk)
              going == [job EXCEPT !.rows = rows, !.todo = Rest(@), !.since = since]
          IN  CASE since < WriteInterval -> Works(going) /\ UNCHANGED captions
                [] since >= WriteInterval /\ Projected(rows) ->
                        /\ Works([going EXCEPT !.since = 0])
                        /\ captions' = [rows |-> rows, manifest |-> Checkpoint]
                [] OTHER -> Ends(FALSE) /\ UNCHANGED captions

\* build_manifest()
CaptionManifest ==
    [kind |-> "complete", config |-> config, lineage |-> job.told, revision |-> job.served]

FinishCaptions ==
    /\ At("caption") /\ job.todo = <<>>
    /\ captions' = IF Projected(job.rows) THEN [rows |-> job.rows, manifest |-> CaptionManifest]
                   ELSE captions
    /\ Ends(Projected(job.rows))

\* The process dies; in its first publication it may have placed the rows already.
StopCaptions ==
    /\ At("caption") /\ Dies
    /\ \/ UNCHANGED captions
       \/ /\ captions = NoBundle /\ Projected(job.rows)
          /\ captions' = [rows |-> job.rows, manifest |-> NoManifest]

CaptionNext == StartCaptions \/ RefuseCaptions \/ CaptionBatch \/ FinishCaptions \/ StopCaptions
=============================================================================
