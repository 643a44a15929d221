----------------------------- MODULE ObjectStage -----------------------------
(***************************************************************************)
(* offline/enrichment/objects: one raw file per frame, which makes the     *)
(* detection resumable, and the bundle that is built from all raw files.   *)
(***************************************************************************)
EXTENDS Enrichment

CONSTANT FrameBatch     \* frames of one batch of _frame_batches()

ASSUME FrameBatchAssumption == FrameBatch \in Nat \ {0}

VARIABLES
    raw,        \* the setting that made the raw file of a frame, 0 without one
    objects     \* the published bundle: frames.parquet and manifest.json

InitObjects == raw = [id \in Videos \X Frames |-> 0] /\ objects = NoBundle

\* pending_frames(): only whether the raw file is there.
StartObjects ==
    /\ LET pending == InOrder({f \in Frames : raw[IdOf(lineage, f)] = 0}) IN
       \E limit \in 0..Len(pending) :
          Starts([stage |-> "objects", batch |-> {}, todo |-> SubSeq(pending, 1, limit)])
    /\ UNCHANGED <<raw, objects>>

\* The list of run_yoloe() that no iteration empties: earlier frames are predicted again.
\* A frame whose image is not there is left out; an exception of the detector ends the job.
DetectBatch ==
    /\ At("objects") /\ job.todo # <<>>
    /\ \E unavailable \in SUBSET Chunk(job.todo) :
          LET batch == job.batch \cup (Chunk(job.todo) \ unavailable) IN
          \/ /\ Works([job EXCEPT !.todo = Rest(@), !.batch = batch])
             /\ raw' = [id \in DOMAIN raw |-> IF \E f \in batch : id = IdOf(lineage, f)
                                             THEN config.setting ELSE raw[id]]
          \/ batch # {} /\ Ends(FALSE) /\ UNCHANGED raw
    /\ UNCHANGED objects

\* A frame without a raw file that can be parsed gets a failed row.
ObjectRow(f) ==
    LET made == raw[IdOf(lineage, f)] IN
    IF made = 0 THEN [Row(lineage, "failed", 0, FALSE) EXCEPT !.model = 0]
    ELSE [Row(lineage, "completed", 0, TRUE) EXCEPT !.model = 0, !.by.setting = made]

\* The lists that batches() yields are never emptied: each repeats the ones before.
Yielded ==
    LET count == (FrameCount + FrameBatch - 1) \div FrameBatch IN
    [k \in 1..count |-> 1..(IF k * FrameBatch < FrameCount THEN k * FrameBatch ELSE FrameCount)]

\* write_object_artifacts_streaming() refuses a frame that it has seen.
Distinct(batches) ==
    \A j, k \in DOMAIN batches : j # k => batches[j] \cap batches[k] = {}

ObjectManifest == [kind |-> "complete", config |-> config, lineage |-> lineage, revision |-> 0]

MaterializeObjects ==
    /\ At("objects") /\ job.todo = <<>>
    /\ Ends(Distinct(Yielded))
    /\ objects' = IF Distinct(Yielded)
                  THEN [rows |-> [f \in Frames |-> ObjectRow(f)], manifest |-> ObjectManifest]
                  ELSE objects
    /\ UNCHANGED raw

StopObjects == At("objects") /\ Dies /\ UNCHANGED <<raw, objects>>

ObjectNext == StartObjects \/ DetectBatch \/ MaterializeObjects \/ StopObjects
=============================================================================
