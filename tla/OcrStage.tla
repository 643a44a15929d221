------------------------------ MODULE OcrStage ------------------------------
(***************************************************************************)
(* offline/enrichment/ocr: text and regions of all frames.  Nothing is     *)
(* written before the end; which commit of the model was used is known     *)
(* once it is loaded.                                                      *)
(***************************************************************************)
EXTENDS Enrichment

VARIABLES
    ocr,        \* the published bundle: frames.parquet and manifest.json
    regions     \* frames with their regions in regions.parquet

InitOcr == ocr = NoBundle /\ regions = {}

\* valid_ocr() and _consistent_regions(): a row that counts regions needs them.
ValidOcr(row) ==
    /\ row.status = "completed"
    /\ row.version = config.version /\ row.model = config.model
    /\ row.revision = config.revision /\ row.lineage = lineage
ConsistentRegions(f) == ocr.rows[f].text <=> f \in regions

\* _resume()
ResumeOcr ==
    [f \in Frames |-> IF config.ocr /\ ValidOcr(ocr.rows[f]) /\ ConsistentRegions(f)
                      THEN ocr.rows[f] ELSE Missing]

StartOcr ==
    /\ LET rows == ResumeOcr
           kept == {f \in Frames : rows[f] # Missing}
       IN  Starts([stage |-> "ocr", rows |-> rows, revision |-> config.revision, loaded |-> FALSE,
                   kept |-> kept, todo |-> IF config.ocr THEN InOrder(Frames \ kept) ELSE <<>>])
    /\ UNCHANGED <<ocr, regions>>

\* What the engine says it runs: its pin, or what was upstream when it was loaded.
Resolved == IF job.loaded /\ config.revision = 0 THEN upstream ELSE config.revision

\* failure_row() and parsed_row(): what the row states is what was expected of the engine,
\* what made it is known from the engine alone.
FailureRow == Row(lineage, "failed", job.revision, FALSE)
ParsedRow(text) ==
    [Row(lineage, "completed", job.revision, text) EXCEPT
        !.by.revision = IF config.revision = 0 THEN upstream ELSE @]

\* _process(), one batch: an unreadable image or a malformed result fails alone, a failing
\* backend or a wrong number of results fails all of the batch.
OcrBatch ==
    /\ At("ocr") /\ job.todo # <<>>
    /\ LET chunk == Chunk(job.todo) IN
       \E failing \in SUBSET chunk, blank \in SUBSET chunk, loads \in BOOLEAN :
          /\ blank \cap failing = {} /\ (failing # chunk => loads) /\ (job.loaded => loads)
          /\ Works([job EXCEPT
                !.todo = Rest(@),
                !.loaded = loads,
                !.rows = [f \in Frames |->
                    IF f \notin chunk THEN @[f]
                    ELSE IF f \in failing THEN FailureRow ELSE ParsedRow(f \notin blank)]])
    /\ UNCHANGED <<ocr, regions>>

\* The commit is another one than the rows were to state: with rows of an earlier job all
\* frames are done again, otherwise the rows are stamped.
Revise ==
    /\ At("ocr") /\ job.todo = <<>> /\ Resolved # job.revision
    /\ Works(IF job.kept # {}
             THEN [job EXCEPT !.revision = Resolved, !.rows = NoRows, !.kept = {}, !.todo = InOrder(Frames)]
             ELSE [job EXCEPT !.revision = Resolved,
                              !.rows = [f \in Frames |-> IF @[f] = Missing THEN Missing
                                            ELSE [@[f] EXCEPT !.revision = Resolved]]])
    /\ UNCHANGED <<ocr, regions>>

\* build_ocr_report() and the checks of write_ocr_artifacts()
OcrManifest == [kind |-> "complete", config |-> config, lineage |-> lineage, revision |-> job.revision]
Uniform(rows) ==
    LET made == {f \in Frames : rows[f] # Missing} IN
    \A f, g \in made : rows[f].version = rows[g].version /\ rows[f].lineage = rows[g].lineage

Writable == Uniform(job.rows) /\ (config.ocr => \A f \in Frames : job.rows[f] # Missing)

FinishOcr ==
    /\ At("ocr") /\ job.todo = <<>> /\ Resolved = job.revision
    /\ Ends(Writable)
    /\ IF Writable
       THEN /\ ocr' = [rows |-> job.rows, manifest |-> OcrManifest]
            /\ regions' = {f \in Frames : job.rows[f].text}
       ELSE UNCHANGED <<ocr, regions>>

\* The process dies; in its first publication the frames may be there without regions.
StopOcr ==
    /\ At("ocr") /\ Dies
    /\ \/ UNCHANGED ocr
       \/ /\ ocr = NoBundle /\ job.todo = <<>> /\ Resolved = job.revision
          /\ ocr' = [rows |-> job.rows, manifest |-> NoManifest]
    /\ UNCHANGED regions

OcrNext == StartOcr \/ OcrBatch \/ Revise \/ FinishOcr \/ StopOcr
=============================================================================
