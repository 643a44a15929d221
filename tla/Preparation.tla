----------------------------- MODULE Preparation -----------------------------
(***************************************************************************)
(* The offline preparation as a whole: the stages run one after another,   *)
(* in any order, again after a failure or a death, and the settings, the   *)
(* frame store, the videos and the models change between them.             *)
(***************************************************************************)
EXTENDS IndexStage

captionVars == <<captions>>
ocrVars == <<ocr, regions>>
objectVars == <<raw, objects>>
transcriptVars == <<source, transcripts, asr>>

vars == <<shared, captionVars, ocrVars, objectVars, context, transcriptVars, indexes>>

Init ==
    /\ SharedInit /\ InitCaptions /\ InitOcr /\ InitObjects /\ InitContext
    /\ InitTranscripts /\ InitIndexes

Prepare ==
    \/ CaptionNext /\ UNCHANGED <<ocrVars, objectVars, context, transcriptVars, indexes>>
    \/ OcrNext /\ UNCHANGED <<captionVars, objectVars, context, transcriptVars, indexes>>
    \/ ObjectNext /\ UNCHANGED <<captionVars, ocrVars, context, transcriptVars, indexes>>
    \/ ContextNext /\ UNCHANGED <<transcriptVars, indexes>>
    \/ TranscriptNext /\ UNCHANGED <<captionVars, ocrVars, objectVars, context, indexes>>
    \/ IndexNext /\ UNCHANGED <<captionVars, ocrVars, objectVars, context, transcriptVars>>

Change ==
    /\ Configure \/ Reingest \/ Upstream
    /\ UNCHANGED <<captionVars, ocrVars, objectVars, context, transcriptVars, indexes>>

Next == Prepare \/ Change

Spec == Init /\ [][Next]_vars

(***************************************************************************)
(* Safety                                                                  *)
(***************************************************************************)
\* Captions of one version, model and frame store: whatever was interrupted, configured anew
\* and resumed, every row of a finished bundle is of the artifact that its manifest describes,
\* of its frame store too when the manifest states one.
CaptionsStated ==
    captions.manifest.kind = "complete" =>
        \A f \in Frames :
            /\ captions.rows[f].version = captions.manifest.config.version
            /\ captions.rows[f].model = captions.manifest.config.model
            /\ captions.manifest.lineage # 0 => captions.rows[f].lineage = captions.manifest.lineage

\* A transcript job that reports no failure leaves, for every video, segments made from the
\* video's present content under the present settings, with the manifest that says so.
TranscriptsCurrent ==
    [][EndTranscripts /\ job.failed = {}
        => \A v \in Videos : /\ transcripts[v].segments.by = IdentityOf(v)
                             /\ transcripts[v].manifest = IdentityOf(v)]_vars

\* After a build that succeeded, every image vector stands at the position of its own frame.
VectorsAligned ==
    ("visual-index" \in DOMAIN journal /\ journal["visual-index"] = "done") =>
        \A f \in Frames : visual.vectors[f].id = visual.mapping[f]

\* A text index of a frame store holds texts of that frame store only, the index of contexts
\* too, whose texts were joined by another job than the one that builds it.
IndexBelongs ==
    /\ \A s \in {"caption", "ocr"} : \A f \in DOMAIN dense[s].texts :
          dense[s].texts[f].lineage = dense[s].lineage
    /\ \A f \in DOMAIN dense["context"].texts : \A part \in {"caption", "ocr", "objects"} :
          dense["context"].texts[f][part].lineage \in {0, dense["context"].lineage}

=============================================================================
