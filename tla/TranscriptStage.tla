--------------------------- MODULE TranscriptStage ---------------------------
(***************************************************************************)
(* offline/enrichment/transcripts: a pair of segments and manifest for     *)
(* every video, and the view of them by frame.                             *)
(***************************************************************************)
EXTENDS Enrichment

CONSTANT Sources    \* contents a video can have

ASSUME SourceAssumption == Sources \subseteq Nat \ {0} /\ Sources # {}

VARIABLES
    source,         \* content of each video
    transcripts,    \* the published pair of each video, and whether a failure is recorded
    asr             \* the view: what each frame's text comes from

\* resume_identity(), and no manifest.
NoIdentity == [source |-> 0, version |-> 0, setting |-> 0]
IdentityOf(v) == [source |-> source[v], version |-> config.version, setting |-> config.setting]

\* Segments as their number (a video may be silent) and what they were made from.
NoSegments == [count |-> -1, by |-> NoIdentity]
NoPair == [segments |-> NoSegments, manifest |-> NoIdentity, count |-> 0, failed |-> FALSE]

NoView == [lineage |-> 0, text |-> [f \in Frames |-> NoIdentity]]

InitTranscripts ==
    /\ source = [v \in Videos |-> CHOOSE s \in Sources : \A t \in Sources : s <= t]
    /\ transcripts = [v \in Videos |-> NoPair] /\ asr = NoView

\* Mutant: the content of the video is not compared.
ReusableAnySource(v) ==
    LET pair == transcripts[v] IN
    /\ pair.segments # NoSegments /\ pair.manifest # NoIdentity
    /\ [pair.manifest EXCEPT !.source = 0] = [IdentityOf(v) EXCEPT !.source = 0]
    /\ pair.count = pair.segments.count
\* reusable_transcript()
Reusable(v) ==
    LET pair == transcripts[v] IN
    /\ pair.segments # NoSegments /\ pair.manifest = IdentityOf(v)
    /\ pair.count = pair.segments.count

\* prepare_transcripts(): all videos in the order of their names; failed is those that raised.
StartTranscripts ==
    /\ \E resume \in BOOLEAN :
          Starts([stage |-> "asr", todo |-> InOrder(Videos), resume |-> resume, failed |-> {}])
    /\ UNCHANGED <<source, transcripts, asr>>

Video == Head(job.todo)

\* _prepare_video(): reuses the pair, or writes a new one and forgets the failure, or
\* records a failure and leaves the old pair.
PrepareVideo ==
    /\ At("asr") /\ job.todo # <<>>
    /\ \/ /\ job.resume /\ Reusable(Video)
          /\ Works([job EXCEPT !.todo = Tail(@)]) /\ UNCHANGED transcripts
       \/ /\ ~(job.resume /\ Reusable(Video))
          /\ \E count \in 0..1 :
                transcripts' = [transcripts EXCEPT ![Video] =
                    [segments |-> [count |-> count, by |-> IdentityOf(Video)],
                     manifest |-> IdentityOf(Video), count |-> count, failed |-> FALSE]]
          /\ Works([job EXCEPT !.todo = Tail(@)])
       \/ /\ ~(job.resume /\ Reusable(Video))
          /\ transcripts' = [transcripts EXCEPT ![Video].failed = TRUE]
          /\ Works([job EXCEPT !.todo = Tail(@), !.failed = @ \cup {Video}])
    /\ UNCHANGED <<source, asr>>

EndTranscripts ==
    /\ At("asr") /\ job.todo = <<>> /\ Ends(job.failed = {})
    /\ UNCHANGED <<source, transcripts, asr>>

\* The process dies; the promotion of a pair may have moved the old segments away, or the
\* old manifest too, or placed the new segments.
StopTranscripts ==
    /\ At("asr") /\ Dies
    /\ \/ UNCHANGED transcripts
       \/ /\ job.todo # <<>> /\ ~(job.resume /\ Reusable(Video))
          /\ \E count \in 0..1, step \in 1..3 :
                transcripts' = [transcripts EXCEPT
                    ![Video].segments = IF step < 3 THEN NoSegments
                                        ELSE [count |-> count, by |-> IdentityOf(Video)],
                    ![Video].manifest = IF step = 1 THEN @ ELSE NoIdentity]
    /\ UNCHANGED <<source, asr>>

\* A file is replaced by another recording of the same name.
Replace ==
    /\ At("none") /\ "videos" \in plan.changes /\ runs < plan.jobs
    /\ \E v \in Videos : \E s \in Sources \ {source[v]} : source' = [source EXCEPT ![v] = s]
    /\ UNCHANGED <<shared, transcripts, asr>>

\* completed_video_ids(): only the manifests are asked.
Evaluated == {v \in Videos : transcripts[v].manifest # NoIdentity}

\* materialize_asr_enrichment() knows all videos, validate_frame_enrichment() wants all frames.
Viewable ==
    LET framed == {VideoOf[lineage][f] : f \in Frames} IN
    /\ Evaluated \cup {v \in Videos : transcripts[v].segments.count > 0} \subseteq framed
    /\ framed \subseteq Evaluated

MaterializeAsr ==
    /\ AtOnce("asr", Viewable)
    /\ asr' = IF Viewable
              THEN [lineage |-> lineage,
                    text |-> [f \in Frames |->
                        LET segments == transcripts[VideoOf[lineage][f]].segments IN
                        IF segments.count > 0 THEN segments.by ELSE NoIdentity]]
              ELSE asr
    /\ UNCHANGED <<source, transcripts>>

TranscriptNext ==
    StartTranscripts \/ PrepareVideo \/ EndTranscripts \/ StopTranscripts \/ Replace \/ MaterializeAsr
=============================================================================
