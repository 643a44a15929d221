------------------------------ MODULE IndexStage ------------------------------
(***************************************************************************)
(* offline/embeddings and offline/indexes: the vectors of the images, the  *)
(* text indexes of captions, OCR and contexts, the index of transcript     *)
(* segments and the keyword index.  An index is published as a directory,  *)
(* in one step here.                                                       *)
(***************************************************************************)
EXTENDS ContextStage, TranscriptStage

CONSTANT ShardSize      \* frames of one shard of image vectors

ASSUME ShardAssumption == ShardSize \in Nat \ {0}

VARIABLES
    shards,     \* checkpoints: the frame ids of a slice and the setting that encoded it
    visual,     \* visual_embeddings.npy, frame_mapping.parquet and metadata.yaml
    failures,   \* frames in the failure report beside the shards
    dense,      \* the text index of each source
    spoken,     \* the segment index
    keywords    \* the BM25 index

indexes == <<shards, visual, failures, dense, spoken, keywords>>

Ids(frames) == [f \in frames |-> IdOf(lineage, f)]

Slices == 1..((FrameCount + ShardSize - 1) \div ShardSize)
Slice(k) == {f \in Frames : (f - 1) \div ShardSize = k - 1}

TextSources == {"caption", "ocr", "context"}
NoShard == [ids |-> <<>>, by |-> 0]
NoVisual == [vectors |-> <<>>, mapping |-> <<>>, metadata |-> 0]
NoIndex == [lineage |-> 0, texts |-> <<>>]

InitIndexes ==
    /\ shards = [k \in Slices |-> NoShard] /\ visual = NoVisual /\ failures = {}
    /\ dense = [s \in TextSources |-> NoIndex] /\ spoken = <<>> /\ keywords = NoIndex

\* EmbeddingArtifactBuilder.run(), strict: all slices in order.
StartVisual ==
    /\ Starts([stage |-> "visual-index", todo |-> InOrder(Slices), vectors |-> <<>>, failed |-> {}])
    /\ UNCHANGED indexes

\* Mutant: the identities of a shard are not compared.
AnyShard(k) == shards[k] # NoShard
\* _load_valid_shard(): the identities, and nothing of what encoded them.
ValidShard(k) == shards[k].ids = Ids(Slice(k))

\* _process_shard(): all images of the slice have to be readable, then the shard is reused
\* or encoded and checkpointed.
EmbedSlice ==
    /\ At("visual-index") /\ job.todo # <<>>
    /\ LET k == Head(job.todo) IN
       \E failed \in SUBSET Slice(k) :
          LET by == IF ValidShard(k) THEN shards[k].by ELSE config.setting
              encoded(f) == [id |-> shards'[k].ids[f], by |-> by]
              joined == [f \in DOMAIN job.vectors \cup Slice(k) |->
                            IF f \in DOMAIN job.vectors THEN job.vectors[f] ELSE encoded(f)]
          IN  /\ shards' = IF failed # {} \/ ValidShard(k) THEN shards
                           ELSE [shards EXCEPT ![k] = [ids |-> Ids(Slice(k)), by |-> by]]
              /\ Works([job EXCEPT !.todo = Tail(@), !.failed = @ \cup failed,
                            !.vectors = IF failed = {} THEN joined ELSE @])
    /\ UNCHANGED <<visual, failures, dense, spoken, keywords>>

Embedded == [vectors |-> job.vectors, mapping |-> Ids(Frames), metadata |-> config.setting]

\* The report is replaced or removed; only a complete build is saved.
EndVisual ==
    /\ At("visual-index") /\ job.todo = <<>>
    /\ failures' = job.failed
    /\ Ends(job.failed = {})
    /\ visual' = IF job.failed = {} THEN Embedded ELSE visual
    /\ UNCHANGED <<shards, dense, spoken, keywords>>

\* The process dies; _save() may have replaced the vectors, or the mapping too.
StopVisual ==
    /\ At("visual-index") /\ Dies
    /\ \/ UNCHANGED <<visual, failures>>
       \/ /\ job.todo = <<>> /\ job.failed = {} /\ failures' = {}
          /\ \E step \in 1..2 :
                visual' = [Embedded EXCEPT !.metadata = visual.metadata,
                               !.mapping = IF step = 2 THEN @ ELSE visual.mapping]
    /\ UNCHANGED <<shards, dense, spoken, keywords>>

\* _SpecialistArtifactReader: rows of one frame store, and the version and frame store of a
\* manifest, if there is one, are those of the rows.
Readable(bundle) ==
    /\ Present(bundle)
    /\ Cardinality({bundle.rows[f].lineage : f \in Frames}) = 1
    /\ bundle.manifest # NoManifest =>
        /\ bundle.manifest.kind = "complete"
        /\ \A f \in Frames : /\ bundle.rows[f].version = bundle.manifest.config.version
                             /\ bundle.rows[f].lineage = bundle.manifest.lineage

\* Mutant: assert_matching_lineage() is not called.
AnyLineage(found) == TRUE
\* assert_matching_lineage() and assert_frame_identity()
Matching(found) == found = lineage

TextsOf(bundle) == [f \in {g \in Frames : Usable(bundle.rows[g])} |-> Text(bundle.rows[f])]

\* build_text_index(): completed text of every row, after every row was compared.
BuildText ==
    /\ \E s \in {"caption", "ocr"} :
          LET bundle == IF s = "caption" THEN captions ELSE ocr
              good == /\ Readable(bundle) /\ Matching(bundle.rows[1].lineage)
                      /\ TextsOf(bundle) # <<>>
          IN  /\ AtOnce("text-index", good)
              /\ dense' = IF good
                          THEN [dense EXCEPT ![s] = [lineage |-> lineage, texts |-> TextsOf(bundle)]]
                          ELSE dense
    /\ UNCHANGED <<shards, visual, failures, spoken, keywords>>

\* build_context_index(): frames whose context has a text.
Contexts == [f \in {g \in Frames : \E part \in DOMAIN context.rows[g] : context.rows[g][part] # NoText}
                |-> context.rows[f]]
BuildContextIndex ==
    /\ LET good == /\ context.manifest # NoManifest /\ Matching(context.manifest.lineage)
                   /\ Contexts # <<>>
       IN  /\ AtOnce("context-index", good)
           /\ dense' = IF good
                       THEN [dense EXCEPT !["context"] = [lineage |-> lineage, texts |-> Contexts]]
                       ELSE dense
    /\ UNCHANGED <<shards, visual, failures, spoken, keywords>>

\* build_asr_segment_index(): the segments of all files, whatever their manifests say.
Spoken == [v \in {w \in Videos : transcripts[w].segments.count > 0} |-> transcripts[v].segments.by]
BuildSpoken ==
    /\ AtOnce("asr-index", Spoken # <<>>)
    /\ spoken' = IF Spoken # <<>> THEN Spoken ELSE spoken
    /\ UNCHANGED <<shards, visual, failures, dense, keywords>>

\* _evidence_text(): joined by frame id alone, and empty without a row.
Joined(text, l, f) == IF l # 0 /\ IdOf(l, f) = IdOf(lineage, f) THEN text ELSE NoText
BuildKeywords ==
    /\ AtOnce("bm25", TRUE)
    /\ keywords' = [lineage |-> lineage, texts |-> [f \in Frames |->
          [caption |-> Joined(context.rows[f].caption, context.rows[f].caption.lineage, f),
           ocr |-> Joined(Text(ocr.rows[f]), ocr.rows[f].store, f),
           asr |-> IF asr.lineage # 0 /\ IdOf(asr.lineage, f) = IdOf(lineage, f) THEN asr.text[f]
                   ELSE NoIdentity]]]
    /\ UNCHANGED <<shards, visual, failures, dense, spoken>>

IndexNext ==
    StartVisual \/ EmbedSlice \/ EndVisual \/ StopVisual
        \/ BuildText \/ BuildContextIndex \/ BuildSpoken \/ BuildKeywords
=============================================================================
