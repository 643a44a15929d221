---------------------------- MODULE FrameRetrieval ----------------------------
(***************************************************************************)
(* Search of single frames: the best frames of every modality, their       *)
(* reciprocal-rank fusion when modalities may fail, the order in which AVS *)
(* covers videos and moments, and search by an image.                      *)
(*                                                                         *)
(* A fusion setting r has the rank constant k, the weight of every source, *)
(* the sources that must answer (required) and whether the weights of the  *)
(* sources that answered are scaled up (normalize).  down names what does  *)
(* not work while a query runs: encoders ("visual encoder", "text          *)
(* encoder") and the indexes of sources.                                   *)
(***************************************************************************)
EXTENDS TemporalDecoding

\* Modalities a service has an index for, in the order of their jobs.
Modalities(x) ==
    <<"visual">> \o (IF x.context # Absent THEN <<"context">> ELSE <<>>)
                 \o (IF x.segments # Absent THEN <<"asr">> ELSE <<>>)

EncoderOf(source) == IF source = "visual" THEN "visual encoder" ELSE "text encoder"

-----------------------------------------------------------------------------
(* The best frames of one modality, as a sequence without duplicates.      *)

BestFirst(row) ==
    Arranged(DOMAIN row, LAMBDA f, g : row[f] > row[g] \/ (row[f] = row[g] /\ f < g))

DenseHits(similarity, text, n) == FirstRows(BestFirst(similarity[text]), n)

\* Segments are searched, not frames: the best n segments, each at its one
\* projected frame, a frame at its best segment.
SegmentHits(x, text, n) ==
    LET order == Arranged(x.segments, LAMBDA s, t :
                     \/ s.sim[text] > t.sim[text]
                     \/ /\ s.sim[text] = t.sim[text]
                        /\ s.video < t.video \/ (s.video = t.video /\ s.start < t.start))
        found == ToSet(FirstRows(order, n))
        covered == UNION {Projected(x, s) : s \in found}
        score == [f \in covered |->
                     Max({s.sim[text] : s \in {t \in found : f \in Projected(x, t)}})]
    IN  FirstRows(BestFirst(score), n)

HitsOf(x, source, text, n) ==
    CASE source = "visual" -> DenseHits(x.visual, text, n)
      [] source = "context" -> DenseHits(x.context, text, n)
      [] source = "asr" -> SegmentHits(x, text, n)

-----------------------------------------------------------------------------
(* Fusion of the modalities that answered.                                 *)

SumOver(S, value(_)) == MapThenSumSet(value, S)

Weight(r, source, answered, configured) ==
    LET weight(s) == r.weights[s]
    IN  IF ~r.normalize \/ answered = configured THEN weight(source) * Unit
        ELSE (weight(source) * SumOver(configured, weight) * Unit)
                 \div SumOver(answered, weight)

RankIn(hits, f) == CHOOSE i \in DOMAIN hits : hits[i] = f

\* Fused candidates: the frame and its score, best first; equal scores by the
\* best rank in any modality, then by the frame.
Fused(hits, r, n, configured) ==
    LET answered == DOMAIN hits
        pool == UNION {ToSet(hits[source]) : source \in answered}
        at(f) == {source \in answered : f \in ToSet(hits[source])}
        score == [f \in pool |->
                     SumOver(at(f), LAMBDA source :
                         Weight(r, source, answered, configured)
                             \div (r.k + RankIn(hits[source], f)))]
        best == [f \in pool |-> Min({RankIn(hits[source], f) : source \in at(f)})]
        order == Arranged(pool, LAMBDA f, g :
                     \/ score[f] > score[g]
                     \/ /\ score[f] = score[g]
                        /\ best[f] < best[g] \/ (best[f] = best[g] /\ f < g))
    IN  FirstRows(order, n)

\* Every job runs; a failed one costs its source unless the source is required.
RequiredFailed(jobs, r, down) == r.required \cap ToSet(jobs) \cap down # {}

\* search_text: Absent stands for the exception of a query that failed.  Encoding
\* comes before the jobs, and an encoder that fails ends the query whatever the
\* sources that needed it.
TextHits(x, r, text, n, down) ==
    LET jobs == Modalities(x)
        answered == ToSet(jobs) \ down
        hits == [source \in answered |-> HitsOf(x, source, text, n)]
    IN  IF {EncoderOf(jobs[i]) : i \in DOMAIN jobs} \cap down # {} THEN Absent
        ELSE IF Len(jobs) = 1
        THEN (IF "visual" \in down THEN Absent
              ELSE [frames |-> hits["visual"], warnings |-> {}])
        ELSE IF RequiredFailed(jobs, r, down) THEN Absent
        ELSE [frames   |-> Fused(hits, r, n, ToSet(jobs)),
              warnings |-> ToSet(jobs) \cap down]

-----------------------------------------------------------------------------
(* AVS: of the frames that lie close in one video the best stays, then the *)
(* best of every video comes before the second of any.                     *)

\* Mutant: only neighbours in the ranking are compared.
NearLast(corpus, kept, f, window) ==
    /\ kept # <<>>
    /\ corpus.video[Last(kept)] = corpus.video[f]
    /\ LET gap == corpus.time[f] - corpus.time[Last(kept)]
       IN  (IF gap < 0 THEN -gap ELSE gap) <= window

NearKept(corpus, kept, f, window) ==
    \E g \in ToSet(kept) :
        /\ corpus.video[g] = corpus.video[f]
        /\ LET gap == corpus.time[f] - corpus.time[g]
           IN  (IF gap < 0 THEN -gap ELSE gap) <= window

\* What is kept of the first n frames.
Deduplicated(corpus, frames, window) ==
    LET kept[n \in 0..Len(frames)] ==
            IF n = 0 THEN <<>>
            ELSE IF NearKept(corpus, kept[n - 1], frames[n], window) THEN kept[n - 1]
            ELSE Append(kept[n - 1], frames[n])
    IN  kept[Len(frames)]

\* How many frames of its video come before a frame.
DepthOf(corpus, kept, i) ==
    Cardinality({j \in 1..(i - 1) : corpus.video[kept[j]] = corpus.video[kept[i]]})

CoverageOrder(corpus, frames, window) ==
    LET kept == Deduplicated(corpus, frames, window)
        order == Arranged(DOMAIN kept, LAMBDA i, j :
                     \/ DepthOf(corpus, kept, i) < DepthOf(corpus, kept, j)
                     \/ DepthOf(corpus, kept, i) = DepthOf(corpus, kept, j) /\ i < j)
    IN  [n \in DOMAIN order |-> kept[order[n]]]

-----------------------------------------------------------------------------
(* Image query: the frames nearest to the image, as paths of one frame.    *)

ImageHits(x, image, n) == DenseHits(x.visual, image, n)

OneFrame(x, f) ==
    [video |-> x.video[f], frames |-> <<f>>, idx |-> <<x.idx[f]>>, time |-> <<x.time[f]>>]
=============================================================================
