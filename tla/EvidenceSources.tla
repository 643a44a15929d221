--------------------------- MODULE EvidenceSources ----------------------------
(***************************************************************************)
(* What one retrieval runtime has loaded, and what each expert says about  *)
(* every canonical frame: the visual and context dense indexes, the speech *)
(* segments projected onto frames, the four BM25 fields and the literal    *)
(* text filter.                                                            *)
(*                                                                         *)
(* A bundle of artifacts is a record x over the frames DOMAIN x.video:     *)
(*   video, idx, time   identity of a frame (its place in the video)       *)
(*   dense              whether Dense evidence is loaded at all            *)
(*   visual, context    similarity of a query to a frame (context may be   *)
(*                      Absent, as may every optional source)              *)
(*   segments           transcript segments: video, start, end, the        *)
(*                      similarity sim[text] of their vector, their words  *)
(*   bm25               weight of a text in a field of a frame             *)
(*   words, objects     literal text and object counts of a frame          *)
(* A matrix has one row per event: a function from frames to scores.       *)
(***************************************************************************)
EXTENDS Integers, Sequences, FiniteSets, FiniteSetsExt, SequencesExt, TLC

CONSTANTS
    Absent,         \* an absent source, text or result (Python's None)
    Gap,            \* max_projection_gap_ms of the speech projector
    Plain           \* normalised form of a raw object label

Fields == {"title", "caption", "ocr", "asr"}

\* f itself, chosen as a value so that TLC computes it once.
Table(f) == CHOOSE g \in {f} : g = f

\* The values of a function, added up.
Total(f) == MapThenSumSet(LAMBDA a : f[a], DOMAIN f)

\* The elements of a finite set in order, each after as many as come before it.
ByPlace(S, place) == [n \in 1..Cardinality(S) |-> CHOOSE a \in S : place[a] = n - 1]
Arranged(S, before(_, _)) ==
    ByPlace(S, Table([a \in S |-> Cardinality({b \in S : before(b, a)})]))

Frames(x) == DOMAIN x.video
Videos(x) == {x.video[f] : f \in Frames(x)}

\* Frames of one video in canonical order, whatever order they were embedded;
\* the sort is stable.
VideoFrames(x, v) ==
    Arranged({f \in Frames(x) : x.video[f] = v},
             LAMBDA f, g : x.idx[f] < x.idx[g] \/ (x.idx[f] = x.idx[g] /\ f < g))

\* Exact inner products of every query with every frame.
Scores(similarity, queries) == [i \in DOMAIN queries |-> similarity[queries[i]]]

-----------------------------------------------------------------------------
(* Speech segments on frames.                                              *)

Middle(s) == (s.start + s.end) \div 2
Abs(n) == IF n < 0 THEN -n ELSE n
FromMiddle(x, s, f) == Abs(x.time[f] - Middle(s))

Nearer(x, s, f, g) ==
    LET ahead == FromMiddle(x, s, g) - FromMiddle(x, s, f)
    IN  \/ ahead > 0
        \/ /\ ahead = 0
           /\ \/ x.time[f] < x.time[g]
              \/ x.time[f] = x.time[g] /\ x.idx[f] <= x.idx[g]

Inside(x, s) == {f \in Frames(x) : /\ x.video[f] = s.video
                                   /\ s.start <= x.time[f]
                                   /\ x.time[f] < s.end}

Near(x, s) == {f \in Frames(x) : x.video[f] = s.video /\ FromMiddle(x, s, f) <= Gap}

NearestOf(x, s, frames) == {f \in frames : \A g \in frames : Nearer(x, s, f, g)}

\* The one frame a segment projects to, as a set: empty when none is near.
Projected(x, s) == NearestOf(x, s, IF Inside(x, s) = {} THEN Near(x, s) ELSE Inside(x, s))

Spoken(x, s, interval) ==
    IF interval /\ Inside(x, s) # {} THEN Inside(x, s) ELSE Projected(x, s)

Coverage(x, interval) == UNION {Spoken(x, s, interval) : s \in x.segments}

\* The best of what is said at a frame; nothing said is zero.
BestSaid(text, segments) ==
    IF segments = {} THEN 0 ELSE Max({s.sim[text] : s \in segments})

SpeechMasked(x, queries, interval) ==
    [i \in DOMAIN queries |-> Table([f \in Frames(x) |->
        BestSaid(queries[i], {s \in x.segments : f \in Spoken(x, s, interval)})])]

\* Legacy scoring: one frame per segment, the lowest score everywhere else.
Floored(row, covered) ==
    [f \in DOMAIN row |-> IF f \in covered \/ covered = {} THEN row[f]
                          ELSE Min({row[g] : g \in covered})]

FlooredRows(rows, covered) == [i \in DOMAIN rows |-> Table(Floored(rows[i], covered))]

SpeechFloored(x, queries) ==
    FlooredRows(SpeechMasked(x, queries, FALSE), Coverage(x, FALSE))

-----------------------------------------------------------------------------
(* Raw score components: matrices with the frames they say something of    *)
(* (Absent where the component has no coverage mask).                      *)

Component(rows, coverage) == [rows |-> rows, coverage |-> coverage]

\* Two bundles as one.
Joined(f, g) ==
    [name \in DOMAIN f \cup DOMAIN g |-> IF name \in DOMAIN f THEN f[name] ELSE g[name]]

DenseNames(x) ==
    {name \in {"visual_dense", "context_dense", "asr_dense"} :
        /\ name = "context_dense" => x.context # Absent
        /\ name = "asr_dense" => x.segments # Absent}

DenseComponents(x, texts, interval) ==
    [name \in DenseNames(x) |->
        CASE name = "visual_dense" -> Component(Scores(x.visual, texts), Absent)
          [] name = "context_dense" -> Component(Scores(x.context, texts), Absent)
          [] name = "asr_dense" -> Component(SpeechMasked(x, texts, interval),
                                             Coverage(x, interval))]

\* The caption field is queried with the caption text, the others with the
\* original text of the event.
Bm25Rows(x, field, originals, captions) ==
    Scores(x.bm25[field], IF field = "caption" THEN captions ELSE originals)

Bm25Name(field) ==
    [title |-> "bm25_title", caption |-> "bm25_caption", ocr |-> "bm25_ocr",
     asr |-> "bm25_asr"][field]

Bm25Components(x, originals, captions) ==
    [name \in {Bm25Name(field) : field \in Fields} |->
        LET field == CHOOSE g \in Fields : Bm25Name(g) = name
        IN  Component(Bm25Rows(x, field, originals, captions), Absent)]

\* Query images: the best exemplar of an event, zero for an event without any.
ImageComponent(x, imageRows) ==
    Component([i \in DOMAIN imageRows |-> [f \in Frames(x) |->
                  IF imageRows[i] = {} THEN 0
                  ELSE Max({x.visual[image][f] : image \in imageRows[i]})]],
              Absent)

-----------------------------------------------------------------------------
(* Literal filter over the same artifacts.                                 *)

SpokenWords(x, f) == UNION {s.words : s \in {t \in x.segments : f \in Inside(x, t)}}

Evidence(x, source, f) ==
    IF source = "asr" THEN SpokenWords(x, f) ELSE x.words[source][f]

Available(x) == DOMAIN x.words \cup (IF x.segments = Absent THEN {} ELSE {"asr"})

\* Stored counts of labels that normalise alike are added; of two demands for
\* one normalised label the stricter one holds.
CountOf(x, f, label) ==
    MapThenSumSet(LAMBDA raw : x.objects[f][raw],
                  {raw \in DOMAIN x.objects[f] : Plain[raw] = label})
Demand(filters, label) ==
    Max({filters[raw] : raw \in {r \in DOMAIN filters : Plain[r] = label}})

\* A frame must meet every predicate on a source that is loaded; predicates on
\* other sources are left out, and so is a blank word.
Matches(x, q, f) ==
    /\ \A source \in DOMAIN q.words \cap Available(x) :
           q.words[source] # Absent => q.words[source] \in Evidence(x, source, f)
    /\ x.objects # Absent =>
           \A label \in {Plain[raw] : raw \in DOMAIN q.objects} :
               /\ label \in {Plain[raw] : raw \in DOMAIN x.objects[f]}
               /\ CountOf(x, f, label) >= Demand(q.objects, label)
    /\ q.video # Absent => x.video[f] = q.video

CanonicalOrder(x) ==
    Arranged(Frames(x), LAMBDA f, g : f < g)

Hits(x, q) == SelectSeq(CanonicalOrder(x), LAMBDA f : Matches(x, q, f))

\* One page of the hits, in canonical frame order.
Page(x, q) ==
    LET hits == Hits(x, q)
        first == (q.page - 1) * q.size + 1
    IN  SubSeq(hits, first, IF first + q.size - 1 <= Len(hits)
                            THEN first + q.size - 1 ELSE Len(hits))
=============================================================================
