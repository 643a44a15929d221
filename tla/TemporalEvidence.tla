--------------------------- MODULE TemporalEvidence ---------------------------
(***************************************************************************)
(* From a query plan to one score of every event at every frame: which     *)
(* text of an event each source is asked, the calibration of each          *)
(* component, the weights the router gives it for an event, and the fusion *)
(* of the components that cover a frame.                                   *)
(*                                                                         *)
(* Scores are fixed-point numbers: Unit stands for 1.0, quotients are      *)
(* rounded down, and the code's eps is zero.  A text is a model value      *)
(* whose cue words are CuesOf[text].                                       *)
(***************************************************************************)
EXTENDS EvidenceSources

CONSTANTS
    Unit,       \* fixed-point 1.0
    CuesOf      \* kinds of cue words ("speech", "ocr", "visual") in a text

SpreadOf(row) ==
    LET values == {row[f] : f \in DOMAIN row} IN Max(values) - Min(values)

\* Each row on its own between its lowest and highest value.
MinMax(row) ==
    LET low == Min({row[f] : f \in DOMAIN row})
    IN  [f \in DOMAIN row |->
            IF SpreadOf(row) = 0 THEN 0 ELSE ((row[f] - low) * Unit) \div SpreadOf(row)]

-----------------------------------------------------------------------------
(* The plan: one event per row; a text view is Absent where its source is  *)
(* off or the event has images only.                                       *)

\* An event of the intent with its translation and its overrides.
PlanEvent(event, flags) ==
    LET pick(override, otherwise) == IF override # Absent THEN override ELSE otherwise
    IN  [text   |-> event.text,
         dense  |-> IF flags.dense
                    THEN pick(event.denseOverride, pick(event.translation, event.text))
                    ELSE Absent,
         bm25   |-> IF flags.bm25 THEN pick(event.bm25Override, event.text) ELSE Absent,
         images |-> event.images]

BuildPlan(events, flags) == [i \in DOMAIN events |-> PlanEvent(events[i], flags)]

HasText(event) == event.text # Absent
HasImages(event) == event.images # {}
TextRows(plan) ==
    Arranged({i \in DOMAIN plan : HasText(plan[i])}, LAMBDA i, j : i < j)

\* validate_text_sources: what the caller asked for, loaded or not.
TextSourcesValid(plan, flags) ==
    /\ \E i \in DOMAIN plan : HasText(plan[i]) \/ HasImages(plan[i])
    /\ \A i \in DOMAIN plan :
          IF HasText(plan[i])
          THEN /\ flags.dense \/ flags.bm25 \/ HasImages(plan[i])
               /\ flags.dense => plan[i].dense # Absent
               /\ flags.bm25 => plan[i].bm25 # Absent
          ELSE HasImages(plan[i])

-----------------------------------------------------------------------------
(* Calibration of one row of one component.                                *)

Bm25Names == {Bm25Name(field) : field \in Fields}

\* Frames whose values inform the calibration of a row.
Support(name, component, row) ==
    IF component.coverage # Absent THEN component.coverage
    ELSE IF name \in Bm25Names THEN {f \in DOMAIN row : row[f] > 0}
    ELSE DOMAIN row

Sorted(row, support) ==
    LET order == Arranged(support, LAMBDA f, g :
                     row[f] < row[g] \/ (row[f] = row[g] /\ f < g))
    IN  [i \in DOMAIN order |-> row[order[i]]]

\* Linear interpolation between the neighbours of the quantile (in percent).
QuantileAt(values, k, rest) ==
    IF k + 1 > Len(values) THEN values[k]
    ELSE values[k] + ((values[k + 1] - values[k]) * rest) \div 100

Quantile(values, percent) ==
    LET at == percent * (Len(values) - 1)
    IN  QuantileAt(values, at \div 100 + 1, at % 100)

Clipped(value, low, high) ==
    IF value < low THEN low ELSE IF value > high THEN high ELSE value

\* Prominence of the best values over the median, between 0 and 1.
TopCount(n, c) == Max({1, Min({(n * c.topPercent + 99) \div 100, c.topMax})})

MeanOfLast(values, k) ==
    Total(SubSeq(values, Len(values) - k + 1, Len(values))) \div k

Prominence(above, spread) == IF above <= 0 THEN 0 ELSE (above * Unit) \div (above + spread)

Contrast(values, c) ==
    Prominence(MeanOfLast(values, TopCount(Len(values), c)) - Quantile(values, 50),
               Quantile(values, 75) - Quantile(values, 25))

Calibrated(scores, reliability) ==
    [scores |-> Table(scores), reliability |-> reliability]

\* A score on the supported frames, zero elsewhere.
On(row, support, value(_)) ==
    [f \in DOMAIN row |-> IF f \in support THEN value(f) ELSE 0]
Silence(row) == On(row, {}, LAMBDA f : 0)
Full(f) == Unit

Hit(row, support) == \E f \in support : row[f] > 0

\* One frame is all there is to compare.
Lone(name, row, support) ==
    IF Hit(row, support) THEN Calibrated(On(row, support, Full), Unit)
    ELSE Calibrated(Silence(row), IF name \in Bm25Names THEN Unit ELSE 0)

\* Values between the low and the high quantile.
Ranged(row, support, low, high) ==
    On(row, support, LAMBDA f : ((Clipped(row[f], low, high) - low) * Unit) \div (high - low))

Reliability(values, low, high, c) == IF high = low THEN 0 ELSE Contrast(values, c)

Between(name, row, support, values, low, high, c) ==
    Calibrated(IF high > low THEN Ranged(row, support, low, high)
               ELSE IF name \in Bm25Names /\ Hit(row, support) THEN On(row, support, Full)
               ELSE Silence(row),
               IF name \in Bm25Names THEN (IF Hit(row, support) THEN Unit ELSE 0)
               ELSE Reliability(values, low, high, c))

Spanned(name, row, support, values, c) ==
    Between(name, row, support, values, Quantile(values, c.qLow), Quantile(values, c.qHigh), c)

Robust(name, row, support, c) ==
    IF SpreadOf(row) = 0 \/ support = {} THEN Calibrated(Silence(row), 0)
    ELSE IF Cardinality(support) = 1 THEN Lone(name, row, support)
    ELSE Spanned(name, row, support, Sorted(row, support), c)

\* Without robust calibration: min-max over the supported frames.
StretchedBetween(row, support, low, high) ==
    IF high > low
    THEN Calibrated(On(row, support, LAMBDA f : ((row[f] - low) * Unit) \div (high - low)), Unit)
    ELSE IF low > 0 THEN Calibrated(On(row, support, Full), Unit)
    ELSE Calibrated(Silence(row), 0)

Stretched(row, support) ==
    IF support = {} THEN Calibrated(Silence(row), 0)
    ELSE StretchedBetween(row, support, Min({row[f] : f \in support}),
                          Max({row[f] : f \in support}))

CalibrateRow(name, component, row, c) ==
    IF c.robust THEN Robust(name, row, Support(name, component, row), c)
    ELSE IF component.coverage # Absent \/ name \in Bm25Names
    THEN Stretched(row, Support(name, component, row))
    ELSE Calibrated(MinMax(row), IF SpreadOf(row) > 0 THEN Unit ELSE 0)

Calibrate(name, component, i, c) == CalibrateRow(name, component, component.rows[i], c)

-----------------------------------------------------------------------------
(* Routing and fusion.                                                     *)

Cues(event) ==
    UNION {CuesOf[t] : t \in {event.text, event.dense} \ {Absent}}

Boost(name, event, c) ==
    IF ~c.routing THEN 1
    ELSE IF name \in {"asr_dense", "bm25_asr"} /\ "speech" \in Cues(event) THEN c.speechBoost
    ELSE IF name = "bm25_ocr" /\ "ocr" \in Cues(event) THEN c.ocrBoost
    ELSE IF name \in {"visual_dense", "context_dense"} /\ "visual" \in Cues(event)
         THEN c.visualBoost
    ELSE 1

Route(name, event, c) ==
    CASE name = "visual_image" -> IF HasImages(event) THEN c.base[name] ELSE 0
      [] name # "visual_image" -> IF HasText(event)
                                  THEN c.base[name] * Boost(name, event, c) ELSE 0

\* Mutant: a component weighs on frames it says nothing of.
WeightEverywhere(name, component, event, reliability, f, c) ==
    Route(name, event, c) * (IF c.gating THEN reliability ELSE Unit)

WeightAt(name, component, event, reliability, f, c) ==
    IF component.coverage # Absent /\ f \notin component.coverage THEN 0
    ELSE Route(name, event, c) * (IF c.gating THEN reliability ELSE Unit)

\* What an event shows where no component weighs anything.
Fallback(bundle, event, cal, f) ==
    IF "visual_dense" \in DOMAIN bundle /\ HasText(event) THEN cal["visual_dense"].scores[f]
    ELSE IF "visual_image" \in DOMAIN bundle /\ HasImages(event)
    THEN cal["visual_image"].scores[f] ELSE 0

Blended(cal, weight, f, otherwise) ==
    IF Total(weight) > 0
    THEN Total([name \in DOMAIN weight |-> weight[name] * cal[name].scores[f]])
             \div Total(weight)
    ELSE otherwise

Blend(bundle, event, cal, c) ==
    LET frames == DOMAIN cal[CHOOSE name \in DOMAIN cal : TRUE].scores
        weights(f) == [name \in DOMAIN cal |->
            WeightAt(name, bundle[name], event, cal[name].reliability, f, c)]
    IN  Table([f \in frames |->
            Blended(cal, Table(weights(f)), f, Fallback(bundle, event, cal, f))])

\* One event's fused row over a bundle of components.
FuseRow(bundle, event, i, c) ==
    Blend(bundle, event,
          Table([name \in DOMAIN bundle |-> Calibrate(name, bundle[name], i, c)]), c)

Fuse(bundle, plan, c) == Table([i \in DOMAIN plan |-> FuseRow(bundle, plan[i], i, c)])

-----------------------------------------------------------------------------
(* The evidence scorer over what is loaded.                                *)

Loaded(x, flags) == [dense |-> flags.dense /\ x.dense,
                     bm25  |-> flags.bm25 /\ x.bm25 # Absent]

TextComponents(x, originals, denseTexts, captions, flags, interval) ==
    Joined(IF flags.dense THEN DenseComponents(x, denseTexts, interval) ELSE <<>>,
           IF flags.bm25 THEN Bm25Components(x, originals, captions) ELSE <<>>)

\* Mutant: rows of the text events fill the first rows of the matrix.
ExpandInOrder(x, component, rows, n) ==
    Component([i \in 1..n |-> IF i <= Len(rows) THEN component.rows[i]
                              ELSE [f \in Frames(x) |-> 0]], component.coverage)

\* Rows of the text events at their places among all events, zero elsewhere.
ExpandRows(x, component, rows, n) ==
    Component([i \in 1..n |->
                  IF \E k \in DOMAIN rows : rows[k] = i
                  THEN component.rows[CHOOSE k \in DOMAIN rows : rows[k] = i]
                  ELSE [f \in Frames(x) |-> 0]], component.coverage)

Expanded(x, text, rows, n) ==
    Table([name \in DOMAIN text |-> ExpandRows(x, text[name], rows, n)])

\* Text components of the text events; a source that is off is asked the text itself.
TextBundle(x, events, on, c) ==
    TextComponents(x, [k \in DOMAIN events |-> events[k].text],
                   [k \in DOMAIN events |->
                        IF on.dense THEN events[k].dense ELSE events[k].text],
                   [k \in DOMAIN events |->
                        IF on.bm25 THEN events[k].bm25 ELSE events[k].text],
                   on, c.interval)

\* The bundle score_plan fuses.
Bundle(x, plan, flags, image, c) ==
    LET rows == TextRows(plan)
        events == [k \in DOMAIN rows |-> plan[rows[k]]]
    IN  Joined(Expanded(x, IF rows = <<>> THEN <<>>
                           ELSE TextBundle(x, events, Loaded(x, flags), c), rows, Len(plan)),
               IF image = Absent THEN <<>> ELSE [visual_image |-> image])

\* score_plan: Absent stands for the ValueError of a plan that cannot be scored.
ScorePlan(x, plan, flags, image, c) ==
    LET on == Loaded(x, flags)
        textEvidence == TextRows(plan) # <<>> /\ (on.dense \/ on.bm25)
        imageEvidence == image # Absent /\ \E i \in DOMAIN plan : HasImages(plan[i])
    IN  IF \/ TextRows(plan) # <<>> /\ ~TextSourcesValid(plan, flags)
           \/ ~textEvidence /\ ~imageEvidence
        THEN Absent
        ELSE Fuse(Bundle(x, plan, flags, image, c), plan, c)

-----------------------------------------------------------------------------
(* Scoring of plain text events (TRAKE), adaptive or with fixed weights.   *)

Weighted(rows, weights) ==
    LET names == DOMAIN rows
        some == rows[CHOOSE name \in names : TRUE]
    IN  [i \in DOMAIN some |-> Table([f \in DOMAIN some[i] |->
            Total([name \in names |-> weights[name] * rows[name][i][f]])])]

MinMaxRows(rows) == [i \in DOMAIN rows |-> Table(MinMax(rows[i]))]

LegacyDense(x, texts, c) ==
    Weighted([visual  |-> MinMaxRows(Scores(x.visual, texts)),
              context |-> MinMaxRows(Scores(x.context, texts)),
              asr     |-> MinMaxRows(SpeechFloored(x, texts))], c.legacy)

LegacyBm25(x, originals, captions, c) ==
    MinMaxRows(Weighted([field \in Fields |-> Bm25Rows(x, field, originals, captions)],
                        c.fields))

Legacy(x, originals, denseTexts, captions, on, c) ==
    IF on.dense /\ on.bm25
    THEN Weighted([dense |-> LegacyDense(x, denseTexts, c),
                   bm25  |-> LegacyBm25(x, originals, captions, c)], c.halves)
    ELSE IF on.dense THEN LegacyDense(x, denseTexts, c)
    ELSE LegacyBm25(x, originals, captions, c)

\* Fixed weights over Dense evidence need every expert.
LegacyReady(x, on) == on.dense => x.context # Absent /\ x.segments # Absent

ScoreEvents(x, originals, denseTexts, captions, flags, c) ==
    LET on == Loaded(x, flags)
        plan == [i \in DOMAIN originals |-> [text |-> originals[i], dense |-> denseTexts[i],
                                             bm25 |-> captions[i], images |-> {}]]
    IN  IF (~on.dense /\ ~on.bm25) \/ (c.mode = "legacy" /\ ~LegacyReady(x, on)) THEN Absent
        ELSE IF c.mode = "legacy" THEN Legacy(x, originals, denseTexts, captions, on, c)
        ELSE Fuse(TextComponents(x, originals, denseTexts, captions, on, c.interval), plan, c)
=============================================================================
