--------------------------- MODULE TemporalDecoding ---------------------------
(***************************************************************************)
(* Chronological paths through the scored frames of each video: the static *)
(* dynamic program, the motion graph over candidate layers, the order in   *)
(* which the videos' paths fill the result rows, and the checks a path     *)
(* passes against the canonical frames of a corpus.                        *)
(*                                                                         *)
(* A scored video is a record: its frames in canonical order with idx and  *)
(* time, and one row of scores per event over the positions of the frames. *)
(* d holds the alignment settings.  Equal scores keep the order of         *)
(* positions, which numpy's sort only promises for short arrays.           *)
(***************************************************************************)
EXTENDS TemporalEvidence

Scored(x, matrix, v) ==
    LET frames == VideoFrames(x, v)
        over(f) == Table([p \in DOMAIN frames |-> f[frames[p]]])
    IN  [video |-> v, frames |-> frames, idx |-> over(x.idx), time |-> over(x.time),
         rows |-> Table([e \in DOMAIN matrix |-> over(matrix[e])])]

InOrder(S) == Arranged(S, LAMBDA a, b : a < b)

\* The matrix of all frames, video by video in the order of their ids.
SplitVideos(x, matrix) ==
    LET videos == InOrder(Videos(x))
    IN  Table([k \in DOMAIN videos |-> Scored(x, matrix, videos[k])])

Positions(video) == DOMAIN video.frames
EventsOf(video) == DOMAIN video.rows
Moves(video) == EventsOf(video) \X Positions(video) \X Positions(video)

-----------------------------------------------------------------------------
(* Inputs of the dynamic program.                                          *)

\* The square root of a number, rounded down.
Root(n) == CHOOSE r \in 0..n : r * r <= n /\ n < (r + 1) * (r + 1)

\* Scores to the power of 1 or of a half: the settings allow none above one.
Powered(video, power) ==
    Table([e \in EventsOf(video) |-> Table([p \in Positions(video) |->
        IF power = 1 THEN video.rows[e][p]
        ELSE IF video.rows[e][p] < 0 THEN 0
        ELSE Root(video.rows[e][p] * Unit)])])

Drift(rows, p, a) == Max({Abs(rows[e][p] - rows[e][a]) : e \in DOMAIN rows})

\* First position of the run of frames whose scores stay within delta of it.
ClusterStarts(video, rows, delta) ==
    LET starts[p \in Positions(video)] ==
            IF p = 1 \/ delta = 0 THEN p
            ELSE LET anchor == starts[p - 1]
                 IN  IF Drift(rows, p, anchor) > delta THEN p ELSE anchor
    IN  Table(starts)

\* Mutant: an event may stay on the frame of the event before it.
SameFrameSource(starts, p) == starts[p]

\* Last position a predecessor may hold; none when it is zero.
Source(starts, p) == starts[p] - 1

PreparedWith(video, rows, starts) ==
    [rows   |-> rows,
     source |-> Table([p \in Positions(video) |-> Source(starts, p)]),
     ready  |-> /\ Len(video.frames) >= Len(video.rows)
                /\ Cardinality({p \in Positions(video) : starts[p] = p}) >= Len(video.rows)]

PreparedFrom(video, rows, delta) ==
    PreparedWith(video, rows, ClusterStarts(video, rows, delta))

Prepared(video, d) == PreparedFrom(video, Powered(video, d.power), d.delta)

-----------------------------------------------------------------------------
(* Best score of an event at a position, and where the event before it     *)
(* was.  A graph g holds the scores, the sources and the times, the gap    *)
(* penalty, the candidate positions of every event, the pull between two   *)
(* positions of consecutive events, and which of equal predecessors stays. *)
(* A layer of a table holds only the positions that a path reaches; the    *)
(* code gives the others the score -inf.                                   *)

Graph(video, prep, gap, layers, pull, latest) ==
    [rows |-> prep.rows, source |-> prep.source, time |-> video.time, gap |-> gap,
     layers |-> layers, pull |-> pull, latest |-> latest]

Open(g, before, p) == {q \in DOMAIN before : q <= g.source[p]}

Coming(g, before, e, p, q) ==
    before[q].score + g.pull[<<e, q, p>>] - g.gap * (g.time[p] - g.time[q])

\* The predecessors of the best score.
Argument(g, before, e, p) ==
    {q \in Open(g, before, p) :
        \A r \in Open(g, before, p) : Coming(g, before, e, p, r) <= Coming(g, before, e, p, q)}

Step(g, before, e, p) ==
    LET best == Argument(g, before, e, p)
        pick == IF g.latest THEN Max(best) ELSE Min(best)
    IN  [score |-> g.rows[e][p] + Coming(g, before, e, p, pick), from |-> pick]

FirstLayer(g) == [p \in g.layers[1] |-> [score |-> g.rows[1][p], from |-> 0]]

NextLayer(g, before, e) ==
    Table([p \in {r \in g.layers[e] : Open(g, before, r) # {}} |-> Step(g, before, e, p)])

PathTable(g) ==
    LET layer[e \in DOMAIN g.rows] ==
            IF e = 1 THEN FirstLayer(g)
            ELSE LET before == layer[e - 1] IN NextLayer(g, before, e)
    IN  Table(layer)

\* The static decoder searches all frames and keeps the latest of equal
\* predecessors.
StaticTable(video, prep, gap) ==
    PathTable(Graph(video, prep, gap, [e \in EventsOf(video) |-> Positions(video)],
                    [a \in Moves(video) |-> 0], TRUE))

\* The best candidates of an event; only the first event may sit on a frame
\* that has no predecessor.
Layer(video, prep, k, e) ==
    LET valid == {p \in Positions(video) : e = 1 \/ prep.source[p] > 0}
        order == Arranged(valid, LAMBDA p, q :
                     \/ prep.rows[e][p] > prep.rows[e][q]
                     \/ prep.rows[e][p] = prep.rows[e][q] /\ p < q)
    IN  {order[i] : i \in {j \in DOMAIN order : j <= k}}

\* Semantic change between two frames along the change of the two events: a
\* quarter of the inner product of their differences.
Transition(x, texts, video, e, q, p) ==
    LET toward(f) == x.visual[texts[e]][f] - x.visual[texts[e - 1]][f]
    IN  (toward(video.frames[p]) - toward(video.frames[q])) \div 4

LatticeTable(x, texts, video, prep, d) ==
    PathTable(Graph(video, prep, d.gap,
                    Table([e \in EventsOf(video) |-> Layer(video, prep, d.k, e)]),
                    [a \in Moves(video) |->
                        IF d.weight = 0 THEN 0
                        ELSE d.weight * Transition(x, texts, video, a[1], a[2], a[3])],
                    FALSE))

-----------------------------------------------------------------------------
(* Rows: the paths of the best endpoints that keep their distance.         *)

Trace(table, endpoint) ==
    LET n == Len(table)
        at[i \in 0..(n - 1)] ==     \* position of event n - i
            IF i = 0 THEN endpoint ELSE table[n - i + 1][at[i - 1]].from
    IN  [e \in 1..n |-> at[n - e]]

Apart(video, p, taken, separation) ==
    \A i \in DOMAIN taken : Abs(video.time[p] - video.time[taken[i]]) >= separation

Row(video, table, p) ==
    LET path == Trace(table, p)
        over(f) == Table([e \in DOMAIN path |-> f[path[e]]])
    IN  [video |-> video.video, score |-> Last(table)[p].score,
         frames |-> over(video.frames), idx |-> over(video.idx), time |-> over(video.time)]

Endpoints(last) ==
    Arranged(DOMAIN last,
             LAMBDA p, q : \/ last[p].score > last[q].score
                           \/ last[p].score = last[q].score /\ p < q)

KeptFrom(video, order, separation, limit) ==
    LET kept[n \in 0..Len(order)] ==
            IF n = 0 THEN <<>>
            ELSE LET taken == kept[n - 1]
                 IN  IF Len(taken) < limit /\ Apart(video, order[n], taken, separation)
                     THEN Append(taken, order[n]) ELSE taken
    IN  kept[Len(order)]

KeptEndpoints(video, table, separation, limit) ==
    KeptFrom(video, Endpoints(Last(table)), separation, limit)

RowsFrom(video, table, endpoints) ==
    Table([i \in DOMAIN endpoints |-> Row(video, table, endpoints[i])])

BestRows(video, table, separation, limit) ==
    RowsFrom(video, table, KeptEndpoints(video, table, separation, limit))

AlignPrepared(video, prep, d, limit) ==
    IF prep.ready
    THEN BestRows(video, StaticTable(video, prep, d.gap), d.separation, limit) ELSE <<>>

AlignVideo(video, d, limit) == AlignPrepared(video, Prepared(video, d), d, limit)

GraphPrepared(x, texts, video, prep, d, limit) ==
    IF prep.ready /\ \A e \in EventsOf(video) : Layer(video, prep, d.k, e) # {}
    THEN BestRows(video, LatticeTable(x, texts, video, prep, d), d.separation, limit)
    ELSE <<>>

MotionGraph(x, texts, video, d, limit) ==
    GraphPrepared(x, texts, video, Prepared(video, d), d, limit)

-----------------------------------------------------------------------------
(* Complete paths of one video under a mask: the positions allowed to each *)
(* event.  Scores are clustered before they are masked.                    *)

MaskedTable(video, prep, gap, allowed) ==
    PathTable(Graph(video, prep, gap, allowed, [a \in Moves(video) |-> 0], TRUE))

AlignMasked(video, prep, d, allowed, limit) ==
    IF prep.ready
    THEN BestRows(video, MaskedTable(video, prep, d.gap, allowed), d.separation, limit) ELSE <<>>

\* Mutant: the next event may stay in the score cluster of this one.
SameClusterStart(video, prep, p) ==
    Min({q \in Positions(video) : prep.source[q] >= p - 1} \cup {Len(video.frames) + 1})

\* First position whose score cluster starts after p; past the last when none does.
NextStart(video, prep, p) ==
    Min({q \in Positions(video) : prep.source[q] >= p} \cup {Len(video.frames) + 1})

Onward(video, prep, after, p) == {q \in DOMAIN after : q >= NextStart(video, prep, p)}

Leading(video, gap, after, q) == after[q].score - gap * video.time[q]

\* The earliest of equal successors stays.
StepBack(video, prep, gap, after, e, p) ==
    LET open == Onward(video, prep, after, p)
        best == {q \in open : \A r \in open :
                    Leading(video, gap, after, r) <= Leading(video, gap, after, q)}
        pick == Min(best)
    IN  [score |-> prep.rows[e][p] + gap * video.time[p] + Leading(video, gap, after, pick),
         to    |-> pick]

\* Best score of an event at a position and of all events after it.
SuffixTable(video, prep, gap, allowed) ==
    LET n == Len(video.rows)
        layer[i \in 0..(n - 1)] ==     \* of event n - i
            IF i = 0 THEN [p \in allowed[n] |-> [score |-> prep.rows[n][p], to |-> 0]]
            ELSE LET after == layer[i - 1]
                     e == n - i
                 IN  Table([p \in {r \in allowed[e] : Onward(video, prep, after, r) # {}} |->
                               StepBack(video, prep, gap, after, e, p)])
    IN  Table([e \in 1..n |-> layer[n - e]])

\* Best score of all events when the focused one is at a position.
Conditioned(prep, prefix, suffix, focus) ==
    Table([p \in DOMAIN prefix[focus] \cap DOMAIN suffix[focus] |->
        [score |-> prefix[focus][p].score + suffix[focus][p].score - prep.rows[focus][p]]])

PathThrough(prefix, suffix, focus, p) ==
    LET n == Len(suffix)
        left == Trace(SubSeq(prefix, 1, focus), p)
        right[e \in focus..n] == IF e = focus THEN p ELSE suffix[e - 1][right[e - 1]].to
    IN  [e \in 1..n |-> IF e <= focus THEN left[e] ELSE right[e]]

ConditionedRows(video, prep, d, allowed, focus, separation, limit) ==
    LET prefix == MaskedTable(video, prep, d.gap, allowed)
        suffix == SuffixTable(video, prep, d.gap, allowed)
        best == Conditioned(prep, prefix, suffix, focus)
        kept == KeptFrom(video, Endpoints(best), separation, limit)
    IN  IF prep.ready
        THEN Table([i \in DOMAIN kept |->
                 [focus |-> kept[i], score |-> best[kept[i]].score,
                  path |-> PathThrough(prefix, suffix, focus, kept[i])]])
        ELSE <<>>

-----------------------------------------------------------------------------
(* Ranking over all videos.                                                *)

ByScore(rows) ==
    LET order == Arranged(DOMAIN rows, LAMBDA i, j :
                     rows[i].score > rows[j].score \/ (rows[i].score = rows[j].score /\ i < j))
    IN  [k \in DOMAIN order |-> rows[order[k]]]

FirstRows(rows, n) == SubSeq(rows, 1, IF Len(rows) < n THEN Len(rows) ELSE n)

\* How many rows every video is asked for, to fill the result.
Depth(videos, d, maxRows) ==
    Max({d.paths, (maxRows + Len(videos) - 1) \div Len(videos)})

Level(perVideo, level) ==
    LET having == InOrder({k \in DOMAIN perVideo : Len(perVideo[k]) >= level})
    IN  ByScore([n \in DOMAIN having |-> perVideo[having[n]][level]])

\* Every video's best row before any video's second, unless further moments
\* of one video were asked for.
Rank(perVideo, depth, d, maxRows) ==
    IF d.paths > 1 THEN FirstRows(ByScore(FlattenSeq(perVideo)), maxRows)
    ELSE FirstRows(FlattenSeq([level \in 1..depth |-> Level(perVideo, level)]), maxRows)

RankPaths(videos, d, maxRows) ==
    IF videos = <<>> THEN <<>>
    ELSE LET depth == Depth(videos, d, maxRows)
         IN  Rank(Table([k \in DOMAIN videos |-> AlignVideo(videos[k], d, depth)]), depth, d,
                  maxRows)

RankMotionGraph(x, texts, videos, d, maxRows) ==
    IF videos = <<>> THEN <<>>
    ELSE LET depth == Depth(videos, d, maxRows)
         IN  Rank(Table([k \in DOMAIN videos |-> MotionGraph(x, texts, videos[k], d, depth)]),
                  depth, d, maxRows)

-----------------------------------------------------------------------------
(* Checks against the canonical frames of a corpus.                        *)

\* Mutant: a frame is looked up and not compared.
Known(corpus, i) == i.frame \in DOMAIN corpus.video

Canonical(corpus, i) ==
    /\ i.frame \in DOMAIN corpus.video
    /\ corpus.video[i.frame] = i.video
    /\ corpus.idx[i.frame] = i.idx
    /\ corpus.time[i.frame] = i.time

\* The identity that a scored video or a row claims for its p-th frame.
Identity(item, p) == [frame |-> item.frames[p], video |-> item.video,
                      idx |-> item.idx[p], time |-> item.time[p]]

\* Places of the items whose identity the corpus does not confirm.
Wrong(corpus, items) ==
    {at \in UNION {{k} \X DOMAIN items[k].frames : k \in DOMAIN items} :
        ~Canonical(corpus, Identity(items[at[1]], at[2]))}

Foremost(places) ==
    CHOOSE a \in places : \A b \in places : a[1] < b[1] \/ (a[1] = b[1] /\ a[2] <= b[2])

\* The first wrong identity decides: "missing" stands for a KeyError of the
\* corpus, "conflict" for a ValueError.
Verdict(corpus, items) ==
    LET wrong == Wrong(corpus, items)
        first == Foremost(wrong)
    IN  IF wrong = {} THEN "good"
        ELSE IF items[first[1]].frames[first[2]] \notin DOMAIN corpus.video THEN "missing"
        ELSE "conflict"
=============================================================================
