---------------------------- MODULE TrailPrograms ----------------------------
(***************************************************************************)
(* EventTrail over the dynamic programs that decode its selected video:    *)
(* align_video() answers decode(), align_video_conditioned() lists the     *)
(* alternatives, both under the mask of the session's constraints.         *)
(* TrailDecoder says only which paths are best; here the scores are those  *)
(* of a scored video, and the two programs break their ties each its way.  *)
(***************************************************************************)
EXTENDS EventTrail, TemporalDecoding

CONSTANTS
    Video,          \* the scored video of the session
    Settings        \* its decoder settings

FrameAt(p) == Video.time[p]
PositionOf(t) == CHOOSE p \in Positions(Video) : FrameAt(p) = t
FramesOn(path) == [e \in DOMAIN path |-> FrameAt(path[e])]

\* What TrailDecoder takes as given, of the prepared video.
FirstOfCluster(prep, t) == FrameAt(prep.source[PositionOf(t)] + 1)

ScoreOf(prep, path) ==
    Total([e \in Events |-> prep.rows[e][PositionOf(path[e])]])
        - Settings.gap * (path[EventCount] - path[1])

ASSUME VideoAssumption ==
    LET prep == Prepared(Video, Settings)
    IN  /\ EventsOf(Video) = Events
        /\ Times = {FrameAt(p) : p \in Positions(Video)}
        /\ \A p, q \in Positions(Video) : p < q => FrameAt(p) < FrameAt(q)
        /\ ClusterStart = [t \in Times |-> FirstOfCluster(prep, t)]
        /\ Score = [path \in Paths |-> ScoreOf(prep, path)]

-----------------------------------------------------------------------------
Mask(c) == Table([e \in Events |-> {p \in Positions(Video) : FrameAt(p) \in Allowed(c, e)}])

\* No program is run when an event is left no frame.
Runs(mask) == \A e \in Events : mask[e] # {}

DecodedRows(c) ==
    LET mask == Mask(c)
    IN  IF Runs(mask) THEN AlignMasked(Video, Prepared(Video, Settings), Settings, mask, 1)
        ELSE <<>>

AlternativeRows(c, e) ==
    LET mask == Mask(c)
    IN  IF Runs(mask)
        THEN ConditionedRows(Video, Prepared(Video, Settings), Settings, mask, e, MinSep, AltCount)
        ELSE <<>>

KeptOf(rows) == {[frame |-> FrameAt(rows[i].focus), score |-> rows[i].score] : i \in DOMAIN rows}

PathAt(rows, t) == FramesOn(rows[CHOOSE i \in DOMAIN rows : FrameAt(rows[i].focus) = t].path)

-----------------------------------------------------------------------------
(* Properties.                                                             *)

AnswersDecode(c, rows) ==
    /\ rows = <<>> <=> Feasible(c) = {}
    /\ \A i \in DOMAIN rows :
           rows[i].time \in BestOf(Feasible(c)) /\ rows[i].score = Score[rows[i].time]

AnswersAlternatives(c, e, rows) ==
    LET peaks == PeaksOf(KeptOf(rows))
    IN  /\ IsSelection(Heights(c, e), KeptOf(rows))
        /\ [t \in peaks |-> PathAt(rows, t)] \in Previews(c, e, peaks)

\* Under the constraints of every session, the forward program finds a best
\* admissible path exactly when there is one, and the forward and the backward
\* program joined at the focused event list modes of the kind alternatives()
\* promises: best paths through their peaks, no better frame left out
\* (align_video, align_video_conditioned; the successor search is to mirror the
\* predecessors across score clusters).
ProgramsAnswer ==
    /\ AnswersDecode(constraints, DecodedRows(constraints))
    /\ \A e \in Events : AnswersAlternatives(constraints, e, AlternativeRows(constraints, e))
=============================================================================
