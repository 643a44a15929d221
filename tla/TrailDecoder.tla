----------------------------- MODULE TrailDecoder -----------------------------
(***************************************************************************)
(* The selected-video decoder behind an EventTrail session: which complete *)
(* paths the operator's constraints admit, the path decode() returns, the  *)
(* localized repair, the rejection cell of a frame, and the alternatives   *)
(* of a focused event with their rejection intervals.                      *)
(*                                                                         *)
(* One video is fixed, with one indexed frame per timestamp, so a frame is *)
(* named by its timestamp in milliseconds.  A rejected interval is kept as *)
(* the set of frames it masks: build_mask reads an interval only through   *)
(* the frames it covers, and an empty row ends the decode whichever of the *)
(* three failure statuses it carries.                                      *)
(***************************************************************************)
EXTENDS Integers, FiniteSets

CONSTANTS
    EventCount,     \* number of ordered events of the query
    Times,          \* timestamps of the indexed frames of the video
    ClusterStart,   \* first frame of the score cluster a frame belongs to
    Score,          \* DP score of every assignment of frames to events
    AltCount,       \* EventTrailSettings.alternative_count
    MinSep,         \* EventTrailSettings.mode_min_separation_ms
    MaxRadius,      \* EventTrailSettings.mode_max_radius_ms
    None            \* Python's None

Events == 1..EventCount
Paths == [Events -> Times]
Windows == {w \in Nat \X Nat : w[1] <= w[2]}

ASSUME EventCountAssumption == EventCount \in Nat \ {0}
ASSUME TimesAssumption == Times \subseteq Nat
ASSUME ClusterAssumption ==
    /\ ClusterStart \in [Times -> Times]
    /\ \A t \in Times : ClusterStart[t] <= t
\* Scores are bounded: a video has finitely many frames, and at least one.
ASSUME ScoreAssumption ==
    /\ Score \in [Paths -> Int]
    /\ \E top \in Paths : \A p \in Paths : Score[p] <= Score[top]
ASSUME SettingsAssumption ==
    /\ AltCount \in Nat \ {0}
    /\ MinSep \in Nat \ {0}
    /\ MaxRadius \in Nat \ {0}
ASSUME NoneAssumption ==
    /\ None \notin Times
    /\ None \notin Paths
    /\ None \notin Events
    /\ None \notin Windows

-----------------------------------------------------------------------------
(* Constraints, and the frames they leave to each event.                   *)

Constraints == [anchors  : [Events -> Times \cup {None}],
                rejected : [Events -> SUBSET Times],
                window   : Windows \cup {None}]

NoConstraints == [anchors  |-> [e \in Events |-> None],
                  rejected |-> [e \in Events |-> {}],
                  window   |-> None]

InWindow(w, t) == w = None \/ (w[1] <= t /\ t <= w[2])

\* The row of the mask for event e: window, anchor and rejected intervals.
Allowed(c, e) ==
    {t \in Times : /\ InWindow(c.window, t)
                   /\ t \notin c.rejected[e]
                   /\ c.anchors[e] # None => t = c.anchors[e]}

\* A later event lies in a later score cluster, so strictly later in time.
\* Stated of every pair: the recurrence chains neighbours, and cluster starts
\* grow with time.
Chronological(p) ==
    \A i, j \in Events : i < j => p[i] < ClusterStart[p[j]]

ChronologicalPaths == {p \in Paths : Chronological(p)}

Feasible(c) == {p \in ChronologicalPaths : \A e \in Events : p[e] \in Allowed(c, e)}

BestOf(S) == {p \in S : \A q \in S : Score[q] <= Score[p]}

\* align_video() keeps the latest of equal predecessors: one path for a set.
Best(S) == CHOOSE p \in S : \A q \in S : Score[q] <= Score[p]

\* decode(): the best admissible path, None when there is none.
Decode(c) == IF Feasible(c) = {} THEN None ELSE Best(Feasible(c))

WithAnchor(c, e, t) == [c EXCEPT !.anchors[e] = t]
WithRejected(c, e, F) == [c EXCEPT !.rejected[e] = @ \cup F]
WithWindow(c, w) == [c EXCEPT !.window = w]

-----------------------------------------------------------------------------
(* Localized repair.                                                       *)

\* Mutant: only the repaired event may move.
RepairSingle(c, e) == {e}

\* The unanchored block around e, bounded by the nearest anchors.
RepairBlock(c, e) ==
    {i \in Events : \A j \in (i..e) \cup (e..i) : c.anchors[j] = None}

\* Mutant: the repair must leave the frame it repairs.
RepairAway(c, ref, e) ==
    {p \in Feasible(c) :
        ref # None =>
            /\ p[e] # ref[e]
            /\ \A i \in Events \ RepairBlock(c, e) :
                   c.anchors[i] = None => p[i] = ref[i]}

\* Outside the block the reference path is kept; inside it the frames lie
\* strictly between the neighbouring anchors, which Chronological implies.
RepairCandidates(c, ref, e) ==
    {p \in Feasible(c) :
        ref # None =>
            \A i \in Events \ RepairBlock(c, e) :
                c.anchors[i] = None => p[i] = ref[i]}

Repair(c, ref, e) ==
    LET S == RepairCandidates(c, ref, e)
    IN  IF S = {} THEN None ELSE Best(S)

-----------------------------------------------------------------------------
(* Rejection cells and alternatives.                                       *)

\* Frames in the midpoint interval that declining the frame at t rejects.
RejectionCell(t) ==
    {x \in Times : \A u \in Times :
        /\ u < t => x >= (u + t) \div 2 + 1
        /\ u > t => x <= (t + u) \div 2}

Distance(t, u) == IF t <= u THEN u - t ELSE t - u

\* Mutant: the intervals of neighbouring modes are not split.
ModeFramesUnsplit(peaks, w, t) ==
    {x \in Times : InWindow(w, x) /\ Distance(x, t) <= MaxRadius}

\* Frames in the interval of the mode that peaks at t, given all the peaks:
\* radius, split at the midpoint between neighbours, clipped to the window.
ModeFrames(peaks, w, t) ==
    {x \in Times :
        /\ InWindow(w, x)
        /\ Distance(x, t) <= MaxRadius
        /\ \A u \in peaks \ {t} :
               /\ Distance(x, t) <= Distance(u, t) \div 2
               /\ u < t => x >= (u + t) \div 2 + 1
               /\ u > t => x <= (t + u) \div 2}

Through(c, e, t) == {p \in Feasible(c) : p[e] = t}

\* The frames of an event that a path leads through, with the score of the best.
Heights(c, e) ==
    {[frame |-> t, score |-> Score[Best(Through(c, e, t))]] : t \in {p[e] : p \in Feasible(c)}}

\* The frames the greedy loop keeps: by descending score, each at least MinSep
\* from those kept before, at most AltCount of them.
IsSelection(ranked, kept) ==
    LET TooClose(a, b) == Distance(a.frame, b.frame) < MinSep
        full == Cardinality(kept) = AltCount
    IN  /\ kept \subseteq ranked
        /\ Cardinality(kept) <= AltCount
        /\ \A a, b \in kept : a # b => ~TooClose(a, b)
        /\ \A a \in ranked \ kept :
               \/ \E b \in kept : TooClose(a, b) /\ a.score <= b.score
               \/ full /\ \A b \in kept : a.score <= b.score

PeaksOf(kept) == {a.frame : a \in kept}

Modes == [frame : Times, frames : SUBSET Times, path : Paths]

\* The path listed with each peak.  align_video_conditioned() completes it with
\* the earliest of equal successors, so of equally good paths through a frame
\* it need not list the one that decode() keeps once the frame is chosen.
Previews(c, e, peaks) ==
    {path \in [peaks -> Feasible(c)] : \A t \in peaks : path[t] \in BestOf(Through(c, e, t))}

ModesAt(c, peaks, path) ==
    {[frame  |-> t,
      frames |-> ModeFrames(peaks, c.window, t),
      path   |-> path[t]] : t \in peaks}

\* What alternatives() may return: one mode per kept peak.
Alternatives(c, e) ==
    LET ranked == Heights(c, e)
        choices == {PeaksOf(kept) : kept \in {K \in SUBSET ranked : IsSelection(ranked, K)}}
    IN  UNION {{ModesAt(c, peaks, path) : path \in Previews(c, e, peaks)} : peaks \in choices}
=============================================================================
