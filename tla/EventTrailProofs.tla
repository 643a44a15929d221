--------------------------- MODULE EventTrailProofs ---------------------------
(***************************************************************************)
(* The invariants of an EventTrail session, for every video, score,        *)
(* settings and number of events.  Every handler either lists alternatives,*)
(* undoes, or commits constraints that are sound in the sense of           *)
(* SoundCommit (lemma StepCases); the inductive invariant Inv follows, and *)
(* every property from it.                                                 *)
(*                                                                         *)
(* The last part is about the answers a trail is opened on.  The layers a  *)
(* decoder fills hold the best of all choices of frames that end at each   *)
(* position, so a video's first row is its best, whatever was asked of the *)
(* list around it; what a snapshot keeps is decoded again to the same best *)
(* row, and the decoders agree on it.                                      *)
(***************************************************************************)
EXTENDS EventTrail, SearchProofs

-----------------------------------------------------------------------------
(* What the decoder's operators return for every video, score and          *)
(* constraint.                                                             *)

\* A non-empty set of paths has a path of maximal score, and Best is one.
LEMMA BestIsMaximal ==
    ASSUME NEW S \in SUBSET Paths, S # {}
    PROVE  /\ Best(S) \in S
           /\ \A q \in S : Score[q] <= Score[Best(S)]
<1>1. PICK top \in Paths : \A p \in Paths : Score[p] <= Score[top]
    BY ScoreAssumption
<1> DEFINE Loss(p) == Score[top] - Score[p]
           T == {Loss(p) : p \in S}
<1>2. \A p \in S : Loss(p) \in Nat
    BY <1>1, ScoreAssumption
<1>3. T \subseteq Nat /\ T # {}
    BY <1>2
<1>4. PICK x \in T : \A y \in T : <<y, x>> \notin OpToRel(<, Nat)
    <2> HIDE DEF T
    <2> QED  BY <1>3, WFMin, NatLessThanWellFounded
<1>5. \A y \in T : x <= y
    <2> HIDE DEF T
    <2> SUFFICES ASSUME NEW y \in T
                 PROVE  ~(y < x)
        BY <1>3
    <2>1. x \in Nat /\ y \in Nat
        BY <1>3
    <2>2. y < x => <<y, x>> \in OpToRel(<, Nat)
        BY <2>1 DEF OpToRel
    <2> QED  BY <1>4, <2>2
<1>6. PICK p \in S : x = Loss(p)
    BY <1>4
<1>7. ASSUME NEW q \in S
      PROVE  Score[q] <= Score[p]
    <2>1. Loss(p) <= Loss(q)
        BY <1>5, <1>6
    <2>2. Score[top] \in Int /\ Score[p] \in Int /\ Score[q] \in Int
        BY ScoreAssumption
    <2> QED  BY <2>1, <2>2
<1> QED
    BY <1>6, <1>7 DEF Best

\* Admissible paths are paths.
LEMMA FeasiblePaths == \A c : Feasible(c) \subseteq Paths
BY DEF Feasible, ChronologicalPaths

\* decode() fails exactly when no path is admissible, and otherwise returns a
\* best admissible one.
LEMMA DecodeResult ==
    ASSUME NEW c
    PROVE  /\ Decode(c) = None <=> Feasible(c) = {}
           /\ Decode(c) # None =>
                  /\ Decode(c) \in Feasible(c)
                  /\ \A q \in Feasible(c) : Score[q] <= Score[Decode(c)]
BY BestIsMaximal, FeasiblePaths, NoneAssumption DEF Decode

\* repair() returns an admissible path; it cannot fail when the path it starts
\* from is admissible, nor succeed when no path is.
LEMMA RepairResult ==
    ASSUME NEW c, NEW ref, NEW e
    PROVE  /\ Repair(c, ref, e) # None => Repair(c, ref, e) \in RepairCandidates(c, ref, e)
           /\ Repair(c, ref, e) = None <=> RepairCandidates(c, ref, e) = {}
           /\ RepairCandidates(c, ref, e) \subseteq Feasible(c)
           /\ ref \in Feasible(c) => ref \in RepairCandidates(c, ref, e)
<1>1. RepairCandidates(c, ref, e) \subseteq Feasible(c)
    BY DEF RepairCandidates
<1>2. ref \in Feasible(c) => ref \in RepairCandidates(c, ref, e)
    BY DEF RepairCandidates
<1>3. /\ Repair(c, ref, e) # None => Repair(c, ref, e) \in RepairCandidates(c, ref, e)
      /\ Repair(c, ref, e) = None <=> RepairCandidates(c, ref, e) = {}
    BY <1>1, BestIsMaximal, FeasiblePaths, NoneAssumption DEF Repair
<1> QED
    BY <1>1, <1>2, <1>3

\* The midpoint interval of a frame masks no other frame.
LEMMA RejectionCellIsSingleton ==
    ASSUME NEW t \in Times
    PROVE  RejectionCell(t) = {t}
<1>1. t \in RejectionCell(t)
    <2>1. \A u \in Times : /\ u < t => t >= (u + t) \div 2 + 1
                           /\ u > t => t <= (t + u) \div 2
        BY TimesAssumption
    <2> QED  BY <2>1 DEF RejectionCell
<1>2. ASSUME NEW x \in RejectionCell(t), x # t
      PROVE  FALSE
    <2>1. x \in Times /\ x \in Nat /\ t \in Nat
        BY TimesAssumption DEF RejectionCell
    <2>2. CASE x < t
        <3>1. x >= (x + t) \div 2 + 1
            BY <2>1, <2>2 DEF RejectionCell
        <3> QED  BY <2>1, <2>2, <3>1
    <2>3. CASE x > t
        <3>1. x <= (t + x) \div 2
            BY <2>1, <2>3 DEF RejectionCell
        <3> QED  BY <2>1, <2>3, <3>1
    <2> QED  BY <1>2, <2>1, <2>2, <2>3
<1> QED
    BY <1>1, <1>2

\* The interval of a peak inside the window holds the peak and no frame of the
\* interval of another peak.
LEMMA ModeFramesDisjoint ==
    ASSUME NEW peaks \in SUBSET Times, NEW w,
           NEW t \in peaks
    PROVE  /\ InWindow(w, t) => t \in ModeFrames(peaks, w, t)
           /\ \A u \in peaks \ {t} : ModeFrames(peaks, w, t) \cap ModeFrames(peaks, w, u) = {}
<1> peaks \subseteq Nat
    BY TimesAssumption
<1>1. InWindow(w, t) => t \in ModeFrames(peaks, w, t)
    <2>1. Distance(t, t) = 0 /\ 0 <= MaxRadius
        BY SettingsAssumption DEF Distance
    <2>2. ASSUME NEW u \in peaks \ {t}
          PROVE  /\ 0 <= Distance(u, t) \div 2
                 /\ u < t => t >= (u + t) \div 2 + 1
                 /\ u > t => t <= (t + u) \div 2
        BY DEF Distance
    <2> QED  BY <2>1, <2>2 DEF ModeFrames
<1>2. ASSUME NEW u \in peaks \ {t},
             NEW x \in ModeFrames(peaks, w, t) \cap ModeFrames(peaks, w, u)
      PROVE  FALSE
    <2>1. x \in Nat
        BY TimesAssumption DEF ModeFrames
    <2>2. /\ u < t => x >= (u + t) \div 2 + 1
          /\ u > t => x <= (t + u) \div 2
        BY DEF ModeFrames
    <2>3. /\ t < u => x >= (t + u) \div 2 + 1
          /\ t > u => x <= (u + t) \div 2
        BY DEF ModeFrames
    <2> QED  BY <2>1, <2>2, <2>3
<1> QED
    BY <1>1, <1>2

\* An admissible path runs through every anchor, so the anchors of satisfiable
\* constraints are chronological and inside the window.
LEMMA AnchorsOnFeasiblePath ==
    ASSUME NEW c, NEW p \in Feasible(c), NEW i \in Events, c.anchors[i] # None
    PROVE  /\ p[i] = c.anchors[i]
           /\ InWindow(c.window, c.anchors[i])
           /\ \A j \in Events : i < j /\ c.anchors[j] # None =>
                  c.anchors[i] < ClusterStart[c.anchors[j]]
BY DEF Feasible, ChronologicalPaths, Allowed, Chronological

-----------------------------------------------------------------------------
(* The inductive invariant, and what the handlers do to the state.         *)

\* A checkpoint that undo may restore.
SoundCheckpoint(h) == AnchorsOrdered(h.constraints) /\ SelectionAnchored(h.constraints, h.selection)

\* Undo restores any checkpoint of the history, so each must be as sound as the
\* present; the history is no longer than the revisions that filled it.
HistorySound ==
    /\ \A i \in 1..Len(history) : SoundCheckpoint(history[i])
    /\ Len(history) <= trail_revision

Inv ==
    /\ TypeOK
    /\ ActivePathFeasible
    /\ ExhaustedIffInfeasible
    /\ ActivePathIsBest
    /\ AnchorsConsistent
    /\ SelectionStaysAnchored
    /\ UndoReachesStart
    /\ HistorySound

\* What every committing handler but Undo does.
MaximalIn(c, path) == \A q \in Feasible(c) : Score[q] <= Score[path]

SoundCommit(c, selection, path) ==
    /\ Commit(c, selection, path)
    /\ c \in Constraints
    /\ selection \in Selections \cup {None}
    /\ path = None <=> Feasible(c) = {}
    /\ path # None => path \in Feasible(c) /\ MaximalIn(c, path)
    /\ AnchorsOrdered(c)
    /\ SelectionAnchored(c, selection)

Focus == DropFocus \/ UNCHANGED focusVars

CommitStep ==
    /\ \E c \in Constraints, selection \in Selections \cup {None}, path \in Paths \cup {None} :
           SoundCommit(c, selection, path)
    /\ Focus

-----------------------------------------------------------------------------

\* Anchors that some path meets are in order.
LEMMA OrderedWhenFeasible == \A c : Feasible(c) # {} => AnchorsOrdered(c)
BY AnchorsOnFeasiblePath DEF AnchorsOrdered

\* Releasing constraints keeps the remaining anchors in order.
LEMMA ReleasingKeepsOrder ==
    ASSUME NEW c \in Constraints, AnchorsOrdered(c)
    PROVE  /\ \A e \in Events : AnchorsOrdered(WithAnchor(c, e, None))
           /\ AnchorsOrdered(WithWindow(c, None))
           /\ \A e \in Events : \A F : AnchorsOrdered(WithRejected(c, e, F))
<1>1. ASSUME NEW e \in Events
      PROVE  AnchorsOrdered(WithAnchor(c, e, None))
    BY DEF AnchorsOrdered, WithAnchor, Constraints
<1>2. AnchorsOrdered(WithWindow(c, None))
    BY DEF AnchorsOrdered, WithWindow, Constraints, InWindow
<1>3. ASSUME NEW e \in Events, NEW F
      PROVE  AnchorsOrdered(WithRejected(c, e, F))
    BY DEF AnchorsOrdered, WithRejected, Constraints
<1> QED
    BY <1>1, <1>2, <1>3

\* Constraints stay constraints with an anchor, rejections or a window.
LEMMA ConstraintTypes ==
    ASSUME NEW c \in Constraints, NEW e \in Events
    PROVE  /\ \A t \in Times \cup {None} : WithAnchor(c, e, t) \in Constraints
           /\ \A F \in SUBSET Times : WithRejected(c, e, F) \in Constraints
           /\ \A w \in Windows \cup {None} : WithWindow(c, w) \in Constraints
BY DEF Constraints, WithAnchor, WithRejected, WithWindow

\* Committing what was decoded is sound.
LEMMA DecodedCommit ==
    ASSUME NEW c \in Constraints, NEW selection \in Selections \cup {None},
           Commit(c, selection, Decode(c)),
           AnchorsOrdered(c) \/ Decode(c) # None,
           SelectionAnchored(c, selection),
           Focus
    PROVE  CommitStep
<1>1. /\ Decode(c) = None <=> Feasible(c) = {}
      /\ Decode(c) # None => Decode(c) \in Feasible(c) /\ MaximalIn(c, Decode(c))
    BY DecodeResult DEF MaximalIn
<1>2. Decode(c) \in Paths \cup {None}
    BY <1>1, FeasiblePaths
<1>3. AnchorsOrdered(c)
    BY <1>1, OrderedWhenFeasible
<1> QED
    BY <1>1, <1>2, <1>3 DEF CommitStep, SoundCommit

\* An anchor leaves the frame held for submission anchored.
LEMMA AnchorKeepsSelection ==
    ASSUME NEW c \in Constraints, NEW e \in Events, NEW t \in Times, NEW selection,
           SelectionAnchored(c, selection), selection \in Selections \cup {None}
    PROVE  SelectionAnchored(WithAnchor(c, e, t), selection)
BY NoneAssumption DEF SelectionAnchored, WithAnchor, Constraints, Selections

\* A repair of an active trail finds a best path: at revision 0 nothing is
\* anchored and the block is the whole query, later the path it starts from
\* already is a best one.
LEMMA RepairIsBest ==
    ASSUME Inv, NEW e \in Events, current_path # None, status = "active"
    PROVE  MaximalIn(constraints, Repair(constraints, current_path, e))
<1> USE DEF Inv, TypeOK
<1> DEFINE path == Repair(constraints, current_path, e)
           S == RepairCandidates(constraints, current_path, e)
<1>1. current_path \in S /\ S \subseteq Feasible(constraints)
    BY RepairResult DEF ActivePathFeasible
<1>2. path \in S /\ \A q \in S : Score[q] <= Score[path]
    BY <1>1, BestIsMaximal, FeasiblePaths DEF Repair
<1>3. CASE trail_revision = 0
    <2>1. Len(history) = 0
        BY <1>3, LenProperties DEF HistorySound
    <2>2. constraints = NoConstraints
        BY <2>1, EmptySeq DEF UndoReachesStart
    <2>3. RepairBlock(constraints, e) = Events
        BY <2>2, EventCountAssumption DEF RepairBlock, NoConstraints, Events
    <2>4. S = Feasible(constraints)
        BY <2>3 DEF RepairCandidates
    <2> QED  BY <1>2, <2>4 DEF MaximalIn
<1>4. CASE trail_revision > 0
    <2>1. \A q \in Feasible(constraints) : Score[q] <= Score[current_path]
        BY <1>4 DEF ActivePathIsBest
    <2>2. Score[current_path] <= Score[path]
        BY <1>1, <1>2
    <2>3. \A q \in Feasible(constraints) : Score[q] \in Int
        BY ScoreAssumption, FeasiblePaths
    <2>4. current_path \in Feasible(constraints) /\ path \in Feasible(constraints)
        BY <1>1, <1>2
    <2> HIDE DEF path
    <2>5. ASSUME NEW q \in Feasible(constraints)
          PROVE  Score[q] <= Score[path]
        BY <2>1, <2>2, <2>3, <2>4
    <2> QED  BY <2>5 DEF MaximalIn, path
<1> QED
    BY <1>3, <1>4

\* Every step lists alternatives, undoes or commits soundly.
LEMMA StepCases ==
    ASSUME Inv, [Next]_vars
    PROVE  \/ UNCHANGED vars
           \/ \E e \in Events : FocusEvent(e)
           \/ Undo
           \/ CommitStep
<1> USE DEF Inv, TypeOK, AnchorsConsistent, SelectionStaysAnchored
<1>1. ASSUME NEW e \in Events, AnchorCurrent(e), Focus
      PROVE  CommitStep
    <2> DEFINE c == WithAnchor(constraints, e, current_path[e])
    <2>1. current_path[e] \in Times
        BY <1>1 DEF AnchorCurrent, Paths
    <2>2. c \in Constraints
        BY <2>1, ConstraintTypes
    <2>3. SelectionAnchored(c, submission_selection)
        BY <2>1, AnchorKeepsSelection
    <2> QED
        BY <1>1, <2>2, <2>3, DecodedCommit DEF AnchorCurrent, CommitIfFeasible
<1>2. ASSUME NEW e \in Events, Approve(e) \/ KeepOccurrence(e)
      PROVE  CommitStep
    BY <1>1, <1>2 DEF Approve, KeepOccurrence, Focus
<1>3. ASSUME NEW e \in Events, NEW t \in Times, UseFrame(e, t)
      PROVE  CommitStep
    <2> DEFINE c == WithAnchor(constraints, e, t)
               selection == [event |-> e, frame |-> t]
    <2>1. c \in Constraints /\ selection \in Selections
        BY ConstraintTypes DEF Selections
    <2>2. SelectionAnchored(c, selection)
        BY NoneAssumption DEF SelectionAnchored, WithAnchor, Constraints
    <2> QED
        BY <1>3, <2>1, <2>2, DecodedCommit
        DEF UseFrame, CommitIfFeasible, Focus
<1>4. ASSUME NEW e \in Events, Decline(e)
      PROVE  CommitStep
    <2> DEFINE F == RejectionCell(current_path[e])
               c == WithRejected(constraints, e, F)
    <2>1. F \in SUBSET Times
        BY DEF RejectionCell
    <2>2. c \in Constraints /\ AnchorsOrdered(c)
        BY <2>1, ConstraintTypes, ReleasingKeepsOrder
    <2>3. SelectionAnchored(c, submission_selection)
        BY DEF SelectionAnchored, WithRejected, Constraints
    <2> QED
        BY <1>4, <2>2, <2>3, DecodedCommit DEF Decline, Focus
<1>5. ASSUME NEW e \in Events, ClearAnchor(e)
      PROVE  CommitStep
    <2> DEFINE c == WithAnchor(constraints, e, None)
               selected == submission_selection # None /\ submission_selection.event = e
               selection == IF selected THEN None ELSE submission_selection
    <2>1. c \in Constraints /\ AnchorsOrdered(c)
        BY ConstraintTypes, ReleasingKeepsOrder
    <2>2. selection \in Selections \cup {None}
        OBVIOUS
    <2>3. SelectionAnchored(c, selection)
        BY DEF SelectionAnchored, WithAnchor, Constraints, Selections
    <2>4. Commit(c, selection, Decode(c)) /\ Focus
        BY <1>5 DEF ClearAnchor, Focus
    <2> QED
        BY <2>1, <2>2, <2>3, <2>4, DecodedCommit
<1>6. ASSUME NEW w \in WindowInputs, SetWindow(w)
      PROVE  CommitStep
    <2> DEFINE c == WithWindow(constraints, w)
    <2>1. w \in Windows
        BY <1>6, WindowInputsAssumption DEF SetWindow, Windows
    <2>2. c \in Constraints
        BY <2>1, ConstraintTypes, EventCountAssumption DEF Constraints, WithWindow
    <2>3. SelectionAnchored(c, submission_selection)
        BY DEF SelectionAnchored, WithWindow, Constraints
    <2> QED
        BY <1>6, <2>2, <2>3, DecodedCommit
        DEF SetWindow, CommitIfFeasible, Focus
<1>7. ASSUME ClearWindow
      PROVE  CommitStep
    <2> DEFINE c == WithWindow(constraints, None)
    <2>1. c \in Constraints /\ AnchorsOrdered(c)
        BY ReleasingKeepsOrder DEF Constraints, WithWindow
    <2>2. SelectionAnchored(c, submission_selection)
        BY DEF SelectionAnchored, WithWindow, Constraints
    <2> QED
        BY <1>7, <2>1, <2>2, DecodedCommit DEF ClearWindow, Focus
<1>8. ASSUME NEW e \in Events, RepairEvent(e)
      PROVE  CommitStep
    <2> DEFINE reference == IF current_path = None THEN last_valid_path ELSE current_path
               path == Repair(constraints, reference, e)
    <2>1. Commit(constraints, submission_selection, path) /\ Focus
        BY <1>8 DEF RepairEvent, Focus
    <2>2. current_path # None => reference \in Feasible(constraints)
        BY DEF ActivePathFeasible
    <2>3. current_path = None <=> Feasible(constraints) = {}
        BY DEF ActivePathFeasible, ExhaustedIffInfeasible
    <2>7. current_path # None => MaximalIn(constraints, path)
        BY RepairIsBest DEF ActivePathFeasible
    <2> HIDE DEF reference
    <2>4. /\ path # None => path \in Feasible(constraints)
          /\ path = None <=> Feasible(constraints) = {}
        BY <2>2, <2>3, RepairResult
    <2>5. path \in Paths \cup {None}
        BY <2>4, FeasiblePaths
    <2>6. path # None => MaximalIn(constraints, path)
        BY <2>3, <2>4, <2>7
    <2> QED
        BY <2>1, <2>4, <2>5, <2>6 DEF CommitStep, SoundCommit
<1>9. ASSUME NEW e \in Events, NEW m \in alternatives, UseAlternative(e, m)
      PROVE  CommitStep
    <2> DEFINE c == WithAnchor(constraints, e, m.frame)
    <2>1. m.frame \in Times
        BY DEF Modes
    <2>2. c \in Constraints
        BY <2>1, ConstraintTypes
    <2>3. SelectionAnchored(c, submission_selection)
        BY <2>1, AnchorKeepsSelection
    <2> QED
        BY <1>9, <2>2, <2>3, DecodedCommit
        DEF UseAlternative, CommitIfFeasible, Focus
<1>10. ASSUME NEW e \in Events, NEW m \in alternatives, RejectMode(e, m)
       PROVE  CommitStep
    <2> DEFINE c == WithRejected(constraints, e, m.frames)
    <2>1. m.frames \in SUBSET Times
        BY DEF Modes
    <2>2. c \in Constraints /\ AnchorsOrdered(c)
        BY <2>1, ConstraintTypes, ReleasingKeepsOrder
    <2>3. SelectionAnchored(c, submission_selection)
        BY DEF SelectionAnchored, WithRejected, Constraints
    <2> QED
        BY <1>10, <2>2, <2>3, DecodedCommit DEF RejectMode, Focus
<1> QED
    BY <1>2, <1>3, <1>4, <1>5, <1>6, <1>7, <1>8, <1>9, <1>10 DEF Next

-----------------------------------------------------------------------------

\* The invariant holds of a trail that was just opened.
LEMMA InitInv ==
    ASSUME Init
    PROVE  Inv
<1> USE DEF Init
<1>1. NoConstraints \in Constraints
    BY DEF NoConstraints, Constraints
<1>2. TypeOK
    BY <1>1, FeasiblePaths, MaxRevisionAssumption DEF TypeOK
<1>3. ActivePathFeasible /\ ExhaustedIffInfeasible /\ ActivePathIsBest
    BY FeasiblePaths, NoneAssumption
    DEF ActivePathFeasible, ExhaustedIffInfeasible, ActivePathIsBest
<1>4. AnchorsConsistent /\ SelectionStaysAnchored
    BY DEF AnchorsConsistent, AnchorsOrdered, SelectionStaysAnchored,
           SelectionAnchored, NoConstraints
<1>5. UndoReachesStart /\ HistorySound
    BY DEF UndoReachesStart, HistorySound
<1> QED
    BY <1>2, <1>3, <1>4, <1>5 DEF Inv

\* The conjuncts about the path hold after any decode of sound constraints.
LEMMA AdoptedPath ==
    ASSUME NEW c, NEW path \in Paths \cup {None}, Adopt(path), constraints' = c,
           path = None <=> Feasible(c) = {},
           path # None => path \in Feasible(c) /\ MaximalIn(c, path)
    PROVE  ActivePathFeasible' /\ ExhaustedIffInfeasible' /\ ActivePathIsBest'
BY NoneAssumption
DEF Adopt, ActivePathFeasible, ExhaustedIffInfeasible, ActivePathIsBest, MaximalIn

\* A commit keeps every conjunct: its constraints are sound and so is the
\* checkpoint it pushes.
LEMMA CommitPreservesInv ==
    ASSUME Inv, CommitStep
    PROVE  Inv'
<1> USE DEF Inv, TypeOK
<1>1. PICK c \in Constraints, selection \in Selections \cup {None}, path \in Paths \cup {None} :
          SoundCommit(c, selection, path)
    BY DEF CommitStep
<1>2. /\ trail_revision < MaxRevision /\ trail_revision' = trail_revision + 1
      /\ history' = Append(history, Checkpoint)
      /\ constraints' = c /\ submission_selection' = selection
      /\ Adopt(path)
    BY <1>1 DEF SoundCommit, Commit
<1>3. Checkpoint \in Checkpoints /\ SoundCheckpoint(Checkpoint)
    BY DEF Checkpoint, Checkpoints, SoundCheckpoint, AnchorsConsistent, SelectionStaysAnchored
<1>4. /\ history' \in Seq(Checkpoints) /\ history' # <<>>
      /\ Len(history') = Len(history) + 1
      /\ \A i \in 1..Len(history) : history'[i] = history[i]
      /\ history'[Len(history) + 1] = Checkpoint
    BY <1>2, <1>3, AppendProperties
<1>5. Len(history) \in Nat
    BY LenProperties
<1>6. TypeOK'
    <2>1. trail_revision' \in 0..MaxRevision
        BY <1>2, MaxRevisionAssumption
    <2>2. current_path' \in Paths \cup {None} /\ last_valid_path' \in Paths
          /\ status' \in {"active", "exhausted"}
        BY <1>2 DEF Adopt
    <2>3. focused_event_id' \in Events \cup {None} /\ alternatives' \subseteq Modes
        BY DEF CommitStep, Focus, DropFocus, focusVars
    <2> QED  BY <1>2, <1>4, <2>1, <2>2, <2>3
<1>7. ActivePathFeasible' /\ ExhaustedIffInfeasible' /\ ActivePathIsBest'
    BY <1>1, <1>2, AdoptedPath DEF SoundCommit
<1>8. AnchorsConsistent' /\ SelectionStaysAnchored'
    BY <1>1, <1>2 DEF SoundCommit, AnchorsConsistent, SelectionStaysAnchored
<1>9. UndoReachesStart'
    <2>1. CASE history = <<>>
        <3>1. Checkpoint = [constraints |-> NoConstraints, selection |-> None]
            BY <2>1 DEF UndoReachesStart, Checkpoint
        <3>2. Len(history) = 0
            BY <2>1
        <3> QED  BY <1>4, <3>1, <3>2 DEF UndoReachesStart
    <2>2. CASE history # <<>>
        <3>1. 1 \in 1..Len(history)
            BY <2>2, EmptySeq
        <3> QED  BY <1>4, <2>2, <3>1 DEF UndoReachesStart
    <2> QED  BY <2>1, <2>2
<1>10. HistorySound'
    <2>1. ASSUME NEW i \in 1..Len(history')
          PROVE  SoundCheckpoint(history'[i])
        <3>1. CASE i \in 1..Len(history)
            BY <1>4, <3>1 DEF HistorySound
        <3>2. CASE i = Len(history) + 1
            BY <1>3, <1>4, <3>2
        <3> QED  BY <1>4, <1>5, <3>1, <3>2
    <2>2. Len(history') <= trail_revision'
        BY <1>2, <1>4, <1>5 DEF HistorySound
    <2>3. (\A i \in 1..Len(history) : SoundCheckpoint(history[i]))'
        BY <2>1 DEF SoundCheckpoint
    <2> QED  BY <2>2, <2>3 DEF HistorySound
<1> QED
    BY <1>6, <1>7, <1>8, <1>9, <1>10

\* The checkpoint that undo restores is sound, and those below it stay so.
LEMMA UndoPreservesInv ==
    ASSUME Inv, Undo
    PROVE  Inv'
<1> USE DEF Inv, TypeOK
<1> DEFINE n == Len(history)
           top == history[n]
<1>1. /\ history # <<>> /\ trail_revision < MaxRevision
      /\ trail_revision' = trail_revision + 1
      /\ constraints' = top.constraints /\ submission_selection' = top.selection
      /\ Adopt(Decode(top.constraints))
      /\ history' = SubSeq(history, 1, n - 1)
      /\ focused_event_id' = None /\ alternatives' = {}
    BY DEF Undo, DropFocus
<1>2. n \in Nat \ {0} /\ \A i \in 1..n : history[i] \in Checkpoints
    BY <1>1, EmptySeq, ElementOfSeq
<1>3. /\ history' \in Seq(Checkpoints) /\ Len(history') = n - 1
      /\ \A i \in 1..(n - 1) : history'[i] = history[i]
    <2>1. 1 \in Int /\ n - 1 \in Int /\ \A i \in 1..(n - 1) : history[i] \in Checkpoints
        BY <1>2
    <2>2. /\ SubSeq(history, 1, n - 1) \in Seq(Checkpoints)
          /\ Len(SubSeq(history, 1, n - 1)) = IF 1 <= n - 1 THEN (n - 1) - 1 + 1 ELSE 0
          /\ \A i \in 1..((n - 1) - 1 + 1) : SubSeq(history, 1, n - 1)[i] = history[1 + i - 1]
        BY <2>1, SubSeqProperties
    <2> HIDE DEF n
    <2>3. (n - 1) - 1 + 1 = n - 1 /\ \A i \in 1..(n - 1) : 1 + i - 1 = i
        BY <1>2
    <2>4. \A i \in 1..(n - 1) : SubSeq(history, 1, n - 1)[i] = history[i]
        BY <2>2, <2>3
    <2>5. (IF 1 <= n - 1 THEN (n - 1) - 1 + 1 ELSE 0) = n - 1
        BY <1>2
    <2> QED  BY <1>1, <2>2, <2>4, <2>5
<1>4. top \in Checkpoints /\ SoundCheckpoint(top)
    BY <1>2 DEF HistorySound
<1>5. /\ Decode(top.constraints) \in Paths \cup {None}
      /\ Decode(top.constraints) = None <=> Feasible(top.constraints) = {}
      /\ Decode(top.constraints) # None =>
             /\ Decode(top.constraints) \in Feasible(top.constraints)
             /\ MaximalIn(top.constraints, Decode(top.constraints))
    BY DecodeResult, FeasiblePaths DEF MaximalIn
<1> HIDE DEF top, n
<1>6. TypeOK'
    <2>1. trail_revision' \in 0..MaxRevision
        BY <1>1, MaxRevisionAssumption
    <2>2. current_path' \in Paths \cup {None} /\ last_valid_path' \in Paths
          /\ status' \in {"active", "exhausted"}
        BY <1>1, <1>5 DEF Adopt
    <2>3. constraints' \in Constraints /\ submission_selection' \in Selections \cup {None}
        BY <1>1, <1>4 DEF Checkpoints
    <2> QED  BY <1>1, <1>3, <2>1, <2>2, <2>3
<1>7. ActivePathFeasible' /\ ExhaustedIffInfeasible' /\ ActivePathIsBest'
    BY <1>1, <1>5, AdoptedPath
<1>8. AnchorsConsistent' /\ SelectionStaysAnchored'
    BY <1>1, <1>4 DEF SoundCheckpoint, AnchorsConsistent, SelectionStaysAnchored
<1>9. UndoReachesStart'
    <2>1. CASE n = 1
        <3>1. history' = <<>>
            BY <1>3, <2>1, EmptySeq
        <3>2. top = [constraints |-> NoConstraints, selection |-> None]
            BY <1>1, <2>1 DEF UndoReachesStart, top
        <3> QED  BY <1>1, <3>1, <3>2 DEF UndoReachesStart
    <2>2. CASE n > 1
        <3>1. history'[1] = history[1] /\ Len(history') # 0
            BY <1>2, <1>3, <2>2
        <3>2. history' # <<>>
            BY <3>1
        <3> QED  BY <1>1, <3>1, <3>2 DEF UndoReachesStart
    <2> QED  BY <1>2, <2>1, <2>2
<1>10. HistorySound'
    <2>1. \A i \in 1..(n - 1) : SoundCheckpoint(history[i])
        BY <1>2 DEF HistorySound, n
    <2>2. (\A i \in 1..Len(history) : SoundCheckpoint(history[i]))'
        BY <1>3, <2>1 DEF SoundCheckpoint
    <2>3. Len(history') <= trail_revision'
        BY <1>1, <1>2, <1>3 DEF HistorySound, n
    <2> QED  BY <2>2, <2>3 DEF HistorySound
<1> QED
    BY <1>6, <1>7, <1>8, <1>9, <1>10

\* A listed mode is a kept peak of the focused event: its frame is one of the
\* candidates, its path an admissible one through it.
LEMMA ListedModes ==
    ASSUME NEW c \in Constraints, NEW e \in Events, NEW list \in Alternatives(c, e)
    PROVE  \E peaks \in SUBSET Times : \E path \in [peaks -> Paths] :
               /\ \A t \in peaks : path[t][e] = t /\ InWindow(c.window, t)
               /\ list = ModesAt(c, peaks, path)
<1>1. PICK peaks \in SUBSET Times : \E path \in Previews(c, e, peaks) : list = ModesAt(c, peaks, path)
    <2> DEFINE choices == {PeaksOf(kept) :
                             kept \in {K \in SUBSET Heights(c, e) : IsSelection(Heights(c, e), K)}}
    <2>1. \A a \in Heights(c, e) : a.frame \in Times
        <3>1. \A p \in Feasible(c) : p[e] \in Times
            BY FeasiblePaths DEF Paths
        <3> QED  BY <3>1 DEF Heights
    <2>2. choices \subseteq SUBSET Times
        BY <2>1 DEF PeaksOf
    <2>3. list \in UNION {{ModesAt(c, peaks, path) : path \in Previews(c, e, peaks)} : peaks \in choices}
        BY DEF Alternatives
    <2> QED
        BY <2>2, <2>3
<1>2. PICK path \in Previews(c, e, peaks) : list = ModesAt(c, peaks, path)
    BY <1>1
<1>3. path \in [peaks -> Feasible(c)] /\ \A t \in peaks : path[t] \in Through(c, e, t)
    BY <1>2 DEF Previews, BestOf
<1>4. path \in [peaks -> Paths]
    BY <1>3, FeasiblePaths
<1>5. \A p \in Feasible(c) : InWindow(c.window, p[e])
    BY DEF Feasible, ChronologicalPaths, Allowed
<1>6. \A t \in peaks : path[t][e] = t /\ InWindow(c.window, t)
    BY <1>3, <1>5 DEF Through
<1> QED
    BY <1>2, <1>4, <1>6

\* Listed alternatives are modes.
LEMMA ListedModesTyped ==
    ASSUME NEW c \in Constraints, NEW e \in Events, NEW list \in Alternatives(c, e)
    PROVE  list \subseteq Modes
<1>0. PICK peaks \in SUBSET Times : \E path \in [peaks -> Paths] : list = ModesAt(c, peaks, path)
    BY ListedModes
<1>1. PICK path \in [peaks -> Paths] : list = ModesAt(c, peaks, path)
    BY <1>0
<1>2. \A t \in peaks : ModeFrames(peaks, c.window, t) \subseteq Times /\ path[t] \in Paths
    BY <1>1 DEF ModeFrames
<1> QED
    BY <1>1, <1>2 DEF ModesAt, Modes

\* Listing alternatives keeps the invariant.
LEMMA FocusPreservesInv ==
    ASSUME Inv, NEW e \in Events, FocusEvent(e)
    PROVE  Inv'
<1>1. UNCHANGED <<trail_revision, constraints, history, submission_selection, resultVars>>
    BY DEF FocusEvent
<1>2. alternatives' \subseteq Modes /\ focused_event_id' \in Events
    BY ListedModesTyped DEF FocusEvent, Inv, TypeOK
<1>3. TypeOK'
    BY <1>1, <1>2 DEF Inv, TypeOK, resultVars
<1>4. ActivePathFeasible' /\ ExhaustedIffInfeasible' /\ ActivePathIsBest' /\ AnchorsConsistent'
    BY <1>1 DEF Inv, ActivePathFeasible, ExhaustedIffInfeasible, ActivePathIsBest,
                AnchorsConsistent, resultVars
<1>5. SelectionStaysAnchored' /\ UndoReachesStart' /\ HistorySound'
    BY <1>1 DEF Inv, SelectionStaysAnchored, UndoReachesStart, HistorySound, SoundCheckpoint
<1> QED
    BY <1>3, <1>4, <1>5 DEF Inv

\* Nothing happening keeps the invariant.
LEMMA StutterPreservesInv ==
    ASSUME Inv, UNCHANGED vars
    PROVE  Inv'
BY DEF vars, resultVars, focusVars, Inv, TypeOK, ActivePathFeasible, ExhaustedIffInfeasible,
       ActivePathIsBest, AnchorsConsistent, SelectionStaysAnchored, UndoReachesStart, HistorySound,
       SoundCheckpoint, AnchorsOrdered, SelectionAnchored

\* Inv holds throughout every session.
THEOREM InvHolds == Spec => []Inv
<1>1. Init => Inv
    BY InitInv
<1>2. Inv /\ [Next]_vars => Inv'
    BY StepCases, CommitPreservesInv, UndoPreservesInv, FocusPreservesInv, StutterPreservesInv
<1> QED
    BY <1>1, <1>2, PTL DEF Spec

\* Types are kept by every handler.
THEOREM TypeCorrect == Spec => []TypeOK
<1>1. Inv => TypeOK
    BY DEF Inv
<1> QED
    BY <1>1, InvHolds, PTL

\* An active trail shows an admissible path, the one a failure falls back to.
THEOREM ActivePathIsFeasible == Spec => []ActivePathFeasible
<1>1. Inv => ActivePathFeasible
    BY DEF Inv
<1> QED
    BY <1>1, InvHolds, PTL

\* A trail is reported exhausted exactly when no path is admissible, whichever
\* handler reported it.
THEOREM ExhaustionIsExact == Spec => []ExhaustedIffInfeasible
<1>1. Inv => ExhaustedIffInfeasible
    BY DEF Inv
<1> QED
    BY <1>1, InvHolds, PTL

\* An active trail that was acted upon shows a best admissible path.
THEOREM ActivePathStaysBest == Spec => []ActivePathIsBest
<1>1. Inv => ActivePathIsBest
    BY DEF Inv
<1> QED
    BY <1>1, InvHolds, PTL

\* Anchors stay in order and inside the window.
THEOREM AnchorsStayConsistent == Spec => []AnchorsConsistent
<1>1. Inv => AnchorsConsistent
    BY DEF Inv
<1> QED
    BY <1>1, InvHolds, PTL

\* The frame held for submission belongs to an anchored event.
THEOREM SelectionIsAnchored == Spec => []SelectionStaysAnchored
<1>1. Inv => SelectionStaysAnchored
    BY DEF Inv
<1> QED
    BY <1>1, InvHolds, PTL

\* The history leads back to the unconstrained trail.
THEOREM HistoryReachesStart == Spec => []UndoReachesStart
<1>1. Inv => UndoReachesStart
    BY DEF Inv
<1> QED
    BY <1>1, InvHolds, PTL

-----------------------------------------------------------------------------

\* The rejection intervals of one list never overlap, fresh or stale.
LEMMA ListedModesDisjoint ==
    ASSUME NEW c \in Constraints, NEW e \in Events, NEW list \in Alternatives(c, e)
    PROVE  \A m \in list :
               /\ m.frame \in m.frames
               /\ \A n \in list : n # m => m.frames \cap n.frames = {}
<1>0. PICK peaks \in SUBSET Times : \E path \in [peaks -> Paths] :
          (\A t \in peaks : InWindow(c.window, t)) /\ list = ModesAt(c, peaks, path)
    BY ListedModes
<1>1. PICK path \in [peaks -> Paths] :
          (\A t \in peaks : InWindow(c.window, t)) /\ list = ModesAt(c, peaks, path)
    BY <1>0
<1> DEFINE mode(t) == [frame  |-> t,
                       frames |-> ModeFrames(peaks, c.window, t),
                       path   |-> path[t]]
<1>2. list = {mode(t) : t \in peaks}
    BY <1>1 DEF ModesAt
<1>3. ASSUME NEW t \in peaks
      PROVE  mode(t).frame \in mode(t).frames
    BY <1>1, ModeFramesDisjoint
<1>4. ASSUME NEW t \in peaks, NEW u \in peaks, mode(u) # mode(t)
      PROVE  mode(t).frames \cap mode(u).frames = {}
    <2>1. u \in peaks \ {t}
        BY <1>4
    <2> QED  BY <2>1, ModeFramesDisjoint
<1> HIDE DEF mode
<1> QED
    BY <1>2, <1>3, <1>4

PathsThroughFrames ==
    \A m \in alternatives :
        focused_event_id \in Events /\ m.path[focused_event_id] = m.frame

ListInv == ModesDisjoint /\ PathsThroughFrames

\* The invariant of the listed alternatives holds throughout.
LEMMA ListInvHolds == Spec => []ListInv
<1>1. Init => ListInv
    BY DEF Init, ListInv, ModesDisjoint, PathsThroughFrames
<1>2. ASSUME Inv, ListInv, [Next]_vars
      PROVE  ListInv'
    <2>1. ASSUME NEW e \in Events, FocusEvent(e)
          PROVE  ListInv'
        <3>1. constraints \in Constraints /\ alternatives' \in Alternatives(constraints, e)
            BY <1>2, <2>1 DEF FocusEvent, Inv, TypeOK
        <3>2. ModesDisjoint'
            BY <3>1, ListedModesDisjoint DEF ModesDisjoint
        <3>3. PICK peaks \in SUBSET Times : \E path \in [peaks -> Paths] :
                  /\ \A t \in peaks : path[t][e] = t
                  /\ alternatives' = ModesAt(constraints, peaks, path)
            BY <3>1, ListedModes
        <3>4. PICK path \in [peaks -> Paths] :
                  /\ \A t \in peaks : path[t][e] = t
                  /\ alternatives' = ModesAt(constraints, peaks, path)
            BY <3>3
        <3>5. \A m \in alternatives' : m.path[e] = m.frame
            BY <3>4 DEF ModesAt
        <3>6. focused_event_id' = e
            BY <2>1 DEF FocusEvent
        <3>7. PathsThroughFrames'
            BY <3>5, <3>6 DEF PathsThroughFrames
        <3> QED  BY <3>2, <3>7 DEF ListInv
    <2>2. CASE Undo \/ CommitStep \/ UNCHANGED vars
        <3>1. DropFocus \/ UNCHANGED focusVars
            BY <2>2 DEF Undo, CommitStep, Focus, vars
        <3> QED  BY <1>2, <3>1 DEF ListInv, ModesDisjoint, PathsThroughFrames, DropFocus, focusVars
    <2> QED  BY <1>2, <2>1, <2>2, StepCases
<1> QED
    BY <1>1, <1>2, InvHolds, PTL DEF Spec

\* The rejection intervals of the listed modes are disjoint.
THEOREM ModesStayDisjoint == Spec => []ModesDisjoint
<1>1. ListInv => ModesDisjoint
    BY DEF ListInv
<1> QED
    BY <1>1, ListInvHolds, PTL

\* A client that reads the same revision twice reads the same trail twice.
THEOREM RevisionTracksEveryChange == Spec => RevisionTracksChange
<1> DEFINE trail == <<constraints, submission_selection, resultVars>>
<1>1. ASSUME Inv, [Next]_vars
      PROVE  trail' # trail => trail_revision' = trail_revision + 1
    <2>1. CASE UNCHANGED vars \/ \E e \in Events : FocusEvent(e)
        BY <2>1 DEF vars, FocusEvent
    <2>2. CASE Undo
        BY <2>2 DEF Undo
    <2>3. CASE CommitStep
        BY <2>3 DEF CommitStep, SoundCommit, Commit
    <2> QED  BY <1>1, <2>1, <2>2, <2>3, StepCases
<1>2. [Next]_vars /\ Inv => [trail' # trail => trail_revision' = trail_revision + 1]_vars
    BY <1>1
<1> QED
    BY <1>2, InvHolds, PTL DEF Spec, RevisionTracksChange

\* Rejecting a mode leaves every path shown for another mode admissible.
THEOREM RejectionSparesOtherModes == Spec => RejectionSparesOthers
<1> DEFINE spares(e, m) ==
        RejectMode(e, m) =>
            \A n \in alternatives \ {m} :
                n.path \in Feasible(constraints) => n.path \in Feasible(constraints')
<1>1. ASSUME Inv, ListInv, NEW e \in Events, NEW m \in alternatives, RejectMode(e, m),
             NEW n \in alternatives \ {m}, n.path \in Feasible(constraints)
      PROVE  n.path \in Feasible(constraints')
    <2>1. n.path[e] = n.frame /\ n.frame \notin m.frames
        BY <1>1 DEF ListInv, PathsThroughFrames, ModesDisjoint, RejectMode
    <2>2. constraints \in Constraints
        BY <1>1 DEF Inv, TypeOK
    <2>3. constraints' = WithRejected(constraints, e, m.frames)
        BY <1>1 DEF RejectMode, Commit
    <2>4. /\ constraints'.window = constraints.window
          /\ constraints'.anchors = constraints.anchors
          /\ \A i \in Events : constraints'.rejected[i] =
                 IF i = e THEN constraints.rejected[e] \cup m.frames ELSE constraints.rejected[i]
        BY <2>2, <2>3 DEF WithRejected, Constraints
    <2>5. ASSUME NEW i \in Events
          PROVE  n.path[i] \in Allowed(constraints', i)
        <3>1. n.path[i] \in Allowed(constraints, i)
            BY <1>1 DEF Feasible, ChronologicalPaths
        <3> QED  BY <2>1, <2>4, <3>1 DEF Allowed
    <2> QED  BY <1>1, <2>5 DEF Feasible, ChronologicalPaths
<1>2. Inv /\ ListInv => \A e \in Events, m \in alternatives : spares(e, m)
    BY <1>1
<1>3. Inv /\ ListInv /\ [Next]_vars => [\A e \in Events, m \in alternatives : spares(e, m)]_vars
    BY <1>2
<1> QED
    BY <1>3, InvHolds, ListInvHolds, PTL DEF Spec, RejectionSparesOthers

\* A session is a revision log: every step commits a document, undoes one or
\* leaves revision, document and stack alone.
THEOREM SessionIsRevisionLog == Spec => LogSpec
<1> USE DEF Inv, TypeOK
<1>1. Init => Log!Init
    BY InitInv DEF Init, Log!Init, Checkpoint, Checkpoints
<1>2. ASSUME Inv, Inv', CommitStep
      PROVE  Log!Commit
    <2>1. PICK c \in Constraints, selection \in Selections \cup {None}, path \in Paths \cup {None} :
              SoundCommit(c, selection, path)
        BY <1>2 DEF CommitStep
    <2>2. /\ trail_revision < MaxRevision /\ trail_revision' = trail_revision + 1
          /\ history' = Append(history, Checkpoint)
        BY <2>1 DEF SoundCommit, Commit
    <2>3. Checkpoint \in Checkpoints /\ Checkpoint' \in Checkpoints
        BY <1>2 DEF Checkpoint, Checkpoints
    <2>4. Len(Append(history, Checkpoint)) = Len(history) + 1 /\ Len(history) \in Nat
        BY <1>2, <2>3, AppendProperties, LenProperties
    <2>5. ~(Len(Append(history, Checkpoint)) > MaxRevision + 1)
        BY <1>2, <2>2, <2>4, MaxRevisionAssumption DEF HistorySound
    <2> QED  BY <2>2, <2>3, <2>5 DEF Log!Commit, Log!Kept
<1>3. ASSUME Inv, Undo
      PROVE  Log!Undo
    <2>1. Len(history) \in 1..Len(history)
        BY <1>3, EmptySeq DEF Undo
    <2>2. history[Len(history)] \in Checkpoints
        BY <1>3, <2>1, ElementOfSeq
    <2>3. /\ constraints' = history[Len(history)].constraints
          /\ submission_selection' = history[Len(history)].selection
        BY <1>3 DEF Undo
    <2>4. Checkpoint' = history[Len(history)]
        BY <2>2, <2>3 DEF Checkpoint, Checkpoints
    <2> QED  BY <1>3, <2>4 DEF Undo, Log!Undo
<1>4. ASSUME UNCHANGED vars \/ \E e \in Events : FocusEvent(e)
      PROVE  UNCHANGED Log!logVars
    BY <1>4 DEF vars, FocusEvent, Log!logVars, Checkpoint
<1>5. Inv /\ Inv' /\ [Next]_vars => [Log!Next]_(Log!logVars)
    BY <1>2, <1>3, <1>4, StepCases DEF Log!Next
<1> QED
    BY <1>1, <1>5, InvHolds, PTL DEF Spec, LogSpec, Log!Spec

-----------------------------------------------------------------------------
(* What the decoders are given: a number for every event and frame.         *)

\* A fused score is a number.
LEMMA MixedIsNumber ==
    ASSUME NEW D \in SUBSET Int, IsFiniteSet(D), NEW f \in D,
           NEW B, NEW i, BundleOK(B, i, D), NEW c, Validated(c), Unit \in Nat \ {0}, NEW event
    PROVE  Mixed(B, event, i, c, f) \in Int
<1> DEFINE b == DOMAIN B
           w == WeightsOf(B, event, i, f, c)
           cal == CalOf(B, i, c)
           t == [name \in b |-> w[name] * cal[name].scores[f]]
           otherwise == Fallback(B, event, cal, f)
<1>1. b \in SUBSET Experts /\ IsFiniteSet(b)
    BY ExpertsFinite, FS_Subset DEF BundleOK
<1>2. \A name \in b : InNumbers(cal[name], D)
    BY CalOfIs
<1>3. w \in [b -> Int]
    <2>1. \A name \in b : WeightAt(name, B[name], event, cal[name].reliability, f, c) \in Int
        BY <1>1, <1>2, WeightIsNumber DEF InNumbers
    <2> QED
        BY <2>1 DEF WeightsOf
<1>4. \A name \in b : cal[name].scores[f] \in Int
    BY <1>2 DEF InNumbers, IsRow
<1>5. t \in [b -> Int]
    <2> HIDE DEF w, cal
    <2> QED  BY <1>3, <1>4
<1>6. otherwise \in Int
    <2> HIDE DEF cal
    <2> QED  BY <1>4 DEF Fallback
<1>7. Total(w) \in Int /\ Total(t) \in Int
    <2> HIDE DEF w, t, b
    <2> QED  BY <1>1, <1>3, <1>5, TotalTakesOne
<1>8. Blended(cal, w, f, otherwise) = IF Total(w) > 0 THEN Total(t) \div Total(w) ELSE otherwise
    <2>1. DOMAIN w = b
        BY DEF WeightsOf
    <2> HIDE DEF w, cal, otherwise
    <2> QED  BY <2>1 DEF Blended
<1> HIDE DEF w, t, cal, otherwise
<1>9. Blended(cal, w, f, otherwise) \in Int
    BY <1>6, <1>7, <1>8
<1> QED
    BY <1>9 DEF Mixed, w, cal, otherwise

\* n rows of numbers, one per event, over the frames D.
IsMatrix(matrix, n, D) ==
    /\ n \in Nat \ {0}
    /\ matrix = [e \in 1..n |-> matrix[e]]
    /\ \A e \in 1..n : IsRow(matrix[e], D)

\* The scores of a query, if it can be scored, are such a matrix.
LEMMA PlanMatrixIs ==
    ASSUME NEW b \in Builds, NEW q \in Kis,
           PlanMatrix(BuildOf[b], PlanOf(RequestOf[q]), RequestOf[q].flags) # Absent
    PROVE  IsMatrix(PlanMatrix(BuildOf[b], PlanOf(RequestOf[q]), RequestOf[q].flags),
                    Len(RequestOf[q].events), Frames(BuildOf[b].x))
<1> DEFINE build == BuildOf[b]
           D == Frames(build.x)
           flags == RequestOf[q].flags
           n == Len(RequestOf[q].events)
           plan == PlanOf(RequestOf[q])
           B == BundleOf(build, plan, flags)
           matrix == PlanMatrix(build, plan, flags)
<1>1. /\ n \in Nat \ {0} /\ DOMAIN plan = 1..n /\ Len(plan) = n
      /\ DOMAIN RequestOf[q].events = 1..n
    BY PlanIs, KisAssumption
<1>2. PartOfPlan(plan, q, n)
    BY <1>1 DEF PartOfPlan, EventsIn
<1>3. \A e \in 1..n : BundleOK(B, e, D)
    BY <1>1, <1>2, BundleIsOK
<1>4. /\ D \in SUBSET Int /\ IsFiniteSet(D)
      /\ Unit \in Nat \ {0} /\ Validated(build.c)
    BY LoadIs
<1>5. FusionOf(matrix, B, n, plan, build.c)
    BY <1>1, ScoredIs
<1> HIDE DEF B, D, plan, matrix, build
<1>6. ASSUME NEW e \in 1..n PROVE IsRow(matrix[e], D)
    <2>1. matrix[e] = FuseRow(B, plan[e], e, build.c) /\ DOMAIN B # {}
        BY <1>5 DEF FusionOf
    <2>2. FuseRow(B, plan[e], e, build.c) = [f \in D |-> Mixed(B, plan[e], e, build.c, f)]
        BY <1>3, <2>1, FusedRowIs
    <2>3. \A f \in D : Mixed(B, plan[e], e, build.c, f) \in Int
        BY <1>3, <1>4, MixedIsNumber
    <2> QED
        BY <2>1, <2>2, <2>3 DEF IsRow
<1>7. matrix = [e \in 1..n |-> matrix[e]]
    BY <1>5 DEF FusionOf
<1>8. IsMatrix(matrix, n, D)
    BY <1>1, <1>6, <1>7 DEF IsMatrix
<1> QED
    BY <1>8 DEF matrix, plan, build, D

\* Positions in the order of a key, and of equal keys the lower first.
ByKey(S, key) ==
    ByPlace(S, [a \in S |-> Cardinality({b \in S : key[b] < key[a] \/ (key[b] = key[a] /\ b < a)})])

Sooner(key, a, b) == key[a] < key[b] \/ (key[a] = key[b] /\ a < b)

ListsByKey(order, S, key) ==
    /\ Cardinality(S) \in Nat
    /\ order \in [1..Cardinality(S) -> S]
    /\ \A a \in S : \E n \in 1..Cardinality(S) : order[n] = a
    /\ \A m, n \in 1..Cardinality(S) : m < n <=> Sooner(key, order[m], order[n])

\* Sorting by a key lists a finite set once, smaller keys first.
LEMMA KeyOrder ==
    ASSUME NEW S \in SUBSET Int, IsFiniteSet(S), NEW key \in [S -> Int]
    PROVE  ListsByKey(ByKey(S, key), S, key)
<1> DEFINE R == {p \in S \X S : Sooner(key, p[1], p[2])}
           order == ByPlace(S, Places(S, R))
           c == Cardinality(S)
<1>1. \A a, b \in S : <<a, b>> \in R <=> Sooner(key, a, b)
    OBVIOUS
<1>2. Orders(S, R)
    <2>1. \A a, b, d \in S : Sooner(key, a, b) /\ Sooner(key, b, d) => Sooner(key, a, d)
        BY DEF Sooner
    <2>2. \A a, b \in S : ~Sooner(key, a, a) /\ (a # b => Sooner(key, a, b) \/ Sooner(key, b, a))
        BY DEF Sooner
    <2> HIDE DEF R
    <2> QED  BY <1>1, <2>1, <2>2 DEF Orders
<1>3. /\ c \in Nat
      /\ order \in [1..c -> S]
      /\ \A a \in S : \E n \in 1..c : order[n] = a
      /\ \A m, n \in 1..c : m < n <=> <<order[m], order[n]>> \in R
    <2> HIDE DEF R
    <2> QED  BY <1>2, ListedByOrder
<1>4. ByKey(S, key) = order
    <2>1. ASSUME NEW a \in S
          PROVE  Before(S, R, a) = {b \in S : key[b] < key[a] \/ (key[b] = key[a] /\ b < a)}
        <3>1. \A b \in S : <<b, a>> \in R <=> key[b] < key[a] \/ (key[b] = key[a] /\ b < a)
            BY <1>1 DEF Sooner
        <3> HIDE DEF R
        <3> QED  BY <3>1 DEF Before
    <2> HIDE DEF R
    <2> QED  BY <2>1 DEF Places, ByKey
<1> HIDE DEF order, c
<1>5. \A m, n \in 1..c : m < n <=> Sooner(key, order[m], order[n])
    <2>1. \A m \in 1..c : order[m] \in S
        BY <1>3
    <2> HIDE DEF R
    <2> QED  BY <1>1, <1>3, <2>1
<1> QED
    BY <1>3, <1>4, <1>5 DEF ListsByKey, c

\* Ends of paths in the order of their scores, the best first.
Losses(last) == [p \in DOMAIN last |-> -last[p].score]

\* The endpoints of a last layer are its positions, sorted by the score they lack.
LEMMA EndpointsByKey ==
    ASSUME NEW last, \A p \in DOMAIN last : last[p].score \in Int
    PROVE  Endpoints(last) = ByKey(DOMAIN last, Losses(last))
<1> DEFINE S == DOMAIN last
           key == Losses(last)
           A(a) == {b \in S : \/ last[b].score > last[a].score
                              \/ last[b].score = last[a].score /\ b < a}
           B(a) == {b \in S : key[b] < key[a] \/ (key[b] = key[a] /\ b < a)}
<1>1. Endpoints(last) = ByPlace(S, [a \in S |-> Cardinality(A(a))])
    BY TableIsItself DEF Endpoints, Arranged
<1>2. ASSUME NEW a \in S PROVE A(a) = B(a)
    <2>1. \A b \in S : key[b] = -last[b].score
        BY DEF Losses
    <2> HIDE DEF key
    <2>2. \A b \in S : /\ last[b].score > last[a].score <=> key[b] < key[a]
                       /\ last[b].score = last[a].score <=> key[b] = key[a]
        BY <2>1
    <2> QED
        BY <2>2
<1>3. ByKey(S, key) = ByPlace(S, [a \in S |-> Cardinality(B(a))])
    BY DEF ByKey
<1> HIDE DEF A, B
<1> QED
    BY <1>1, <1>2, <1>3

\* The frames of a video in canonical order.
FramesListed(frames, S, x) ==
    /\ Cardinality(S) \in Nat /\ Cardinality(S) <= Cardinality(Frames(x))
    /\ frames \in [1..Cardinality(S) -> S]

\* The frames of a video are listed once, in the order of their indices.
LEMMA VideoFramesAre ==
    ASSUME NEW x, IsFiniteSet(Frames(x)), Frames(x) \in SUBSET Int, NEW v,
           x.idx \in [Frames(x) -> Int]
    PROVE  FramesListed(VideoFrames(x, v), {f \in Frames(x) : x.video[f] = v}, x)
<1> DEFINE S == {f \in Frames(x) : x.video[f] = v}
           key == [f \in S |-> x.idx[f]]
           A(a) == {b \in S : x.idx[b] < x.idx[a] \/ (x.idx[b] = x.idx[a] /\ b < a)}
           B(a) == {b \in S : key[b] < key[a] \/ (key[b] = key[a] /\ b < a)}
<1>1. VideoFrames(x, v) = ByPlace(S, [a \in S |-> Cardinality(A(a))])
    BY TableIsItself DEF VideoFrames, Arranged
<1>2. \A a \in S : A(a) = B(a)
    OBVIOUS
<1>3. ByKey(S, key) = ByPlace(S, [a \in S |-> Cardinality(B(a))])
    BY DEF ByKey
<1>4. VideoFrames(x, v) = ByKey(S, key)
    <2> HIDE DEF A, B, S, key
    <2> QED  BY <1>1, <1>2, <1>3
<1>5. S \in SUBSET Int /\ IsFiniteSet(S) /\ Cardinality(S) <= Cardinality(Frames(x))
    BY FS_Subset
<1>6. key \in [S -> Int]
    OBVIOUS
<1> HIDE DEF S, key
<1>7. ListsByKey(ByKey(S, key), S, key)
    BY <1>5, <1>6, KeyOrder
<1> QED
    BY <1>4, <1>5, <1>7 DEF ListsByKey, FramesListed, S

\* A function on 1..c is a list of c elements.
LEMMA ListOf ==
    ASSUME NEW c \in Nat, NEW f, f = [i \in 1..c |-> f[i]], NEW V, \A i \in 1..c : f[i] \in V
    PROVE  f \in Seq(V) /\ Len(f) = c /\ DOMAIN f = 1..c
<1>1. f \in [1..c -> V]
    OBVIOUS
<1>2. f \in Seq(V)
    BY <1>1, SeqDef
<1>3. DOMAIN f = 1..Len(f) /\ Len(f) \in Nat /\ DOMAIN f = 1..c
    BY <1>1, <1>2, LenProperties
<1> QED
    BY <1>2, <1>3

\* A video scored for n events, with at most k frames.
IsVideo(video, n, k) ==
    LET m == Len(video.frames)
    IN  /\ n \in Nat \ {0}
        /\ m \in Nat /\ m <= k
        /\ Positions(video) = 1..m
        /\ video.time \in [1..m -> Int]
        /\ DOMAIN video.rows = 1..n /\ Len(video.rows) = n
        /\ \A e \in 1..n : video.rows[e] \in [1..m -> Int]

\* A video with its part of the matrix: a score of every event for each frame.
LEMMA ScoredIsVideo ==
    ASSUME NEW x, IsFiniteSet(Frames(x)), Frames(x) \in SUBSET Int, NEW v,
           x.idx \in [Frames(x) -> Int], x.time \in [Frames(x) -> Int],
           NEW n, NEW matrix, IsMatrix(matrix, n, Frames(x))
    PROVE  IsVideo(Scored(x, matrix, v), n, Cardinality(Frames(x))) /\ Scored(x, matrix, v).video = v
<1> DEFINE S == {f \in Frames(x) : x.video[f] = v}
           m == Cardinality(S)
           frames == VideoFrames(x, v)
           over(f) == [p \in DOMAIN frames |-> f[frames[p]]]
           video == Scored(x, matrix, v)
<1>1. /\ m \in Nat /\ m <= Cardinality(Frames(x))
      /\ frames \in [1..m -> S]
    <2>1. FramesListed(frames, S, x)
        BY VideoFramesAre
    <2> HIDE DEF frames, S
    <2> QED
        BY <2>1 DEF FramesListed
<1>2. \A p \in 1..m : frames[p] \in Frames(x)
    <2>1. \A f \in S : f \in Frames(x)
        OBVIOUS
    <2> HIDE DEF S, m
    <2> QED  BY <1>1, <2>1
<1> HIDE DEF frames, m
<1>3. Len(frames) = m /\ DOMAIN frames = 1..m
    BY <1>1, ListOf
<1>4. video = [video |-> v, frames |-> frames, idx |-> over(x.idx), time |-> over(x.time),
               rows |-> [e \in DOMAIN matrix |-> over(matrix[e])]]
    BY TableIsItself DEF Scored, frames
<1>5. over(x.time) \in [1..m -> Int]
    BY <1>2, <1>3
<1>6. n \in Nat \ {0} /\ DOMAIN matrix = 1..n
    BY DEF IsMatrix
<1>7. ASSUME NEW e \in 1..n PROVE over(matrix[e]) \in [1..m -> Int]
    <2>1. matrix[e] \in [Frames(x) -> Int]
        BY DEF IsMatrix, IsRow
    <2> QED
        BY <1>2, <1>3, <2>1
<1> HIDE DEF over
<1>8. /\ video.frames = frames /\ video.time = over(x.time) /\ video.video = v
      /\ video.rows = [e \in 1..n |-> over(matrix[e])]
    BY <1>4, <1>6
<1> HIDE DEF video
<1>9. Len(video.rows) = n
    <2>1. /\ video.rows = [e \in 1..n |-> video.rows[e]]
          /\ \A e \in 1..n : video.rows[e] \in [1..m -> Int]
        BY <1>7, <1>8
    <2> QED  BY <1>6, <2>1, ListOf
<1> QED
    BY <1>1, <1>3, <1>5, <1>6, <1>7, <1>8, <1>9 DEF IsVideo, Positions, video

\* Distinct scored videos, in a list.
AreVideos(videos, n, k) ==
    /\ Len(videos) \in Nat /\ DOMAIN videos = 1..Len(videos)
    /\ videos = [i \in 1..Len(videos) |-> videos[i]]
    /\ \A i \in 1..Len(videos) : IsVideo(videos[i], n, k)
    /\ \A i, j \in 1..Len(videos) : videos[i].video = videos[j].video => i = j

\* Splitting a matrix by videos loses none, and lists each once.
LEMMA SplitIs ==
    ASSUME NEW x, IsFiniteSet(Frames(x)), Frames(x) \in SUBSET Int,
           x.video \in [Frames(x) -> Int],
           x.idx \in [Frames(x) -> Int], x.time \in [Frames(x) -> Int],
           NEW n, NEW matrix, IsMatrix(matrix, n, Frames(x))
    PROVE  AreVideos(SplitVideos(x, matrix), n, Cardinality(Frames(x)))
<1> DEFINE S == Videos(x)
           c == Cardinality(S)
           order == InOrder(S)
           videos == SplitVideos(x, matrix)
<1>1. S \in SUBSET Int /\ IsFiniteSet(S)
    <2>1. x.video = [f \in Frames(x) |-> x.video[f]]
        BY DEF Frames
    <2>2. \A f \in Frames(x) : x.video[f] \in Int
        OBVIOUS
    <2> QED
        BY <2>1, <2>2, FiniteValues DEF Videos
<1>2. /\ c \in Nat /\ order \in [1..c -> S]
      /\ \A i, j \in 1..c : i < j <=> order[i] < order[j]
    <2> HIDE DEF S
    <2> QED  BY <1>1, NumbersInOrder
<1>3. \A i, j \in 1..c : order[i] = order[j] => i = j
    <2> HIDE DEF order, c, S
    <2>1. \A i \in 1..c : order[i] \in Int
        BY <1>1, <1>2
    <2> QED  BY <1>2, <2>1
<1>4. videos = [k \in 1..c |-> Scored(x, matrix, order[k])]
    <2>1. DOMAIN order = 1..c
        BY <1>2
    <2>2. videos = [k \in DOMAIN order |-> Scored(x, matrix, order[k])]
        BY TableIsItself DEF SplitVideos
    <2> QED
        BY <2>1, <2>2
<1> HIDE DEF order, c, videos
<1>5. Len(videos) = c /\ DOMAIN videos = 1..c
    <2> DEFINE V == {videos[i] : i \in 1..c}
    <2>1. videos = [i \in 1..c |-> videos[i]] /\ \A i \in 1..c : videos[i] \in V
        BY <1>4
    <2> HIDE DEF V
    <2> QED  BY <1>2, <2>1, ListOf
<1>6. ASSUME NEW i \in 1..c
      PROVE  IsVideo(videos[i], n, Cardinality(Frames(x))) /\ videos[i].video = order[i]
    <2>1. videos[i] = Scored(x, matrix, order[i])
        BY <1>4
    <2> QED
        BY <2>1, ScoredIsVideo
<1>7. videos = [i \in 1..c |-> videos[i]]
    BY <1>4
<1>8. AreVideos(videos, n, Cardinality(Frames(x)))
    BY <1>2, <1>3, <1>5, <1>6, <1>7 DEF AreVideos
<1> QED
    BY <1>8 DEF videos

-----------------------------------------------------------------------------
(* Path tables and rows.                                                    *)

\* g is what m steps make of first.
Iterates(g, S, m, first, step) ==
    /\ g \in [0..m -> S]
    /\ g[0] = first
    /\ \A n \in 1..m : g[n] = step[<<n, g[n - 1]>>]

\* Any number of steps can be taken.
LEMMA IterationExists ==
    ASSUME NEW S, NEW m \in Nat, NEW first \in S, NEW step \in [(1..m) \X S -> S]
    PROVE  \E g : Iterates(g, S, m, first, step)
<1> DEFINE Bad == {k \in 0..m : ~ \E g : Iterates(g, S, k, first, step)}
<1>1. SUFFICES ASSUME Bad # {}
               PROVE  FALSE
    <2>1. m \in 0..m
        OBVIOUS
    <2> QED
        BY <2>1
<1>2. PICK k \in Bad : \A b \in Bad : k <= b
    <2>1. Bad \in SUBSET Nat
        OBVIOUS
    <2> HIDE DEF Bad
    <2> QED  BY <1>1, <2>1, LeastNumber
<1>3. CASE k = 0
    <2> DEFINE g == [n \in 0..0 |-> first]
    <2>1. g \in [0..0 -> S] /\ g[0] = first
        OBVIOUS
    <2>2. Iterates(g, S, 0, first, step)
        BY <2>1 DEF Iterates
    <2> QED
        BY <1>3, <2>2
<1>4. CASE k > 0
    <2>1. k \in 1..m /\ k - 1 \in 0..m /\ k - 1 \notin Bad
        BY <1>2, <1>4
    <2>2. PICK g : Iterates(g, S, k - 1, first, step)
        BY <2>1
    <2>3. g \in [0..(k - 1) -> S] /\ g[0] = first /\ g[k - 1] \in S
        BY <2>1, <2>2 DEF Iterates
    <2> DEFINE last == step[<<k, g[k - 1]>>]
               h == [n \in 0..k |-> IF n = k THEN last ELSE g[n]]
    <2>4. last \in S
        BY <2>1, <2>3
    <2> HIDE DEF last
    <2>5. h \in [0..k -> S] /\ h[0] = first
        BY <2>1, <2>3, <2>4
    <2>6. ASSUME NEW n \in 1..k PROVE h[n] = step[<<n, h[n - 1]>>]
        <3>1. CASE n = k
            <4>1. h[n] = last /\ h[n - 1] = g[k - 1]
                BY <2>1, <3>1
            <4> HIDE DEF h
            <4> QED  BY <3>1, <4>1 DEF last
        <3>2. CASE n # k
            <4>1. n \in 1..(k - 1)
                BY <2>1, <3>2
            <4>2. g[n] = step[<<n, g[n - 1]>>]
                BY <2>2, <4>1 DEF Iterates
            <4>3. h[n] = g[n] /\ h[n - 1] = g[n - 1]
                BY <2>1, <4>1
            <4> QED
                BY <4>2, <4>3
        <3> QED
            BY <3>1, <3>2
    <2>7. Iterates(h, S, k, first, step)
        <3> HIDE DEF h
        <3> QED  BY <2>5, <2>6 DEF Iterates
    <2> QED
        BY <1>2, <2>7
<1> QED
    BY <1>2, <1>3, <1>4

-----------------------------------------------------------------------------
(* Endpoints kept apart.                                                    *)

KeptIf(video, order, separation, limit, n, taken) ==
    IF Len(taken) < limit /\ Apart(video, order[n], taken, separation)
    THEN Append(taken, order[n]) ELSE taken

\* The kept ends are some of those listed; the first listed is kept first.
KeptWell(kept, order, P) ==
    /\ kept \in Seq(P)
    /\ order = <<>> => kept = <<>>
    /\ order # <<>> => Len(kept) >= 1 /\ kept[1] = order[1]

\* What a greedy choice keeps is taken from the order, and starts where it starts.
LEMMA KeptFromIs ==
    ASSUME NEW video, NEW P, NEW order \in Seq(P), NEW separation, NEW limit \in Nat \ {0}
    PROVE  KeptWell(KeptFrom(video, order, separation, limit), order, P)
<1> DEFINE m == Len(order)
           S == Seq(P)
           step == [a \in (1..m) \X S |-> KeptIf(video, order, separation, limit, a[1], a[2])]
           Body(g) == [n \in 0..m |-> IF n = 0 THEN <<>>
                                      ELSE KeptIf(video, order, separation, limit, n, g[n - 1])]
           h == CHOOSE g : g = Body(g)
<1>1. m \in Nat /\ DOMAIN order = 1..m /\ \A n \in 1..m : order[n] \in P
    BY LenProperties, ElementOfSeq
<1>2. step \in [(1..m) \X S -> S]
    <2>1. ASSUME NEW n \in 1..m, NEW taken \in S
          PROVE  KeptIf(video, order, separation, limit, n, taken) \in S
        BY <1>1, AppendProperties DEF KeptIf
    <2> QED
        BY <2>1
<1>3. <<>> \in S
    OBVIOUS
<1>4. PICK g : Iterates(g, S, m, <<>>, step)
    <2> HIDE DEF step, S, m
    <2> QED  BY <1>1, <1>2, <1>3, IterationExists
<1>5. \A n \in 1..m : g[n] = KeptIf(video, order, separation, limit, n, g[n - 1])
    <2> SUFFICES ASSUME NEW n \in 1..m
                 PROVE  g[n] = KeptIf(video, order, separation, limit, n, g[n - 1])
        OBVIOUS
    <2>1. g[n - 1] \in S /\ g[n] = step[<<n, g[n - 1]>>]
        <3>1. n - 1 \in 0..m
            BY <1>1
        <3> HIDE DEF step, S
        <3> QED  BY <1>4, <3>1 DEF Iterates
    <2> QED
        BY <2>1
<1>6. g = Body(g)
    <2>1. g = [n \in 0..m |-> g[n]] /\ g[0] = <<>>
        BY <1>4 DEF Iterates
    <2>2. \A n \in 0..m : g[n] = IF n = 0 THEN <<>>
                                 ELSE KeptIf(video, order, separation, limit, n, g[n - 1])
        BY <1>1, <1>5, <2>1
    <2> HIDE DEF m
    <2> QED  BY <2>1, <2>2
<1>7. h = Body(h)
    <2> HIDE DEF Body
    <2> QED  BY <1>6
<1>8. KeptFrom(video, order, separation, limit) = h[m]
    BY DEF KeptFrom, KeptIf
<1> DEFINE Good(n) == /\ h[n] \in S
                      /\ n = 0 => h[n] = <<>>
                      /\ n > 0 => Len(h[n]) >= 1 /\ h[n][1] = order[1]
           Bad == {n \in 0..m : ~Good(n)}
<1>9. /\ h[0] = <<>>
      /\ \A n \in 1..m : h[n] = KeptIf(video, order, separation, limit, n, h[n - 1])
    <2>1. \A n \in 0..m : h[n] = IF n = 0 THEN <<>>
                                 ELSE KeptIf(video, order, separation, limit, n, h[n - 1])
        <3> HIDE DEF h, m
        <3> QED  BY <1>7
    <2> HIDE DEF h
    <2> QED  BY <1>1, <2>1
<1> HIDE DEF h, Body, step, m
<1>10. Bad = {}
    <2>1. SUFFICES ASSUME Bad # {} PROVE FALSE
        OBVIOUS
    <2>2. PICK n \in Bad : \A b \in Bad : n <= b
        <3>1. Bad \in SUBSET Nat
            OBVIOUS
        <3> HIDE DEF Bad
        <3> QED  BY <2>1, <3>1, LeastNumber
    <2>3. n # 0
        <3>1. Good(0)
            <4> HIDE DEF S
            <4> QED  BY <1>3, <1>9
        <3> HIDE DEF Good
        <3> QED  BY <2>2, <3>1
    <2>4. n \in 1..m /\ n - 1 \in 0..m /\ n - 1 \notin Bad
        BY <1>1, <2>2, <2>3
    <2>5. Good(n - 1)
        BY <2>4
    <2>6. h[n] = KeptIf(video, order, separation, limit, n, h[n - 1])
        BY <1>9, <2>4
    <2>7. CASE n = 1
        <3>1. h[0] = <<>> /\ Len(<<>>) < limit
            BY <1>9
        <3>2. Apart(video, order[1], <<>>, separation)
            BY DEF Apart
        <3>3. h[1] = Append(<<>>, order[1])
            <4>1. h[1] = KeptIf(video, order, separation, limit, 1, h[0])
                BY <2>6, <2>7
            <4> QED  BY <3>1, <3>2, <4>1 DEF KeptIf
        <3>4. order[1] \in P
            BY <1>1, <2>4, <2>7
        <3>5. Append(<<>>, order[1]) \in S /\ Len(Append(<<>>, order[1])) = 1
              /\ Append(<<>>, order[1])[1] = order[1]
            BY <3>4
        <3>6. Good(1)
            BY <3>3, <3>5
        <3> QED
            BY <2>2, <2>7, <3>6
    <2>8. CASE n > 1
        <3>1. h[n - 1] \in S /\ Len(h[n - 1]) >= 1 /\ h[n - 1][1] = order[1]
            BY <2>4, <2>5, <2>8
        <3>2. order[n] \in P
            BY <1>1, <2>4
        <3> DEFINE taken == h[n - 1]
        <3>3. /\ Append(taken, order[n]) \in S
              /\ Len(Append(taken, order[n])) = Len(taken) + 1
              /\ Append(taken, order[n])[1] = taken[1]
            <4> HIDE DEF taken
            <4>1. taken \in Seq(P) /\ Len(taken) >= 1 /\ Len(taken) \in Nat
                BY <3>1, LenProperties DEF taken
            <4>2. 1 \in 1..Len(taken)
                BY <4>1
            <4> QED  BY <3>2, <4>1, <4>2, AppendProperties
        <3>4. Len(taken) \in Nat
            BY <3>1, LenProperties
        <3>5. h[n] = Append(taken, order[n]) \/ h[n] = taken
            BY <2>6 DEF KeptIf
        <3> HIDE DEF taken
        <3>6. h[n] \in S /\ Len(h[n]) >= 1 /\ h[n][1] = order[1]
            <4> HIDE DEF S
            <4>1. CASE h[n] = taken
                BY <3>1, <4>1 DEF taken
            <4>2. CASE h[n] = Append(taken, order[n])
                <5>1. taken[1] = order[1] /\ Len(taken) >= 1
                    BY <3>1 DEF taken
                <5> QED  BY <3>3, <3>4, <4>2, <5>1
            <4> QED  BY <3>5, <4>1, <4>2
        <3>7. Good(n)
            <4> HIDE DEF S
            <4> QED  BY <2>8, <3>6
        <3> QED
            BY <2>2, <3>7
    <2> QED
        BY <2>4, <2>7, <2>8
<1>11. Good(m)
    <2>1. m \in 0..m
        BY <1>1
    <2> QED  BY <1>10, <2>1
<1>12. m = 0 <=> order = <<>>
    BY EmptySeq, LenProperties DEF m
<1>13. KeptWell(h[m], order, P)
    BY <1>1, <1>11, <1>12 DEF KeptWell
<1> QED
    BY <1>8, <1>13

-----------------------------------------------------------------------------
(* The layers of a path table.                                              *)

\* A graph of n layers over the positions 1..m.
GraphOK(g, n, m) ==
    /\ n \in Nat \ {0} /\ m \in Nat
    /\ DOMAIN g.rows = 1..n
    /\ \A e \in 1..n : g.rows[e] \in [1..m -> Int] /\ g.layers[e] \in SUBSET (1..m)
    /\ g.time \in [1..m -> Int]
    /\ g.gap \in Int
    /\ \A e \in 1..n : \A q, p \in 1..m : g.pull[<<e, q, p>>] \in Int

Cells == [score : Int, from : Int]
LayersOver(m) == UNION {[D -> Cells] : D \in SUBSET (1..m)}

\* A layer has a number and an origin at each position it reached.
LEMMA LayerIs ==
    ASSUME NEW m, NEW layer \in LayersOver(m)
    PROVE  /\ DOMAIN layer \in SUBSET (1..m)
           /\ layer = [p \in DOMAIN layer |-> layer[p]]
           /\ \A p \in DOMAIN layer : layer[p].score \in Int /\ layer[p].from \in Int
<1>1. PICK D \in SUBSET (1..m) : layer \in [D -> Cells]
    BY DEF LayersOver
<1>2. \A p \in D : layer[p] \in Cells
    BY <1>1
<1> QED
    BY <1>1, <1>2 DEF Cells

\* Where a predecessor is open, one is best, and picked.
PicksBest(g, before, e, p, pick) ==
    /\ pick \in Open(g, before, p)
    /\ Coming(g, before, e, p, pick) \in Int
    /\ \A r \in Open(g, before, p) :
          /\ Coming(g, before, e, p, r) \in Int
          /\ Coming(g, before, e, p, r) <= Coming(g, before, e, p, pick)
    /\ Step(g, before, e, p) = [score |-> g.rows[e][p] + Coming(g, before, e, p, pick),
                                from  |-> pick]

\* A position that some earlier one reaches has a best one among those.
LEMMA StepPicks ==
    ASSUME NEW n, NEW m, NEW g, GraphOK(g, n, m), NEW before \in LayersOver(m),
           NEW e \in 1..n, NEW p \in 1..m, Open(g, before, p) # {}
    PROVE  \E pick \in 1..m : PicksBest(g, before, e, p, pick)
<1> DEFINE O == Open(g, before, p)
           value == [q \in O |-> Coming(g, before, e, p, q)]
           V == {value[q] : q \in O}
           A == Argument(g, before, e, p)
           pick == IF g.latest THEN Max(A) ELSE Min(A)
<1>1. /\ DOMAIN before \in SUBSET (1..m)
      /\ \A q \in DOMAIN before : before[q].score \in Int
    BY LayerIs
<1>2. O \in SUBSET (1..m) /\ O \in SUBSET DOMAIN before
    BY <1>1 DEF Open
<1>3. \A q \in O : Coming(g, before, e, p, q) \in Int
    <2> SUFFICES ASSUME NEW q \in O PROVE Coming(g, before, e, p, q) \in Int
        OBVIOUS
    <2>1. /\ before[q].score \in Int /\ g.pull[<<e, q, p>>] \in Int /\ g.gap \in Int
          /\ g.time[p] \in Int /\ g.time[q] \in Int
        BY <1>1, <1>2 DEF GraphOK
    <2>2. Coming(g, before, e, p, q)
              = before[q].score + g.pull[<<e, q, p>>] - g.gap * (g.time[p] - g.time[q])
        BY DEF Coming
    <2>3. g.gap * (g.time[p] - g.time[q]) \in Int
        BY <2>1
    <2> QED
        BY <2>1, <2>2, <2>3
<1>4. IsFiniteSet(1..m) /\ m \in Nat
    BY FS_Interval DEF GraphOK
<1>5. IsFiniteSet(O)
    BY <1>2, <1>4, FS_Subset
<1>6. IsFiniteSet(V) /\ V \in SUBSET Int /\ V # {}
    <2>1. IsFiniteSet(V)
        <3> HIDE DEF O
        <3> QED  BY <1>5, FiniteValues
    <2>2. O # {}
        OBVIOUS
    <2> HIDE DEF O
    <2> QED  BY <1>3, <2>1, <2>2
<1>7. A # {} /\ A \in SUBSET O
    <2>1. Max(V) \in V /\ \A y \in V : y <= Max(V)
        <3> HIDE DEF V
        <3> QED  BY <1>6, FiniteExtremes
    <2>2. PICK q \in O : Max(V) = Coming(g, before, e, p, q)
        BY <2>1
    <2>3. \A r \in O : Coming(g, before, e, p, r) \in V
        OBVIOUS
    <2> HIDE DEF V, O
    <2>4. \A r \in O : Coming(g, before, e, p, r) <= Coming(g, before, e, p, q)
        BY <2>1, <2>2, <2>3
    <2> QED
        BY <2>2, <2>4 DEF Argument, O
<1>8. pick \in A
    <2>1. A \in SUBSET Int /\ IsFiniteSet(A)
        BY <1>2, <1>5, <1>7, FS_Subset
    <2> HIDE DEF A
    <2> QED  BY <1>7, <2>1, FiniteExtremes
<1>9. pick \in O /\ \A r \in O : Coming(g, before, e, p, r) <= Coming(g, before, e, p, pick)
    <2> HIDE DEF pick
    <2> QED  BY <1>8 DEF Argument
<1>10. Step(g, before, e, p) = [score |-> g.rows[e][p] + Coming(g, before, e, p, pick),
                                from  |-> pick]
    BY DEF Step
<1> HIDE DEF pick, A
<1>11. PicksBest(g, before, e, p, pick)
    BY <1>3, <1>9, <1>10 DEF PicksBest
<1> QED
    BY <1>2, <1>9, <1>11

\* The next layer reaches the positions that some earlier one reaches.
LEMMA NextLayerIs ==
    ASSUME NEW n, NEW m, NEW g, GraphOK(g, n, m), NEW before \in LayersOver(m), NEW e \in 1..n
    PROVE  /\ NextLayer(g, before, e) \in LayersOver(m)
           /\ NextLayer(g, before, e) =
                  [p \in {r \in g.layers[e] : Open(g, before, r) # {}} |-> Step(g, before, e, p)]
<1> DEFINE D == {r \in g.layers[e] : Open(g, before, r) # {}}
           next == [p \in D |-> Step(g, before, e, p)]
<1>1. NextLayer(g, before, e) = next
    BY TableIsItself DEF NextLayer
<1>2. D \in SUBSET (1..m)
    BY DEF GraphOK
<1>3. ASSUME NEW p \in D PROVE Step(g, before, e, p) \in Cells
    <2>1. p \in 1..m /\ Open(g, before, p) # {}
        BY <1>2
    <2>2. PICK pick \in 1..m : PicksBest(g, before, e, p, pick)
        BY <2>1, StepPicks
    <2>3. g.rows[e][p] \in Int
        BY <2>1 DEF GraphOK
    <2>4. Coming(g, before, e, p, pick) \in Int
        BY <2>2 DEF PicksBest
    <2>5. g.rows[e][p] + Coming(g, before, e, p, pick) \in Int /\ pick \in Int
        BY <2>3, <2>4
    <2> QED
        BY <2>2, <2>5 DEF PicksBest, Cells
<1>4. next \in [D -> Cells]
    <2> HIDE DEF D
    <2> QED  BY <1>3
<1>5. next \in LayersOver(m)
    <2> HIDE DEF next, D
    <2> QED  BY <1>2, <1>4 DEF LayersOver
<1> QED
    BY <1>1, <1>5

\* A table is its first layer and, after that, each the next of the one before.
IsTable(table, g, n, m) ==
    /\ table \in [1..n -> LayersOver(m)]
    /\ table[1] = FirstLayer(g)
    /\ \A e \in 2..n : table[e] = NextLayer(g, table[e - 1], e)

\* A table of paths has one layer per event, each made from the one before.
LEMMA PathTableIs ==
    ASSUME NEW n, NEW m, NEW g, GraphOK(g, n, m)
    PROVE  IsTable(PathTable(g), g, n, m)
<1> DEFINE S == LayersOver(m)
           first == FirstLayer(g)
           Made(e, before) == IF e = 1 THEN first ELSE NextLayer(g, before, e)
           step == [a \in (1..n) \X S |-> Made(a[1], a[2])]
           Body(f) == [e \in 1..n |-> Made(e, f[e - 1])]
           t == CHOOSE f : f = Body(f)
<1>1. n \in Nat \ {0} /\ DOMAIN g.rows = 1..n
    BY DEF GraphOK
<1>2. first \in S
    <2> DEFINE D == g.layers[1]
               row == g.rows[1]
    <2>1. D \in SUBSET (1..m) /\ row \in [1..m -> Int]
        <3>1. 1 \in 1..n
            BY <1>1
        <3> QED  BY <3>1 DEF GraphOK
    <2>2. first = [p \in D |-> [score |-> row[p], from |-> 0]]
        BY DEF FirstLayer
    <2> HIDE DEF D, first, row
    <2>3. \A p \in D : [score |-> row[p], from |-> 0] \in Cells
        BY <2>1 DEF Cells
    <2>4. first \in [D -> Cells]
        BY <2>2, <2>3
    <2> QED
        BY <2>1, <2>4 DEF LayersOver
<1>3. \A e \in 1..n, before \in S : Made(e, before) \in S
    <2> SUFFICES ASSUME NEW e \in 1..n, NEW before \in S PROVE Made(e, before) \in S
        OBVIOUS
    <2>1. NextLayer(g, before, e) \in S
        BY NextLayerIs
    <2> HIDE DEF first, S
    <2> QED  BY <1>2, <2>1
<1>4. step \in [(1..n) \X S -> S]
    <2> HIDE DEF Made, S
    <2> QED  BY <1>3
<1>5. PICK f : Iterates(f, S, n, first, step)
    <2> HIDE DEF step, S, first
    <2> QED  BY <1>1, <1>2, <1>4, IterationExists
<1>6. \A e \in 1..n : f[e] = Made(e, f[e - 1])
    <2> SUFFICES ASSUME NEW e \in 1..n PROVE f[e] = Made(e, f[e - 1])
        OBVIOUS
    <2>1. f[e - 1] \in S /\ f[e] = step[<<e, f[e - 1]>>]
        <3>1. e - 1 \in 0..n
            BY <1>1
        <3> HIDE DEF step, S, first
        <3> QED  BY <1>5, <3>1 DEF Iterates
    <2> HIDE DEF Made, S
    <2> QED
        BY <2>1
<1> DEFINE l == [e \in 1..n |-> f[e]]
<1>7. l = Body(l)
    <2>1. \A e \in 1..n : f[e] = Made(e, l[e - 1])
        <3> SUFFICES ASSUME NEW e \in 1..n PROVE f[e] = Made(e, l[e - 1])
            OBVIOUS
        <3>1. CASE e = 1
            BY <1>6, <3>1
        <3>2. CASE e # 1
            <4>1. e - 1 \in 1..n
                BY <1>1, <3>2
            <4>2. l[e - 1] = f[e - 1]
                BY <4>1
            <4> HIDE DEF l, Made
            <4> QED  BY <1>6, <4>2
        <3> QED
            BY <3>1, <3>2
    <2> HIDE DEF Made
    <2> QED
        BY <2>1
<1>8. t = Body(t)
    <2> HIDE DEF Body, l
    <2> QED  BY <1>7
<1>9. PathTable(g) = t
    <2>1. PathTable(g) = CHOOSE y : y = [e \in 1..n |-> IF e = 1 THEN FirstLayer(g)
                                                        ELSE NextLayer(g, y[e - 1], e)]
        BY <1>1, TableIsItself DEF PathTable
    <2> QED
        BY <2>1
<1> HIDE DEF t
<1>10. t = [e \in 1..n |-> t[e]] /\ \A e \in 1..n : t[e] = Made(e, t[e - 1])
    <2> HIDE DEF Made
    <2> QED  BY <1>8
<1> DEFINE Bad == {e \in 1..n : t[e] \notin S}
<1> HIDE DEF Body, S
<1>11. Bad = {}
    <2>1. SUFFICES ASSUME Bad # {} PROVE FALSE
        OBVIOUS
    <2>2. PICK e \in Bad : \A b \in Bad : e <= b
        <3>1. Bad \in SUBSET Nat
            OBVIOUS
        <3> HIDE DEF Bad
        <3> QED  BY <2>1, <3>1, LeastNumber
    <2>3. e # 1
        <3>1. 1 \in 1..n
            BY <1>1
        <3>2. t[1] = first
            <4>1. t[1] = Made(1, t[0])
                BY <1>10, <3>1
            <4> QED  BY <4>1
        <3> HIDE DEF first
        <3> QED  BY <1>2, <2>2, <3>2
    <2>4. e - 1 \in 1..n /\ e - 1 \notin Bad
        BY <1>1, <2>2, <2>3
    <2>5. t[e - 1] \in S
        BY <2>4
    <2> HIDE DEF Made
    <2> QED
        BY <1>3, <1>10, <2>2, <2>5
<1>12. t \in [1..n -> S]
    BY <1>10, <1>11
<1>13. t[1] = first /\ \A e \in 2..n : t[e] = NextLayer(g, t[e - 1], e)
    <2>1. t[1] = first
        <3>1. 1 \in 1..n
            BY <1>1
        <3>2. t[1] = Made(1, t[0])
            BY <1>10, <3>1
        <3> QED  BY <3>2
    <2>2. \A e \in 2..n : e \in 1..n /\ e # 1
        BY <1>1
    <2> QED
        BY <1>10, <2>1, <2>2
<1>14. IsTable(t, g, n, m)
    BY <1>12, <1>13 DEF IsTable, S
<1> QED
    BY <1>9, <1>14

-----------------------------------------------------------------------------
(* The rows of a video.                                                     *)

\* An end of the best score.
BestEnd(last, best) ==
    /\ best \in DOMAIN last
    /\ \A p \in DOMAIN last : last[p].score <= last[best].score

\* The first row, if there is any, is the best, whatever the distance asked for.
RowsOf(rows, video, table) ==
    LET last == Last(table)
        best == Endpoints(last)[1]
    IN  /\ Len(rows) \in Nat /\ DOMAIN rows = 1..Len(rows)
        /\ \A i \in 1..Len(rows) : rows[i].video = video.video /\ rows[i].score \in Int
        /\ DOMAIN last = {} => rows = <<>>
        /\ DOMAIN last # {} => /\ Len(rows) >= 1
                               /\ rows[1] = Row(video, table, best)
                               /\ BestEnd(last, best)
                               /\ rows[1].score = last[best].score
                               /\ \A i \in 1..Len(rows) : rows[i].score <= rows[1].score

\* The endpoints of a layer start with its best position, if it has any.
LEMMA EndpointsAre ==
    ASSUME NEW m \in Nat, NEW last \in LayersOver(m)
    PROVE  /\ Endpoints(last) \in Seq(DOMAIN last)
           /\ DOMAIN last = {} => Endpoints(last) = <<>>
           /\ DOMAIN last # {} => Endpoints(last) # <<>> /\ BestEnd(last, Endpoints(last)[1])
<1> DEFINE S == DOMAIN last
           key == Losses(last)
           c == Cardinality(S)
           order == Endpoints(last)
<1>1. S \in SUBSET (1..m) /\ \A p \in S : last[p].score \in Int
    BY LayerIs
<1>2. S \in SUBSET Int /\ IsFiniteSet(S)
    BY <1>1, FS_Interval, FS_Subset
<1>3. key \in [S -> Int] /\ \A p \in S : key[p] = -last[p].score
    BY <1>1 DEF Losses
<1>4. order = ByKey(S, key)
    BY <1>1, EndpointsByKey
<1> HIDE DEF key, order, S
<1>5. ListsByKey(order, S, key)
    BY <1>2, <1>3, <1>4, KeyOrder
<1>6. /\ c \in Nat /\ order \in [1..c -> S]
      /\ \A a \in S : \E k \in 1..c : order[k] = a
      /\ \A j, k \in 1..c : j < k <=> Sooner(key, order[j], order[k])
    BY <1>5 DEF ListsByKey
<1>7. S = {} <=> c = 0
    BY <1>2, FS_EmptySet
<1> HIDE DEF c
<1>8. order \in Seq(S) /\ Len(order) = c
    <2>1. order = [i \in 1..c |-> order[i]] /\ \A i \in 1..c : order[i] \in S
        BY <1>6
    <2> QED  BY <1>6, <2>1, ListOf
<1>9. ASSUME S = {} PROVE order = <<>>
    BY <1>7, <1>8, <1>9, EmptySeq
<1>10. ASSUME S # {} PROVE order # <<>> /\ BestEnd(last, order[1])
    <2>1. 1 \in 1..c
        BY <1>6, <1>7, <1>10
    <2>2. order # <<>>
        BY <1>8, <2>1, EmptySeq
    <2>3. order[1] \in S
        BY <1>6, <2>1
    <2>4. ASSUME NEW p \in S PROVE last[p].score <= last[order[1]].score
        <3>1. PICK k \in 1..c : order[k] = p
            BY <1>6
        <3>2. CASE k = 1
            BY <1>1, <3>1, <3>2 DEF S
        <3>3. CASE k # 1
            <4>1. 1 < k
                BY <1>6, <3>3
            <4>2. Sooner(key, order[1], p)
                BY <1>6, <2>1, <3>1, <4>1
            <4>3. key[order[1]] <= key[p]
                BY <1>3, <2>3, <4>2 DEF Sooner
            <4>4. -last[order[1]].score <= -last[p].score
                BY <1>3, <2>3, <4>3
            <4> QED
                BY <1>1, <2>3, <4>4 DEF S
        <3> QED
            BY <3>2, <3>3
    <2> QED
        BY <2>2, <2>3, <2>4 DEF BestEnd, S
<1> QED
    BY <1>8, <1>9, <1>10 DEF S, order

\* Rows are read off the table from endpoints, the best one first.
LEMMA BestRowsAre ==
    ASSUME NEW m \in Nat, NEW n \in Nat \ {0}, NEW table \in [1..n -> LayersOver(m)],
           NEW video, NEW separation, NEW limit \in Nat \ {0}
    PROVE  RowsOf(BestRows(video, table, separation, limit), video, table)
<1> DEFINE last == Last(table)
           S == DOMAIN last
           order == Endpoints(last)
           kept == KeptFrom(video, order, separation, limit)
           rows == BestRows(video, table, separation, limit)
           best == order[1]
<1>1. last \in LayersOver(m)
    <2>1. Len(table) = n /\ n \in 1..n
        <3>1. table = [e \in 1..n |-> table[e]] /\ \A e \in 1..n : table[e] \in LayersOver(m)
            OBVIOUS
        <3> QED
            BY <3>1, ListOf
    <2> QED
        BY <2>1 DEF Last
<1> HIDE DEF last
<1>2. \A p \in S : last[p].score \in Int
    BY <1>1, LayerIs
<1>3. /\ order \in Seq(S)
      /\ S = {} => order = <<>>
      /\ S # {} => order # <<>> /\ BestEnd(last, best)
    BY <1>1, EndpointsAre
<1>4. KeptWell(kept, order, S)
    <2> HIDE DEF order, S
    <2> QED  BY <1>3, KeptFromIs
<1> HIDE DEF order, kept
<1>5. kept \in Seq(S) /\ Len(kept) \in Nat /\ DOMAIN kept = 1..Len(kept)
      /\ \A i \in 1..Len(kept) : kept[i] \in S
    BY <1>4, LenProperties, ElementOfSeq DEF KeptWell
<1>6. rows = [i \in 1..Len(kept) |-> Row(video, table, kept[i])]
    BY <1>5, TableIsItself DEF BestRows, RowsFrom, KeptEndpoints, kept, order, last
<1> DEFINE V == {rows[i] : i \in 1..Len(kept)}
<1>7. Len(rows) = Len(kept) /\ DOMAIN rows = 1..Len(kept) /\ rows \in Seq(V)
    <2> HIDE DEF rows
    <2>1. rows = [i \in 1..Len(kept) |-> rows[i]] /\ \A i \in 1..Len(kept) : rows[i] \in V
        BY <1>6
    <2> HIDE DEF V
    <2> QED  BY <1>5, <2>1, ListOf
<1> HIDE DEF rows, V
<1>8. \A i \in 1..Len(rows) : /\ rows[i].video = video.video
                              /\ rows[i].score = last[kept[i]].score
                              /\ kept[i] \in S
    BY <1>5, <1>6, <1>7 DEF Row, last
<1>9. \A i \in 1..Len(rows) : rows[i].video = video.video /\ rows[i].score \in Int
    <2> HIDE DEF S
    <2> QED  BY <1>2, <1>8 DEF S
<1>10. ASSUME S = {} PROVE rows = <<>>
    BY <1>3, <1>4, <1>7, <1>10, EmptySeq, LenProperties DEF KeptWell
<1>11. ASSUME S # {}
       PROVE  /\ Len(rows) >= 1 /\ rows[1] = Row(video, table, best)
              /\ BestEnd(last, best)
              /\ rows[1].score = last[best].score
              /\ \A i \in 1..Len(rows) : rows[i].score <= rows[1].score
    <2>1. BestEnd(last, best) /\ Len(kept) >= 1 /\ kept[1] = best
        BY <1>3, <1>4, <1>11 DEF KeptWell
    <2>2. 1 \in 1..Len(kept) /\ 1 \in 1..Len(rows)
        BY <1>5, <1>7, <2>1
    <2>3. rows[1] = Row(video, table, best) /\ rows[1].score = last[best].score
        BY <1>6, <1>8, <2>1, <2>2
    <2>4. \A i \in 1..Len(rows) : last[kept[i]].score <= last[best].score
        BY <1>8, <2>1 DEF BestEnd
    <2> QED
        BY <1>7, <1>8, <2>1, <2>2, <2>3, <2>4
<1>12. RowsOf(rows, video, table)
    BY <1>5, <1>7, <1>9, <1>10, <1>11 DEF RowsOf, last, order
<1> QED
    BY <1>12 DEF rows

-----------------------------------------------------------------------------
(* The static decoder over a scored video.                                  *)

\* Every natural number has a root.
LEMMA RootIs ==
    ASSUME NEW n \in Nat
    PROVE  Root(n) \in 0..n
<1> DEFINE T == {r \in Nat : n < (r + 1) * (r + 1)}
<1>1. n \in T
    <2>1. (n + 1) * (n + 1) = n * n + 2 * n + 1
        OBVIOUS
    <2>2. n * n \in Nat
        OBVIOUS
    <2> QED  BY <2>1, <2>2
<1>2. PICK r \in T : \A s \in T : r <= s
    <2>1. T \in SUBSET Nat
        OBVIOUS
    <2> HIDE DEF T
    <2> QED  BY <1>1, <2>1, LeastNumber
<1>3. r \in 0..n
    BY <1>1, <1>2
<1>4. r * r <= n
    <2>1. CASE r = 0
        BY <2>1
    <2>2. CASE r # 0
        <3>1. r - 1 \in Nat /\ r - 1 \notin T
            BY <1>2, <2>2
        <3>2. ~(n < ((r - 1) + 1) * ((r - 1) + 1))
            BY <3>1
        <3>3. (r - 1) + 1 = r
            BY <3>1
        <3>4. r * r \in Nat
            BY <1>2
        <3> QED  BY <3>2, <3>3, <3>4
    <2> QED  BY <2>1, <2>2
<1>5. n < (r + 1) * (r + 1)
    BY <1>2
<1> QED
    BY <1>3, <1>4, <1>5 DEF Root

\* A row of n rows of numbers over 1..m.
IsScores(rows, n, m) ==
    DOMAIN rows = 1..n /\ \A e \in 1..n : rows[e] \in [1..m -> Int]

\* Scores raised to the power of the events are numbers still.
LEMMA PoweredIs ==
    ASSUME NEW video, NEW n, NEW k, IsVideo(video, n, k), NEW power, Unit \in Nat \ {0}
    PROVE  IsScores(Powered(video, power), n, Len(video.frames))
<1> DEFINE m == Len(video.frames)
           Value(e, p) == IF power = 1 THEN video.rows[e][p]
                          ELSE IF video.rows[e][p] < 0 THEN 0
                          ELSE Root(video.rows[e][p] * Unit)
<1>1. /\ Positions(video) = 1..m /\ EventsOf(video) = 1..n
      /\ \A e \in 1..n : video.rows[e] \in [1..m -> Int]
    BY DEF IsVideo, EventsOf
<1>2. Powered(video, power) = [e \in 1..n |-> [p \in 1..m |-> Value(e, p)]]
    BY <1>1, TableIsItself DEF Powered
<1>3. ASSUME NEW e \in 1..n, NEW p \in 1..m PROVE Value(e, p) \in Int
    <2>1. video.rows[e][p] \in Int
        BY <1>1
    <2>2. CASE power = 1 \/ video.rows[e][p] < 0
        BY <2>1, <2>2
    <2>3. CASE power # 1 /\ ~(video.rows[e][p] < 0)
        <3>1. video.rows[e][p] * Unit \in Nat
            BY <2>1, <2>3
        <3>2. Root(video.rows[e][p] * Unit) \in 0..(video.rows[e][p] * Unit)
            BY <3>1, RootIs
        <3>3. Root(video.rows[e][p] * Unit) \in Int
            BY <3>2
        <3> QED  BY <2>3, <3>3
    <2> QED  BY <2>2, <2>3
<1> HIDE DEF Value
<1>4. IsScores([e \in 1..n |-> [p \in 1..m |-> Value(e, p)]], n, m)
    BY <1>3 DEF IsScores
<1> QED
    BY <1>2, <1>4

\* The graph that the static decoder searches.
StaticGraph(video, prep, gap) ==
    Graph(video, prep, gap, [e \in EventsOf(video) |-> Positions(video)],
          [a \in Moves(video) |-> 0], TRUE)

\* The static decoder searches a well-formed graph.
LEMMA StaticGraphIs ==
    ASSUME NEW video, NEW n, NEW k, IsVideo(video, n, k),
           NEW prep, IsScores(prep.rows, n, Len(video.frames)), NEW gap \in Int
    PROVE  GraphOK(StaticGraph(video, prep, gap), n, Len(video.frames))
<1> DEFINE m == Len(video.frames)
           g == StaticGraph(video, prep, gap)
<1>1. /\ n \in Nat \ {0} /\ m \in Nat
      /\ Positions(video) = 1..m /\ EventsOf(video) = 1..n
      /\ video.time \in [1..m -> Int]
    BY DEF IsVideo, EventsOf
<1>2. g = [rows |-> prep.rows, source |-> prep.source, time |-> video.time, gap |-> gap,
           layers |-> [e \in 1..n |-> 1..m],
           pull |-> [a \in (1..n) \X (1..m) \X (1..m) |-> 0], latest |-> TRUE]
    BY <1>1 DEF StaticGraph, Graph, Moves
<1>3. \A e \in 1..n : \A q, p \in 1..m : [a \in (1..n) \X (1..m) \X (1..m) |-> 0][<<e, q, p>>] \in Int
    OBVIOUS
<1>4. /\ g.rows = prep.rows /\ g.time = video.time /\ g.gap = gap
      /\ g.layers = [e \in 1..n |-> 1..m]
      /\ g.pull = [a \in (1..n) \X (1..m) \X (1..m) |-> 0]
    BY <1>2
<1> HIDE DEF g
<1>5. \A e \in 1..n : g.layers[e] \in SUBSET (1..m)
    BY <1>4
<1>6. GraphOK(g, n, m)
    BY <1>1, <1>3, <1>4, <1>5 DEF GraphOK, IsScores
<1> QED
    BY <1>6 DEF g

\* The table of the static decoder, whatever number of rows is asked for.
TableFor(video, d) == StaticTable(video, Prepared(video, d), d.gap)

Aligned(rows, video, d) ==
    /\ Prepared(video, d).ready => RowsOf(rows, video, TableFor(video, d))
    /\ ~Prepared(video, d).ready => rows = <<>>

\* The rows of the static decoder are those of its own table.
LEMMA AlignedIs ==
    ASSUME NEW video, NEW n, NEW k, IsVideo(video, n, k), NEW d, d.gap \in Int,
           Unit \in Nat \ {0}, NEW limit \in Nat \ {0}
    PROVE  Aligned(AlignVideo(video, d, limit), video, d)
<1> DEFINE m == Len(video.frames)
           prep == Prepared(video, d)
           g == StaticGraph(video, prep, d.gap)
           table == StaticTable(video, prep, d.gap)
<1>1. prep.rows = Powered(video, d.power)
    BY DEF Prepared, PreparedFrom, PreparedWith
<1>2. IsScores(prep.rows, n, m)
    <2>1. IsScores(Powered(video, d.power), n, m)
        BY PoweredIs
    <2> HIDE DEF prep
    <2> QED  BY <1>1, <2>1
<1>3. GraphOK(g, n, m)
    <2> HIDE DEF prep
    <2> QED  BY <1>2, StaticGraphIs
<1>4. table = PathTable(g)
    BY DEF StaticTable, StaticGraph
<1>5. n \in Nat \ {0} /\ m \in Nat
    BY DEF IsVideo
<1>6. table \in [1..n -> LayersOver(m)]
    <2>1. IsTable(PathTable(g), g, n, m)
        <3> HIDE DEF g
        <3> QED  BY <1>3, PathTableIs
    <2> HIDE DEF table
    <2> QED  BY <1>4, <2>1 DEF IsTable
<1>7. RowsOf(BestRows(video, table, d.separation, limit), video, table)
    <2> HIDE DEF table, m
    <2> QED  BY <1>5, <1>6, BestRowsAre
<1>8. AlignVideo(video, d, limit) = IF prep.ready THEN BestRows(video, table, d.separation, limit)
                                    ELSE <<>>
    BY DEF AlignVideo, AlignPrepared
<1> HIDE DEF prep, table
<1> QED
    BY <1>7, <1>8 DEF Aligned, TableFor, prep, table

-----------------------------------------------------------------------------
(* The rows of all videos.                                                  *)

\* f joins the lists of seqs one after the other.
JoinsUp(f, seqs, V) ==
    /\ f \in [0..Len(seqs) -> Seq(V)]
    /\ f[0] = <<>>
    /\ \A n \in 1..Len(seqs) : f[n] = f[n - 1] \o seqs[n]

\* A joined list grows by one of its parts at a time.
LEMMA FlattenIs ==
    ASSUME NEW V, NEW seqs \in Seq(Seq(V))
    PROVE  \E f : JoinsUp(f, seqs, V) /\ FlattenSeq(seqs) = f[Len(seqs)]
<1> DEFINE m == Len(seqs)
           S == Seq(V)
           step == [a \in (1..m) \X S |-> a[2] \o seqs[a[1]]]
           Made(f, n) == IF n = 1 THEN seqs[n] ELSE f[n - 1] \o seqs[n]
           Body(f) == [n \in 1..m |-> Made(f, n)]
           t == CHOOSE f : f = Body(f)
<1>1. m \in Nat /\ \A n \in 1..m : seqs[n] \in S
    BY LenProperties, ElementOfSeq
<1>2. step \in [(1..m) \X S -> S]
    <2>1. \A n \in 1..m, s \in S : s \o seqs[n] \in S
        BY <1>1, ConcatProperties
    <2> HIDE DEF S
    <2> QED  BY <2>1
<1>3. <<>> \in S
    OBVIOUS
<1>4. PICK f : Iterates(f, S, m, <<>>, step)
    <2> HIDE DEF step, S, m
    <2> QED  BY <1>1, <1>2, <1>3, IterationExists
<1>5. f \in [0..m -> S] /\ f[0] = <<>>
    BY <1>4 DEF Iterates
<1>6. \A n \in 1..m : f[n] = f[n - 1] \o seqs[n]
    <2> SUFFICES ASSUME NEW n \in 1..m PROVE f[n] = f[n - 1] \o seqs[n]
        OBVIOUS
    <2>1. n - 1 \in 0..m
        BY <1>1
    <2>2. f[n - 1] \in S
        <3> HIDE DEF S
        <3> QED  BY <1>5, <2>1
    <2>3. f[n] = step[<<n, f[n - 1]>>]
        <3> HIDE DEF step, S
        <3> QED  BY <1>4 DEF Iterates
    <2> HIDE DEF S
    <2> QED
        BY <2>2, <2>3
<1>7. JoinsUp(f, seqs, V)
    BY <1>5, <1>6 DEF JoinsUp
<1>8. CASE m = 0
    <2>1. seqs = <<>>
        BY <1>8, EmptySeq
    <2>2. FlattenSeq(seqs) = <<>>
        BY <1>8, <2>1 DEF FlattenSeq
    <2> QED
        BY <1>5, <1>7, <1>8, <2>2
<1>9. CASE m # 0
    <2>1. 1 \in 1..m /\ m \in 1..m
        BY <1>1, <1>9
    <2> DEFINE l == [n \in 1..m |-> f[n]]
    <2>2. f[1] = seqs[1]
        <3>1. f[1] = f[1 - 1] \o seqs[1]
            BY <1>6, <2>1
        <3>2. f[1 - 1] = <<>>
            BY <1>5
        <3>3. f[1] = <<>> \o seqs[1]
            BY <3>1, <3>2
        <3>4. seqs[1] \in Seq(V)
            BY <1>1, <2>1
        <3> QED
            BY <3>3, <3>4, ConcatEmptySeq
    <2>3. ASSUME NEW n \in 1..m PROVE f[n] = Made(l, n)
        <3>1. CASE n = 1
            BY <2>2, <3>1
        <3>2. CASE n # 1
            <4>1. n - 1 \in 1..m
                BY <1>1, <3>2
            <4>2. l[n - 1] = f[n - 1]
                BY <4>1
            <4> HIDE DEF l
            <4> QED  BY <1>6, <3>2, <4>2
        <3> QED
            BY <3>1, <3>2
    <2>4. l = Body(l)
        <3> HIDE DEF Made
        <3> QED  BY <2>3
    <2>5. t = Body(t)
        <3> HIDE DEF Body, l
        <3> QED  BY <2>4
    <2> HIDE DEF t, l
    <2>6. \A n \in 1..m : t[n] = Made(t, n)
        <3> HIDE DEF Made
        <3> QED  BY <2>5
    <2> DEFINE Bad == {n \in 1..m : t[n] # f[n]}
    <2>7. Bad = {}
        <3>1. SUFFICES ASSUME Bad # {} PROVE FALSE
            OBVIOUS
        <3>2. PICK n \in Bad : \A b \in Bad : n <= b
            <4>1. Bad \in SUBSET Nat
                OBVIOUS
            <4> HIDE DEF Bad
            <4> QED  BY <3>1, <4>1, LeastNumber
        <3>3. t[n] = Made(t, n) /\ n \in 1..m
            BY <2>6, <3>2
        <3>4. CASE n = 1
            BY <2>2, <3>2, <3>3, <3>4
        <3>5. CASE n # 1
            <4>1. n - 1 \in 1..m
                BY <1>1, <3>3, <3>5
            <4>2. t[n - 1] = f[n - 1]
                <5>1. n - 1 \notin Bad
                    <6> HIDE DEF Bad
                    <6> QED  BY <1>1, <3>2, <3>3
                <5> QED
                    BY <4>1, <5>1
            <4>3. Made(t, n) = t[n - 1] \o seqs[n]
                BY <3>5
            <4>4. t[n] = f[n - 1] \o seqs[n]
                <5> HIDE DEF Made
                <5> QED  BY <3>3, <4>2, <4>3
            <4>5. f[n] = f[n - 1] \o seqs[n] /\ n \in Bad
                BY <1>6, <3>2, <3>3
            <4> QED
                BY <4>4, <4>5
        <3> QED
            BY <3>4, <3>5
    <2>8. FlattenSeq(seqs) = t[m]
        BY <1>9 DEF FlattenSeq, t
    <2>9. t[m] = f[m]
        BY <2>1, <2>7
    <2> QED
        BY <1>7, <2>8, <2>9
<1> QED
    BY <1>8, <1>9

\* The best rows of each of c videos with their own ids, the best of all first.
IsPerVideo(perVideo, ids, c) ==
    /\ c \in Nat /\ DOMAIN perVideo = 1..c /\ perVideo = [k \in 1..c |-> perVideo[k]]
    /\ \A k \in 1..c : /\ Len(perVideo[k]) \in Nat
                       /\ DOMAIN perVideo[k] = 1..Len(perVideo[k])
                       /\ perVideo[k] = [i \in 1..Len(perVideo[k]) |-> perVideo[k][i]]
                       /\ \A i \in 1..Len(perVideo[k]) :
                             /\ perVideo[k][i].video = ids[k]
                             /\ perVideo[k][i].score \in Int
                             /\ perVideo[k][i].score <= perVideo[k][1].score
    /\ \A j, k \in 1..c : ids[j] = ids[k] => j = k

AllRows(perVideo) ==
    UNION {{perVideo[k][i] : i \in 1..Len(perVideo[k])} : k \in DOMAIN perVideo}

\* The best row of the video comes no later and scores no less.
HeadedAt(rows, i, perVideo) ==
    \E k \in DOMAIN perVideo, j \in 1..i :
        /\ Len(perVideo[k]) >= 1
        /\ rows[j] = perVideo[k][1]
        /\ rows[i].video = rows[j].video
        /\ rows[i].score <= rows[j].score

Headed(rows, perVideo) ==
    /\ rows \in Seq(AllRows(perVideo))
    /\ \A i \in 1..Len(rows) : HeadedAt(rows, i, perVideo)

\* A row is one of a video's, which has a best row.
LEMMA RowFromVideo ==
    ASSUME NEW perVideo, NEW ids, NEW c, IsPerVideo(perVideo, ids, c),
           NEW row \in AllRows(perVideo)
    PROVE  \E k \in 1..c : /\ \E i \in 1..Len(perVideo[k]) : row = perVideo[k][i]
                           /\ Len(perVideo[k]) >= 1
                           /\ row.video = perVideo[k][1].video
                           /\ row.video = ids[k]
                           /\ row.score \in Int
                           /\ row.score <= perVideo[k][1].score
<1>1. PICK k \in 1..c : \E i \in 1..Len(perVideo[k]) : row = perVideo[k][i]
    BY DEF AllRows, IsPerVideo
<1>2. PICK i \in 1..Len(perVideo[k]) : row = perVideo[k][i]
    BY <1>1
<1>3. Len(perVideo[k]) \in Nat
    BY DEF IsPerVideo
<1>4. 1 \in 1..Len(perVideo[k]) /\ Len(perVideo[k]) >= 1
    BY <1>2, <1>3
<1>5. perVideo[k][1].video = ids[k] /\ perVideo[k][i].video = ids[k]
      /\ perVideo[k][i].score \in Int /\ perVideo[k][i].score <= perVideo[k][1].score
    BY <1>4 DEF IsPerVideo
<1> QED
    BY <1>1, <1>2, <1>4, <1>5

\* A list goes on as it began.
LEMMA PrefixHeaded ==
    ASSUME NEW perVideo, NEW rows, Headed(rows, perVideo), NEW more \in Seq(AllRows(perVideo)),
           NEW i \in 1..Len(rows)
    PROVE  i \in 1..Len(rows \o more) /\ HeadedAt(rows \o more, i, perVideo)
<1> DEFINE both == rows \o more
           V == AllRows(perVideo)
<1>1. rows \in Seq(V) /\ Len(rows) \in Nat /\ Len(more) \in Nat
    BY LenProperties DEF Headed
<1>2. /\ Len(both) = Len(rows) + Len(more)
      /\ \A j \in 1..Len(rows) : both[j] = rows[j]
    <2> HIDE DEF V
    <2>1. /\ Len(both) = Len(rows) + Len(more)
          /\ \A j \in 1..(Len(rows) + Len(more)) :
                both[j] = IF j <= Len(rows) THEN rows[j] ELSE more[j - Len(rows)]
        BY <1>1, ConcatProperties DEF V
    <2> QED  BY <1>1, <2>1
<1> HIDE DEF both
<1>3. PICK k \in DOMAIN perVideo, j \in 1..i :
          /\ Len(perVideo[k]) >= 1
          /\ rows[j] = perVideo[k][1]
          /\ rows[i].video = rows[j].video
          /\ rows[i].score <= rows[j].score
    BY DEF Headed, HeadedAt
<1>4. j \in 1..Len(rows) /\ i \in 1..Len(both)
    BY <1>1, <1>2
<1>5. both[j] = rows[j] /\ both[i] = rows[i]
    BY <1>2, <1>4
<1>6. HeadedAt(both, i, perVideo)
    BY <1>3, <1>5 DEF HeadedAt
<1> QED
    BY <1>4, <1>6 DEF both

\* So it stays when only rows come after whose heads it holds.
LEMMA JoinHeaded ==
    ASSUME NEW perVideo, NEW rows, Headed(rows, perVideo), NEW more \in Seq(AllRows(perVideo)),
           \A i \in 1..Len(more) : \E k \in DOMAIN perVideo, j \in 1..Len(rows) :
               /\ Len(perVideo[k]) >= 1
               /\ rows[j] = perVideo[k][1]
               /\ more[i].video = rows[j].video
               /\ more[i].score <= rows[j].score
    PROVE  Headed(rows \o more, perVideo)
<1> DEFINE both == rows \o more
           V == AllRows(perVideo)
<1>1. rows \in Seq(V) /\ Len(rows) \in Nat /\ Len(more) \in Nat
    BY LenProperties DEF Headed
<1>2. /\ both \in Seq(V)
      /\ Len(both) = Len(rows) + Len(more)
      /\ \A j \in 1..(Len(rows) + Len(more)) :
            both[j] = IF j <= Len(rows) THEN rows[j] ELSE more[j - Len(rows)]
    <2> HIDE DEF V
    <2> QED  BY <1>1, ConcatProperties DEF V
<1> HIDE DEF both
<1>3. ASSUME NEW i \in 1..Len(both) PROVE HeadedAt(both, i, perVideo)
    <2>1. CASE i <= Len(rows)
        <3>1. i \in 1..Len(rows)
            BY <1>1, <2>1
        <3> QED
            BY <3>1, PrefixHeaded DEF both
    <2>2. CASE i > Len(rows)
        <3>1. i - Len(rows) \in 1..Len(more)
            BY <1>1, <1>2, <2>2
        <3>2. PICK k \in DOMAIN perVideo, j \in 1..Len(rows) :
                  /\ Len(perVideo[k]) >= 1
                  /\ rows[j] = perVideo[k][1]
                  /\ more[i - Len(rows)].video = rows[j].video
                  /\ more[i - Len(rows)].score <= rows[j].score
            BY <3>1
        <3>3. j \in 1..i /\ both[i] = more[i - Len(rows)] /\ both[j] = rows[j]
            BY <1>1, <1>2, <2>2
        <3> QED
            BY <3>2, <3>3 DEF HeadedAt
    <2> QED
        BY <1>1, <1>2, <2>1, <2>2
<1>4. Headed(both, perVideo)
    BY <1>2, <1>3 DEF Headed
<1> QED
    BY <1>4 DEF both

\* So it stays when a list comes after that holds its own heads.
LEMMA JoinTwoHeaded ==
    ASSUME NEW perVideo, NEW rows, Headed(rows, perVideo), NEW more, Headed(more, perVideo)
    PROVE  Headed(rows \o more, perVideo)
<1> DEFINE both == rows \o more
           V == AllRows(perVideo)
<1>1. /\ rows \in Seq(V) /\ Len(rows) \in Nat
      /\ more \in Seq(V) /\ Len(more) \in Nat
    BY LenProperties DEF Headed
<1>2. /\ both \in Seq(V)
      /\ Len(both) = Len(rows) + Len(more)
      /\ \A j \in 1..(Len(rows) + Len(more)) :
            both[j] = IF j <= Len(rows) THEN rows[j] ELSE more[j - Len(rows)]
    <2> HIDE DEF V
    <2> QED  BY <1>1, ConcatProperties DEF V
<1> HIDE DEF both
<1>3. ASSUME NEW i \in 1..Len(both) PROVE HeadedAt(both, i, perVideo)
    <2>1. CASE i <= Len(rows)
        <3>1. i \in 1..Len(rows)
            BY <1>1, <2>1
        <3> QED
            BY <1>1, <3>1, PrefixHeaded DEF both
    <2>2. CASE i > Len(rows)
        <3>1. i - Len(rows) \in 1..Len(more)
            BY <1>1, <1>2, <2>2
        <3>2. PICK k \in DOMAIN perVideo, j \in 1..(i - Len(rows)) :
                  /\ Len(perVideo[k]) >= 1
                  /\ more[j] = perVideo[k][1]
                  /\ more[i - Len(rows)].video = more[j].video
                  /\ more[i - Len(rows)].score <= more[j].score
            BY <3>1 DEF Headed, HeadedAt
        <3>3. j \in Int /\ j + Len(rows) \in 1..i /\ j + Len(rows) > Len(rows)
            BY <1>1, <2>2, <3>2
        <3>4. j + Len(rows) \in 1..(Len(rows) + Len(more)) /\ i \in 1..(Len(rows) + Len(more))
            BY <1>1, <1>2, <3>3
        <3>5. both[i] = more[i - Len(rows)] /\ both[j + Len(rows)] = more[j + Len(rows) - Len(rows)]
            <4>1. both[i] = IF i <= Len(rows) THEN rows[i] ELSE more[i - Len(rows)]
                BY <1>2, <3>4
            <4>2. both[j + Len(rows)] = IF j + Len(rows) <= Len(rows) THEN rows[j + Len(rows)]
                                        ELSE more[j + Len(rows) - Len(rows)]
                BY <1>2, <3>4
            <4>3. ~(j + Len(rows) <= Len(rows)) /\ ~(i <= Len(rows))
                BY <1>1, <1>2, <2>2, <3>3
            <4> QED
                BY <4>1, <4>2, <4>3
        <3>6. j + Len(rows) - Len(rows) = j
            BY <1>1, <3>3
        <3>7. both[j + Len(rows)] = more[j]
            BY <3>5, <3>6
        <3> QED
            BY <3>2, <3>3, <3>5, <3>7 DEF HeadedAt
    <2> QED
        BY <1>1, <1>2, <2>1, <2>2
<1>4. Headed(both, perVideo)
    BY <1>2, <1>3 DEF Headed
<1> QED
    BY <1>4 DEF both

\* Rows sorted by score: the same rows, and of two the better first.
SortedFrom(sorted, rows, order) ==
    LET n == Len(rows)
    IN  /\ Len(sorted) = n
        /\ order \in [1..n -> 1..n]
        /\ \A k \in 1..n : sorted[k] = rows[order[k]]
        /\ \A i \in 1..n : \E k \in 1..n : order[k] = i
        /\ \A j, k \in 1..n : j < k <=> \/ rows[order[j]].score > rows[order[k]].score
                                        \/ /\ rows[order[j]].score = rows[order[k]].score
                                           /\ order[j] < order[k]

\* Sorting by score rearranges the rows, ties in their order.
LEMMA ByScoreIs ==
    ASSUME NEW V, NEW rows \in Seq(V), \A row \in V : row.score \in Int
    PROVE  ByScore(rows) \in Seq(V) /\ \E order : SortedFrom(ByScore(rows), rows, order)
<1> DEFINE S == DOMAIN rows
           n == Len(rows)
           key == [i \in S |-> -rows[i].score]
           A(a) == {b \in S : \/ rows[b].score > rows[a].score
                              \/ rows[b].score = rows[a].score /\ b < a}
           B(a) == {b \in S : key[b] < key[a] \/ (key[b] = key[a] /\ b < a)}
           order == ByPlace(S, [a \in S |-> Cardinality(A(a))])
           sorted == ByScore(rows)
<1>1. n \in Nat /\ S = 1..n /\ \A i \in S : rows[i] \in V
    BY LenProperties, ElementOfSeq
<1>2. \A i \in S : rows[i].score \in Int
    BY <1>1
<1>3. sorted = [k \in DOMAIN order |-> rows[order[k]]]
    <2>1. Arranged(S, LAMBDA i, j : \/ rows[i].score > rows[j].score
                                    \/ rows[i].score = rows[j].score /\ i < j) = order
        BY TableIsItself DEF Arranged
    <2> HIDE DEF order
    <2> QED  BY <2>1 DEF ByScore
<1>4. ASSUME NEW a \in S PROVE A(a) = B(a)
    <2>1. \A b \in S : key[b] = -rows[b].score
        OBVIOUS
    <2> HIDE DEF key
    <2>2. \A b \in S : /\ rows[b].score > rows[a].score <=> key[b] < key[a]
                       /\ rows[b].score = rows[a].score <=> key[b] = key[a]
        BY <1>2, <2>1
    <2> QED
        BY <2>2
<1>5. order = ByKey(S, key)
    <2>1. ByKey(S, key) = ByPlace(S, [a \in S |-> Cardinality(B(a))])
        BY DEF ByKey
    <2> HIDE DEF A, B
    <2> QED  BY <1>4, <2>1
<1>6. ListsByKey(order, S, key)
    <2>1. S \in SUBSET Int /\ IsFiniteSet(S)
        BY <1>1, FS_Interval
    <2>2. key \in [S -> Int]
        BY <1>2
    <2> HIDE DEF key, S
    <2> QED  BY <1>5, <2>1, <2>2, KeyOrder
<1>7. Cardinality(S) = n
    <2>1. Cardinality(1..n) = n
        BY <1>1, FS_Interval
    <2> QED  BY <1>1, <2>1
<1> HIDE DEF order
<1>8. /\ order \in [1..n -> 1..n]
      /\ \A i \in 1..n : \E k \in 1..n : order[k] = i
      /\ \A j, k \in 1..n : j < k <=> Sooner(key, order[j], order[k])
    <2> HIDE DEF key
    <2> QED  BY <1>1, <1>6, <1>7 DEF ListsByKey
<1>9. sorted = [k \in 1..n |-> rows[order[k]]]
    BY <1>3, <1>8
<1> HIDE DEF sorted
<1>10. sorted \in Seq(V) /\ Len(sorted) = n
    <2>1. sorted = [k \in 1..n |-> sorted[k]] /\ \A k \in 1..n : sorted[k] \in V
        BY <1>1, <1>8, <1>9
    <2> QED  BY <1>1, <2>1, ListOf
<1>11. ASSUME NEW j \in 1..n, NEW k \in 1..n
       PROVE  Sooner(key, order[j], order[k]) <=>
                  \/ rows[order[j]].score > rows[order[k]].score
                  \/ rows[order[j]].score = rows[order[k]].score /\ order[j] < order[k]
    <2>1. order[j] \in S /\ order[k] \in S
        BY <1>1, <1>8
    <2>2. key[order[j]] = -rows[order[j]].score /\ key[order[k]] = -rows[order[k]].score
        BY <2>1
    <2>3. rows[order[j]].score \in Int /\ rows[order[k]].score \in Int
        BY <1>2, <2>1
    <2> HIDE DEF key
    <2> QED  BY <2>2, <2>3 DEF Sooner
<1>12. SortedFrom(sorted, rows, order)
    <2> HIDE DEF key
    <2> QED  BY <1>8, <1>9, <1>10, <1>11 DEF SortedFrom
<1> QED
    BY <1>10, <1>12 DEF sorted

\* Sorting by score leaves every video's best row first of its rows.
LEMMA SortedHeaded ==
    ASSUME NEW perVideo, NEW rows, Headed(rows, perVideo),
           \A row \in AllRows(perVideo) : row.score \in Int
    PROVE  Headed(ByScore(rows), perVideo)
<1> DEFINE sorted == ByScore(rows)
           V == AllRows(perVideo)
           n == Len(rows)
<1>1. rows \in Seq(V) /\ n \in Nat
    BY LenProperties DEF Headed
<1>2. sorted \in Seq(V) /\ \E order : SortedFrom(sorted, rows, order)
    <2> HIDE DEF V
    <2> QED  BY <1>1, ByScoreIs DEF V
<1> HIDE DEF sorted
<1>3. PICK order : SortedFrom(sorted, rows, order)
    BY <1>2
<1>4. /\ Len(sorted) = n
      /\ order \in [1..n -> 1..n]
      /\ \A k \in 1..n : sorted[k] = rows[order[k]]
      /\ \A i \in 1..n : \E k \in 1..n : order[k] = i
      /\ \A j, k \in 1..n : j < k <=> \/ rows[order[j]].score > rows[order[k]].score
                                      \/ /\ rows[order[j]].score = rows[order[k]].score
                                         /\ order[j] < order[k]
    BY <1>3 DEF SortedFrom
<1>5. \A i \in 1..n : rows[i].score \in Int
    <2>1. \A i \in 1..n : rows[i] \in V
        BY <1>1, ElementOfSeq
    <2> QED  BY <2>1
<1>6. ASSUME NEW i \in 1..n PROVE HeadedAt(sorted, i, perVideo)
    <2>1. order[i] \in 1..n
        BY <1>4
    <2>2. PICK k \in DOMAIN perVideo, j \in 1..order[i] :
              /\ Len(perVideo[k]) >= 1
              /\ rows[j] = perVideo[k][1]
              /\ rows[order[i]].video = rows[j].video
              /\ rows[order[i]].score <= rows[j].score
        BY <2>1 DEF Headed, HeadedAt
    <2>3. j \in 1..n
        BY <1>1, <2>1, <2>2
    <2>4. PICK h \in 1..n : order[h] = j
        BY <1>4, <2>3
    <2>5. h <= i
        <3>1. (i < h) => \/ rows[order[i]].score > rows[order[h]].score
                         \/ /\ rows[order[i]].score = rows[order[h]].score
                            /\ order[i] < order[h]
            BY <1>4
        <3>2. (i < h) => \/ rows[order[i]].score > rows[j].score
                         \/ /\ rows[order[i]].score = rows[j].score
                            /\ order[i] < j
            BY <2>4, <3>1
        <3>3. j <= order[i] /\ j \in Int /\ order[i] \in Int
            BY <2>1, <2>3, <2>2
        <3>4. rows[order[i]].score \in Int /\ rows[j].score \in Int
            BY <1>5, <2>1, <2>3
        <3>5. ~(i < h)
            BY <2>2, <3>2, <3>3, <3>4
        <3> QED
            BY <1>1, <3>5
    <2>6. h \in 1..i
        BY <2>4, <2>5
    <2>7. sorted[h] = rows[j] /\ sorted[i] = rows[order[i]]
        BY <1>4, <2>4
    <2> QED
        BY <2>2, <2>6, <2>7 DEF HeadedAt
<1>7. Headed(sorted, perVideo)
    BY <1>2, <1>4, <1>6 DEF Headed
<1> QED
    BY <1>7 DEF sorted

\* A list that is cut off still has a video's best row before its others.
LEMMA FirstHeaded ==
    ASSUME NEW perVideo, NEW rows, Headed(rows, perVideo), NEW n \in Nat
    PROVE  Headed(FirstRows(rows, n), perVideo)
<1> DEFINE first == FirstRows(rows, n)
           V == AllRows(perVideo)
<1>1. rows \in Seq(V) /\ Len(rows) \in Nat
    BY LenProperties DEF Headed
<1>2. /\ first \in Seq(V) /\ Len(first) <= Len(rows)
      /\ \A i \in 1..Len(first) : first[i] = rows[i]
    <2> HIDE DEF V
    <2> QED  BY <1>1, FirstRowsOf DEF V
<1> HIDE DEF first
<1>3. Len(first) \in Nat
    BY <1>2, LenProperties
<1>4. ASSUME NEW i \in 1..Len(first) PROVE HeadedAt(first, i, perVideo)
    <2>1. i \in 1..Len(rows)
        BY <1>1, <1>2, <1>3
    <2>2. PICK k \in DOMAIN perVideo, j \in 1..i :
              /\ Len(perVideo[k]) >= 1
              /\ rows[j] = perVideo[k][1]
              /\ rows[i].video = rows[j].video
              /\ rows[i].score <= rows[j].score
        BY <2>1 DEF Headed, HeadedAt
    <2>3. j \in 1..Len(first)
        BY <1>3
    <2>4. first[j] = rows[j] /\ first[i] = rows[i]
        BY <1>2, <2>3
    <2> QED
        BY <2>2, <2>4 DEF HeadedAt
<1>5. Headed(first, perVideo)
    BY <1>2, <1>4 DEF Headed
<1> QED
    BY <1>5 DEF first

\* The first row of a video in such a list is the best the video has.
LEMMA FirstOfHeaded ==
    ASSUME NEW perVideo, NEW ids, NEW c, IsPerVideo(perVideo, ids, c),
           NEW rows, Headed(rows, perVideo),
           NEW k \in 1..c, NEW i \in 1..Len(rows), rows[i].video = ids[k]
    PROVE  Len(perVideo[k]) >= 1 /\ FirstOf(rows, ids[k]) = perVideo[k][1]
<1> DEFINE n == Len(rows)
           S == {j \in 1..n : rows[j].video = ids[k]}
           IsFirst(j) == rows[j].video = ids[k] /\ \A h \in 1..(j - 1) : rows[h].video # ids[k]
           first == CHOOSE j \in DOMAIN rows : IsFirst(j)
<1>1. n \in Nat /\ DOMAIN rows = 1..n
    BY LenProperties DEF Headed
<1>2. \E j \in DOMAIN rows : IsFirst(j)
    <2>1. S \in SUBSET Nat /\ S # {}
        OBVIOUS
    <2>2. PICK j \in S : \A b \in S : j <= b
        <3> HIDE DEF S
        <3> QED  BY <2>1, LeastNumber
    <2>3. \A h \in 1..(j - 1) : rows[h].video # ids[k]
        <3> SUFFICES ASSUME NEW h \in 1..(j - 1), rows[h].video = ids[k] PROVE FALSE
            OBVIOUS
        <3>1. h \in S
            BY <1>1, <2>2
        <3>2. j <= h
            BY <2>2, <3>1
        <3> QED
            BY <1>1, <2>2, <3>2
    <2> QED
        BY <1>1, <2>2, <2>3
<1>3. first \in DOMAIN rows /\ IsFirst(first)
    <2> HIDE DEF IsFirst
    <2> QED  BY <1>2
<1>4. FirstOf(rows, ids[k]) = rows[first]
    BY DEF FirstOf
<1> HIDE DEF first
<1>5. first \in 1..n /\ first \in Nat
    BY <1>1, <1>3
<1>6. PICK l \in DOMAIN perVideo, j \in 1..first :
          /\ Len(perVideo[l]) >= 1
          /\ rows[j] = perVideo[l][1]
          /\ rows[first].video = rows[j].video
    BY <1>5 DEF Headed, HeadedAt
<1>7. j = first
    BY <1>3, <1>5, <1>6
<1>8. l \in 1..c /\ Len(perVideo[l]) \in Nat
    BY <1>6 DEF IsPerVideo
<1>9. 1 \in 1..Len(perVideo[l])
    BY <1>6, <1>8
<1>10. perVideo[l][1].video = ids[l]
    BY <1>8, <1>9 DEF IsPerVideo
<1>11. ids[l] = ids[k]
    BY <1>3, <1>6, <1>10
<1>12. l = k
    BY <1>8, <1>11 DEF IsPerVideo
<1> QED
    BY <1>4, <1>6, <1>7, <1>12

-----------------------------------------------------------------------------
(* The two ways of filling the result keep each video's best row first.     *)

\* So has the empty list.
LEMMA NothingHeaded ==
    ASSUME NEW perVideo
    PROVE  Headed(<<>>, perVideo)
<1>1. Len(<<>>) = 0 /\ <<>> \in Seq(AllRows(perVideo))
    BY EmptySeq
<1> QED
    BY <1>1 DEF Headed

\* Every video that has rows has its best among these.
HasHeads(rows, perVideo) ==
    \A k \in DOMAIN perVideo : Len(perVideo[k]) >= 1 =>
        \E j \in 1..Len(rows) : rows[j] = perVideo[k][1]

OnlyHeads(rows, perVideo) ==
    \A i \in 1..Len(rows) : \E k \in DOMAIN perVideo :
        Len(perVideo[k]) >= 1 /\ rows[i] = perVideo[k][1]

BestLeads(rows) == \A j \in 1..Len(rows) : rows[j].score <= rows[1].score

\* No video has a better row than the first.
TopFirst(rows, perVideo) ==
    \A k \in DOMAIN perVideo : Len(perVideo[k]) >= 1 =>
        Len(rows) >= 1 /\ perVideo[k][1].score <= rows[1].score

\* The first of the sorted rows has the best score.
LEMMA SortedLeads ==
    ASSUME NEW V, NEW rows \in Seq(V), \A row \in V : row.score \in Int
    PROVE  BestLeads(ByScore(rows))
<1> DEFINE n == Len(rows)
           sorted == ByScore(rows)
<1>1. n \in Nat /\ \A i \in 1..n : rows[i] \in V
    BY LenProperties, ElementOfSeq
<1>2. PICK order : SortedFrom(sorted, rows, order)
    BY ByScoreIs
<1> HIDE DEF sorted
<1>3. /\ Len(sorted) = n
      /\ \A k \in 1..n : order[k] \in 1..n /\ sorted[k] = rows[order[k]]
      /\ \A j, k \in 1..n : j < k <=> \/ rows[order[j]].score > rows[order[k]].score
                                      \/ /\ rows[order[j]].score = rows[order[k]].score
                                         /\ order[j] < order[k]
    BY <1>2 DEF SortedFrom
<1>4. ASSUME NEW j \in 1..n PROVE sorted[j].score <= sorted[1].score
    <2>1. 1 \in 1..n
        BY <1>1
    <2>2. sorted[1] \in V /\ sorted[j] \in V
        BY <1>1, <1>3, <2>1
    <2>3. sorted[1].score \in Int /\ sorted[j].score \in Int
        BY <2>2
    <2>4. CASE j = 1
        BY <2>3, <2>4
    <2>5. CASE 1 < j
        BY <1>3, <2>1, <2>3, <2>5
    <2> QED  BY <1>1, <2>4, <2>5
<1> QED
    BY <1>3, <1>4 DEF BestLeads, sorted

\* A list that holds every video's best row, best scores first, starts with the best of them.
LEMMA HeadsOnTop ==
    ASSUME NEW perVideo, NEW rows, HasHeads(rows, perVideo), BestLeads(rows), Len(rows) \in Nat
    PROVE  TopFirst(rows, perVideo)
<1> SUFFICES ASSUME NEW k \in DOMAIN perVideo, Len(perVideo[k]) >= 1
             PROVE  Len(rows) >= 1 /\ perVideo[k][1].score <= rows[1].score
    BY DEF TopFirst
<1>1. PICK j \in 1..Len(rows) : rows[j] = perVideo[k][1]
    BY DEF HasHeads
<1> QED
    BY <1>1 DEF BestLeads

\* Sorting keeps every video's best row.
LEMMA SortedHasHeads ==
    ASSUME NEW perVideo, NEW V, NEW rows \in Seq(V), \A row \in V : row.score \in Int,
           HasHeads(rows, perVideo)
    PROVE  HasHeads(ByScore(rows), perVideo)
<1> DEFINE n == Len(rows)
           sorted == ByScore(rows)
<1>1. PICK order : SortedFrom(sorted, rows, order)
    BY ByScoreIs
<1> HIDE DEF sorted
<1>2. /\ Len(sorted) = n
      /\ \A k \in 1..n : sorted[k] = rows[order[k]]
      /\ \A i \in 1..n : \E k \in 1..n : order[k] = i
    BY <1>1 DEF SortedFrom
<1>3. ASSUME NEW i \in 1..n PROVE \E k \in 1..Len(sorted) : sorted[k] = rows[i]
    <2>1. PICK k \in 1..n : order[k] = i
        BY <1>2
    <2>2. k \in 1..Len(sorted) /\ sorted[k] = rows[i]
        BY <1>2, <2>1
    <2> QED  BY <2>2
<1>4. HasHeads(sorted, perVideo)
    BY <1>3 DEF HasHeads
<1> QED
    BY <1>4 DEF sorted

\* The rows of each video are a list that begins with its best.
LEMMA VideoRowsHeaded ==
    ASSUME NEW perVideo, NEW ids, NEW c, IsPerVideo(perVideo, ids, c), NEW k \in 1..c
    PROVE  Headed(perVideo[k], perVideo)
<1> DEFINE rows == perVideo[k]
           n == Len(perVideo[k])
           V == AllRows(perVideo)
<1>1. /\ n \in Nat /\ DOMAIN rows = 1..n
      /\ rows = [i \in 1..n |-> rows[i]]
      /\ \A i \in 1..n : /\ rows[i].video = ids[k]
                         /\ rows[i].score \in Int
                         /\ rows[i].score <= rows[1].score
      /\ k \in DOMAIN perVideo
    BY DEF IsPerVideo
<1>2. \A i \in 1..n : rows[i] \in V
    BY <1>1 DEF AllRows
<1>3. rows \in Seq(V)
    <2> HIDE DEF V, rows
    <2> QED  BY <1>1, <1>2, ListOf
<1>4. ASSUME NEW i \in 1..n PROVE HeadedAt(rows, i, perVideo)
    <2>1. 1 \in 1..i /\ n >= 1 /\ 1 \in 1..n
        BY <1>1
    <2>2. rows[1] = perVideo[k][1] /\ rows[i].video = rows[1].video
        BY <1>1, <2>1
    <2> HIDE DEF rows
    <2> QED  BY <1>1, <2>1, <2>2 DEF HeadedAt
<1> QED
    BY <1>3, <1>4 DEF Headed

\* The rows of the videos are lists of rows with a score.
LEMMA RowsAreLists ==
    ASSUME NEW perVideo, NEW ids, NEW c, IsPerVideo(perVideo, ids, c)
    PROVE  /\ perVideo \in Seq(Seq(AllRows(perVideo))) /\ Len(perVideo) = c
           /\ \A row \in AllRows(perVideo) : row.score \in Int
<1> DEFINE V == AllRows(perVideo)
<1>1. \A k \in 1..c : perVideo[k] \in Seq(V)
    BY VideoRowsHeaded DEF Headed
<1>2. c \in Nat /\ perVideo = [k \in 1..c |-> perVideo[k]]
    BY DEF IsPerVideo
<1>3. \A row \in V : row.score \in Int
    BY RowFromVideo
<1> HIDE DEF V
<1>4. perVideo \in Seq(Seq(V)) /\ Len(perVideo) = c
    BY <1>1, <1>2, ListOf
<1> QED
    BY <1>3, <1>4 DEF V

\* One video after the other.
LEMMA VideosHeaded ==
    ASSUME NEW perVideo, NEW ids, NEW c, IsPerVideo(perVideo, ids, c)
    PROVE  Headed(FlattenSeq(perVideo), perVideo) /\ HasHeads(FlattenSeq(perVideo), perVideo)
<1> DEFINE V == AllRows(perVideo)
           HeadsTo(rows, n) ==
               \A k \in 1..n : Len(perVideo[k]) >= 1 =>
                   \E j \in 1..Len(rows) : rows[j] = perVideo[k][1]
           OK(rows, n) == Headed(rows, perVideo) /\ HeadsTo(rows, n)
<1>1. perVideo \in Seq(Seq(V)) /\ Len(perVideo) = c /\ c \in Nat
    <2>1. perVideo \in Seq(Seq(V)) /\ Len(perVideo) = c
        BY RowsAreLists
    <2>2. c \in Nat
        BY DEF IsPerVideo
    <2> HIDE DEF V
    <2> QED  BY <2>1, <2>2
<1>2. PICK f : JoinsUp(f, perVideo, V) /\ FlattenSeq(perVideo) = f[c]
    <2> HIDE DEF V
    <2>1. \E f : JoinsUp(f, perVideo, V) /\ FlattenSeq(perVideo) = f[Len(perVideo)]
        BY <1>1, FlattenIs
    <2> QED  BY <1>1, <2>1
<1>3. f[0] = <<>> /\ \A n \in 1..c : f[n] = f[n - 1] \o perVideo[n]
    BY <1>1, <1>2 DEF JoinsUp
<1> DEFINE Bad == {n \in 0..c : ~OK(f[n], n)}
<1>4. Bad = {}
    <2>1. SUFFICES ASSUME Bad # {} PROVE FALSE
        OBVIOUS
    <2>2. PICK n \in Bad : \A b \in Bad : n <= b
        <3>1. Bad \in SUBSET Nat
            OBVIOUS
        <3> HIDE DEF Bad
        <3> QED  BY <2>1, <3>1, LeastNumber
    <2>3. n \in 0..c /\ ~OK(f[n], n)
        BY <2>2
    <2>4. n # 0
        <3>1. HeadsTo(f[0], 0)
            OBVIOUS
        <3>2. OK(f[0], 0)
            BY <1>3, <3>1, NothingHeaded
        <3> HIDE DEF OK
        <3> QED  BY <2>3, <3>2
    <2>5. n \in 1..c /\ n - 1 \in 0..c
        BY <1>1, <2>3, <2>4
    <2>6. n - 1 \notin Bad
        <3> HIDE DEF Bad
        <3> QED  BY <1>1, <2>2, <2>3
    <2>7. Headed(f[n - 1], perVideo)
        BY <2>5, <2>6
    <2>8. Headed(perVideo[n], perVideo)
        BY <2>5, VideoRowsHeaded
    <2>9. Headed(f[n - 1] \o perVideo[n], perVideo)
        BY <2>7, <2>8, JoinTwoHeaded
    <2> DEFINE rows == f[n - 1]
               more == perVideo[n]
    <2>10. f[n] = rows \o more
        BY <1>3, <2>5
    <2>11. /\ rows \in Seq(V) /\ more \in Seq(V)
           /\ Len(rows) \in Nat /\ Len(more) \in Nat
        BY <2>7, <2>8, LenProperties DEF Headed
    <2>12. HeadsTo(rows, n - 1)
        <3>1. OK(f[n - 1], n - 1)
            BY <2>5, <2>6
        <3> QED  BY <3>1
    <2> HIDE DEF V, rows, more
    <2>13. /\ Len(f[n]) = Len(rows) + Len(more)
           /\ \A j \in 1..(Len(rows) + Len(more)) :
                 f[n][j] = IF j <= Len(rows) THEN rows[j] ELSE more[j - Len(rows)]
        BY <2>10, <2>11, ConcatProperties
    <2>14. ASSUME NEW k \in 1..n, Len(perVideo[k]) >= 1
           PROVE  \E j \in 1..Len(f[n]) : f[n][j] = perVideo[k][1]
        <3>1. CASE k = n
            <4>1. Len(more) >= 1 /\ perVideo[k][1] = more[1]
                BY <2>14, <3>1 DEF more
            <4>2. Len(rows) + 1 \in 1..(Len(rows) + Len(more))
                BY <2>11, <4>1
            <4>3. f[n][Len(rows) + 1] = more[(Len(rows) + 1) - Len(rows)]
                BY <2>11, <2>13, <4>2
            <4>4. (Len(rows) + 1) - Len(rows) = 1
                BY <2>11
            <4> QED  BY <2>13, <4>1, <4>2, <4>3, <4>4
        <3>2. CASE k # n
            <4>1. k \in 1..(n - 1)
                BY <2>5, <3>2
            <4>2. PICK j \in 1..Len(rows) : rows[j] = perVideo[k][1]
                BY <2>12, <2>14, <4>1
            <4>3. j \in 1..(Len(rows) + Len(more)) /\ f[n][j] = rows[j]
                BY <2>11, <2>13
            <4> QED  BY <2>13, <4>2, <4>3
        <3> QED  BY <3>1, <3>2
    <2>15. Headed(f[n], perVideo)
        BY <2>9, <2>10 DEF rows, more
    <2> QED
        BY <2>3, <2>14, <2>15
<1>5. Headed(f[c], perVideo) /\ HasHeads(f[c], perVideo)
    <2>1. OK(f[c], c)
        <3>1. c \in 0..c
            BY <1>1
        <3> HIDE DEF OK
        <3> QED  BY <1>4, <3>1
    <2>2. DOMAIN perVideo = 1..c
        BY DEF IsPerVideo
    <2> QED
        BY <2>1, <2>2 DEF HasHeads
<1> QED
    BY <1>2, <1>5

\* Rows put behind a list leave its start as it is.
LEMMA JoinHasHeads ==
    ASSUME NEW perVideo, NEW V, NEW rows \in Seq(V), NEW more \in Seq(V), HasHeads(rows, perVideo)
    PROVE  /\ HasHeads(rows \o more, perVideo)
           /\ TopFirst(rows, perVideo) => TopFirst(rows \o more, perVideo)
<1> DEFINE both == rows \o more
<1>1. Len(rows) \in Nat /\ Len(more) \in Nat
    BY LenProperties
<1>2. /\ Len(both) = Len(rows) + Len(more)
      /\ \A j \in 1..(Len(rows) + Len(more)) :
            both[j] = IF j <= Len(rows) THEN rows[j] ELSE more[j - Len(rows)]
    BY ConcatProperties
<1> HIDE DEF both
<1>3. \A j \in 1..Len(rows) : j \in 1..Len(both) /\ both[j] = rows[j]
    BY <1>1, <1>2
<1>4. HasHeads(both, perVideo)
    BY <1>3 DEF HasHeads
<1>5. TopFirst(rows, perVideo) => TopFirst(both, perVideo)
    <2> SUFFICES ASSUME TopFirst(rows, perVideo), NEW k \in DOMAIN perVideo,
                        Len(perVideo[k]) >= 1
                 PROVE  Len(both) >= 1 /\ perVideo[k][1].score <= both[1].score
        BY DEF TopFirst
    <2>1. Len(rows) >= 1 /\ perVideo[k][1].score <= rows[1].score
        BY DEF TopFirst
    <2>2. 1 \in 1..Len(rows)
        BY <1>1, <2>1
    <2> QED
        BY <1>1, <1>2, <1>3, <2>1, <2>2
<1> QED
    BY <1>4, <1>5 DEF both

\* The rows of one level are rows of the videos; those of the first, their best.
LEMMA LevelIs ==
    ASSUME NEW perVideo, NEW ids, NEW c, IsPerVideo(perVideo, ids, c), NEW level \in Nat \ {0}
    PROVE  /\ Level(perVideo, level) \in Seq(AllRows(perVideo))
           /\ level = 1 => /\ HasHeads(Level(perVideo, level), perVideo)
                           /\ OnlyHeads(Level(perVideo, level), perVideo)
                           /\ TopFirst(Level(perVideo, level), perVideo)
<1> DEFINE S == {k \in DOMAIN perVideo : Len(perVideo[k]) >= level}
           having == InOrder(S)
           n == Cardinality(S)
           rows == [i \in DOMAIN having |-> perVideo[having[i]][level]]
           V == AllRows(perVideo)
           sorted == Level(perVideo, level)
<1>1. c \in Nat /\ DOMAIN perVideo = 1..c /\ \A k \in 1..c : Len(perVideo[k]) \in Nat
    BY DEF IsPerVideo
<1>2. S \in SUBSET Int /\ IsFiniteSet(S)
    <2>1. S \in SUBSET (1..c)
        BY <1>1
    <2>2. IsFiniteSet(1..c)
        BY <1>1, FS_Interval
    <2>3. c \in Nat
        BY <1>1
    <2>4. IsFiniteSet(S)
        <3> HIDE DEF S
        <3> QED  BY <2>1, <2>2, FS_Subset
    <2>5. S \in SUBSET Int
        <3> HIDE DEF S
        <3> QED  BY <2>1, <2>3
    <2> QED  BY <2>4, <2>5
<1>3. /\ n \in Nat
      /\ having \in [1..n -> S]
      /\ \A a \in S : \E i \in 1..n : having[i] = a
    <2> HIDE DEF S
    <2> QED  BY <1>2, NumbersInOrder
<1>4. sorted = ByScore(rows)
    BY DEF Level
<1> HIDE DEF having, n, sorted
<1>5. \A k \in S : perVideo[k][level] \in V
    <2> SUFFICES ASSUME NEW k \in S PROVE perVideo[k][level] \in V
        OBVIOUS
    <2>1. k \in DOMAIN perVideo /\ level \in 1..Len(perVideo[k])
        BY <1>1
    <2> QED
        BY <2>1 DEF AllRows
<1>6. rows = [i \in 1..n |-> perVideo[having[i]][level]]
    BY <1>3
<1>7. rows \in Seq(V) /\ Len(rows) = n
    <2>1. \A i \in 1..n : having[i] \in S
        BY <1>3
    <2>2. rows = [i \in 1..n |-> rows[i]] /\ \A i \in 1..n : rows[i] \in V
        <3> HIDE DEF V, S
        <3> QED  BY <1>5, <1>6, <2>1
    <2> HIDE DEF V, rows
    <2> QED  BY <1>3, <2>2, ListOf
<1>8. \A row \in V : row.score \in Int
    BY RowsAreLists
<1>9. sorted \in Seq(V) /\ \E order : SortedFrom(sorted, rows, order)
    <2> HIDE DEF V, rows
    <2> QED  BY <1>4, <1>7, <1>8, ByScoreIs
<1>10. PICK order : SortedFrom(sorted, rows, order)
    BY <1>9
<1>11. /\ Len(sorted) = n
       /\ \A k \in 1..n : order[k] \in 1..n /\ sorted[k] = rows[order[k]]
       /\ \A i \in 1..n : \E k \in 1..n : order[k] = i
    <2> HIDE DEF rows
    <2> QED  BY <1>7, <1>10 DEF SortedFrom
<1>12. ASSUME level = 1 PROVE HasHeads(sorted, perVideo)
    <2> SUFFICES ASSUME NEW k \in DOMAIN perVideo, Len(perVideo[k]) >= 1
                 PROVE  \E j \in 1..Len(sorted) : sorted[j] = perVideo[k][1]
        BY DEF HasHeads
    <2>1. k \in S
        BY <1>12
    <2>2. PICK i \in 1..n : having[i] = k
        <3> HIDE DEF S
        <3> QED  BY <1>3, <2>1
    <2>3. PICK j \in 1..n : order[j] = i
        BY <1>11, <2>2
    <2>4. rows[i] = perVideo[k][1]
        <3>1. rows[i] = perVideo[having[i]][level]
            BY <1>6, <2>2
        <3> QED
            BY <1>12, <2>2, <3>1
    <2>5. sorted[j] = perVideo[k][1]
        <3> HIDE DEF rows
        <3> QED  BY <1>11, <2>3, <2>4
    <2> QED
        BY <1>11, <2>5
<1>13. ASSUME level = 1 PROVE OnlyHeads(sorted, perVideo)
    <2> SUFFICES ASSUME NEW j \in 1..n
                 PROVE  \E k \in DOMAIN perVideo :
                            Len(perVideo[k]) >= 1 /\ sorted[j] = perVideo[k][1]
        BY <1>11 DEF OnlyHeads
    <2>1. order[j] \in 1..n /\ sorted[j] = rows[order[j]]
        <3> HIDE DEF rows
        <3> QED  BY <1>11
    <2>2. sorted[j] = perVideo[having[order[j]]][1]
        <3>1. rows[order[j]] = perVideo[having[order[j]]][level]
            BY <1>6, <2>1
        <3> HIDE DEF rows
        <3> QED  BY <1>13, <2>1, <3>1
    <2>3. having[order[j]] \in S
        <3> HIDE DEF S
        <3> QED  BY <1>3, <2>1
    <2>4. having[order[j]] \in DOMAIN perVideo /\ Len(perVideo[having[order[j]]]) >= 1
        BY <1>13, <2>3
    <2> QED
        BY <2>2, <2>4
<1>14. ASSUME level = 1 PROVE TopFirst(sorted, perVideo)
    <2>1. BestLeads(sorted)
        <3> HIDE DEF V, rows
        <3> QED  BY <1>4, <1>7, <1>8, SortedLeads
    <2>2. Len(sorted) \in Nat
        BY <1>3, <1>11
    <2> QED
        BY <1>12, <1>14, <2>1, <2>2, HeadsOnTop
<1> QED
    BY <1>9, <1>12, <1>13, <1>14 DEF sorted

\* Level after level.
LEMMA LevelsHeaded ==
    ASSUME NEW perVideo, NEW ids, NEW c, IsPerVideo(perVideo, ids, c), NEW depth \in Nat \ {0}
    PROVE  /\ Headed(FlattenSeq([level \in 1..depth |-> Level(perVideo, level)]), perVideo)
           /\ TopFirst(FlattenSeq([level \in 1..depth |-> Level(perVideo, level)]), perVideo)
<1> DEFINE V == AllRows(perVideo)
           levels == [level \in 1..depth |-> Level(perVideo, level)]
           OK(rows) == /\ Headed(rows, perVideo) /\ HasHeads(rows, perVideo)
                       /\ TopFirst(rows, perVideo)
<1>1. \A n \in 1..depth : levels[n] \in Seq(V)
    <2>1. \A n \in 1..depth : levels[n] = Level(perVideo, n) /\ n \in Nat \ {0}
        OBVIOUS
    <2> HIDE DEF levels
    <2> QED  BY <2>1, LevelIs
<1>2. levels[1] = Level(perVideo, 1) /\ levels = [n \in 1..depth |-> levels[n]]
    <2>1. 1 \in 1..depth
        OBVIOUS
    <2> QED  BY <2>1
<1> HIDE DEF levels
<1>3. levels \in Seq(Seq(V)) /\ Len(levels) = depth
    <2> HIDE DEF V
    <2> QED  BY <1>1, <1>2, ListOf
<1>4. PICK f : JoinsUp(f, levels, V) /\ FlattenSeq(levels) = f[depth]
    <2> HIDE DEF V
    <2>1. \E f : JoinsUp(f, levels, V) /\ FlattenSeq(levels) = f[Len(levels)]
        BY <1>3, FlattenIs
    <2> QED  BY <1>3, <2>1
<1>5. f[0] = <<>> /\ \A n \in 1..depth : f[n] = f[n - 1] \o levels[n]
    BY <1>3, <1>4 DEF JoinsUp
<1>6. OK(f[1])
    <2>1. /\ levels[1] \in Seq(V) /\ HasHeads(levels[1], perVideo)
          /\ TopFirst(levels[1], perVideo)
        <3>1. HasHeads(Level(perVideo, 1), perVideo) /\ TopFirst(Level(perVideo, 1), perVideo)
            BY LevelIs
        <3> QED  BY <1>1, <1>2, <3>1
    <2>2. f[1] = levels[1]
        <3>1. 1 \in 1..depth
            OBVIOUS
        <3>2. f[1] = f[1 - 1] \o levels[1]
            BY <1>5, <3>1
        <3>3. f[1 - 1] = <<>>
            BY <1>5
        <3>4. f[1] = <<>> \o levels[1]
            BY <3>2, <3>3
        <3> HIDE DEF V
        <3> QED  BY <2>1, <3>4, ConcatEmptySeq
    <2>3. ASSUME NEW i \in 1..Len(levels[1]) PROVE HeadedAt(levels[1], i, perVideo)
        <3>1. OnlyHeads(levels[1], perVideo)
            <4>1. OnlyHeads(Level(perVideo, 1), perVideo)
                BY LevelIs
            <4> QED  BY <1>2, <4>1
        <3>2. PICK k \in DOMAIN perVideo : levels[1][i] = perVideo[k][1] /\ Len(perVideo[k]) >= 1
            BY <3>1 DEF OnlyHeads
        <3>3. levels[1][i].score \in Int
            <4>1. levels[1][i] \in V
                <5> HIDE DEF V
                <5> QED  BY <2>1, ElementOfSeq
            <4> QED  BY <4>1, RowsAreLists
        <3>4. i \in 1..i
            OBVIOUS
        <3> QED
            BY <3>2, <3>3, <3>4 DEF HeadedAt
    <2> QED
        BY <2>1, <2>2, <2>3 DEF Headed
<1> DEFINE Bad == {n \in 1..depth : ~OK(f[n])}
<1>7. Bad = {}
    <2>1. SUFFICES ASSUME Bad # {} PROVE FALSE
        OBVIOUS
    <2>2. PICK n \in Bad : \A b \in Bad : n <= b
        <3>1. Bad \in SUBSET Nat
            OBVIOUS
        <3> HIDE DEF Bad
        <3> QED  BY <2>1, <3>1, LeastNumber
    <2>3. n \in 1..depth /\ ~OK(f[n])
        BY <2>2
    <2>4. n # 1
        <3> HIDE DEF OK
        <3> QED  BY <1>6, <2>3
    <2>5. n - 1 \in 1..depth
        BY <2>3, <2>4
    <2>6. n - 1 \notin Bad
        <3> HIDE DEF Bad
        <3> QED  BY <2>2, <2>3
    <2>7. OK(f[n - 1])
        BY <2>5, <2>6
    <2>8. f[n] = f[n - 1] \o levels[n] /\ levels[n] \in Seq(V)
        BY <1>1, <1>5, <2>3
    <2>9. ASSUME NEW i \in 1..Len(levels[n])
          PROVE  \E k \in DOMAIN perVideo, j \in 1..Len(f[n - 1]) :
                     /\ Len(perVideo[k]) >= 1
                     /\ f[n - 1][j] = perVideo[k][1]
                     /\ levels[n][i].video = f[n - 1][j].video
                     /\ levels[n][i].score <= f[n - 1][j].score
        <3>1. levels[n][i] \in V
            <4> HIDE DEF V
            <4> QED  BY <2>8, ElementOfSeq
        <3>2. PICK k \in 1..c : /\ Len(perVideo[k]) >= 1
                                /\ levels[n][i].video = perVideo[k][1].video
                                /\ levels[n][i].score <= perVideo[k][1].score
            BY <3>1, RowFromVideo
        <3>3. k \in DOMAIN perVideo
            BY DEF IsPerVideo
        <3>4. PICK j \in 1..Len(f[n - 1]) : f[n - 1][j] = perVideo[k][1]
            BY <2>7, <3>2, <3>3 DEF HasHeads
        <3> QED
            BY <3>2, <3>3, <3>4
    <2>10. Headed(f[n - 1] \o levels[n], perVideo)
        BY <2>7, <2>8, <2>9, JoinHeaded
    <2>11. /\ HasHeads(f[n - 1] \o levels[n], perVideo)
           /\ TopFirst(f[n - 1] \o levels[n], perVideo)
        <3>1. /\ f[n - 1] \in Seq(V) /\ HasHeads(f[n - 1], perVideo)
              /\ TopFirst(f[n - 1], perVideo)
            BY <2>7 DEF Headed
        <3> HIDE DEF V
        <3> QED  BY <2>8, <3>1, JoinHasHeads
    <2> QED
        BY <2>3, <2>8, <2>10, <2>11
<1>8. Headed(f[depth], perVideo) /\ TopFirst(f[depth], perVideo)
    <2>1. depth \in 1..depth
        OBVIOUS
    <2> QED  BY <1>7, <2>1
<1> QED
    BY <1>4, <1>8 DEF levels

-----------------------------------------------------------------------------
(* What EventTrail decodes again from a snapshot.                           *)

\* The settings that travel with a snapshot decode to the same best path,
\* however many rows the search asked for.
LEMMA SameFirstPath ==
    ASSUME NEW video, NEW n, NEW k, IsVideo(video, n, k), NEW d, d.gap \in Int,
           Unit \in Nat \ {0}, NEW limit \in Nat \ {0},
           AlignVideo(video, d, limit) # <<>>
    PROVE  AlignVideo(video, Wire(d), 1)[1] = AlignVideo(video, d, limit)[1]
<1> DEFINE w == Wire(d)
           shown == AlignVideo(video, d, limit)
           again == AlignVideo(video, w, 1)
           table == TableFor(video, d)
           last == Last(table)
<1>1. w.gap = d.gap /\ w.power = d.power /\ w.delta = d.delta
    BY DEF Wire
<1> HIDE DEF w
<1>2. Prepared(video, w) = Prepared(video, d)
    BY <1>1 DEF Prepared
<1>3. TableFor(video, w) = table
    BY <1>1, <1>2 DEF TableFor
<1>4. Aligned(shown, video, d)
    BY AlignedIs
<1>5. Aligned(again, video, w)
    <2>1. 1 \in Nat \ {0} /\ w.gap \in Int
        BY <1>1
    <2> QED  BY <2>1, AlignedIs
<1> HIDE DEF shown, again, table
<1>6. Prepared(video, d).ready
    BY <1>4 DEF Aligned, shown
<1>7. RowsOf(shown, video, table)
    BY <1>4, <1>6 DEF Aligned, table
<1>8. RowsOf(again, video, table)
    BY <1>2, <1>3, <1>5, <1>6 DEF Aligned, table
<1>9. DOMAIN last # {}
    BY <1>7 DEF RowsOf, shown
<1>10. shown[1] = Row(video, table, Endpoints(last)[1])
    BY <1>7, <1>9 DEF RowsOf
<1>11. again[1] = Row(video, table, Endpoints(last)[1])
    BY <1>8, <1>9 DEF RowsOf
<1> QED
    BY <1>10, <1>11 DEF shown, again, w

\* Rows of one video, the best of them first.
RowsWell(rows, video) ==
    /\ Len(rows) \in Nat /\ DOMAIN rows = 1..Len(rows)
    /\ rows = [i \in 1..Len(rows) |-> rows[i]]
    /\ \A i \in 1..Len(rows) : /\ rows[i].video = video.video
                               /\ rows[i].score \in Int
                               /\ rows[i].score <= rows[1].score

\* The best row of a table leads the rows read off it.
LEMMA BestRowsWell ==
    ASSUME NEW video, NEW table, NEW separation, NEW limit, NEW rows,
           \/ rows = <<>>
           \/ /\ rows = BestRows(video, table, separation, limit)
              /\ RowsOf(rows, video, table)
    PROVE  RowsWell(rows, video)
<1>1. CASE rows = <<>>
    <2>1. Len(rows) = 0 /\ DOMAIN rows = 1..0 /\ rows = [i \in 1..0 |-> rows[i]]
        BY <1>1
    <2> QED
        BY <2>1 DEF RowsWell
<1>2. CASE rows # <<>>
    <2>1. DOMAIN Last(table) # {} /\ RowsOf(rows, video, table)
        BY <1>2 DEF RowsOf
    <2>2. /\ Len(rows) \in Nat /\ DOMAIN rows = 1..Len(rows)
          /\ \A i \in 1..Len(rows) : /\ rows[i].video = video.video
                                     /\ rows[i].score \in Int
                                     /\ rows[i].score <= rows[1].score
        BY <2>1 DEF RowsOf
    <2>3. rows = [i \in DOMAIN rows |-> rows[i]]
        <3> DEFINE kept == KeptEndpoints(video, table, separation, limit)
                   best == [i \in DOMAIN kept |-> Row(video, table, kept[i])]
        <3>1. rows = best
            BY <1>2, TableIsItself DEF BestRows, RowsFrom
        <3>2. best = [i \in DOMAIN best |-> best[i]]
            OBVIOUS
        <3> HIDE DEF best
        <3> QED
            BY <3>1, <3>2
    <2> QED
        BY <2>2, <2>3 DEF RowsWell
<1> QED
    BY <1>1, <1>2

\* The best row of a video leads the rows of the static decoder.
LEMMA AlignedWell ==
    ASSUME NEW video, NEW n, NEW k, IsVideo(video, n, k), NEW d, d.gap \in Int,
           Unit \in Nat \ {0}, NEW limit \in Nat \ {0}
    PROVE  RowsWell(AlignVideo(video, d, limit), video)
<1> DEFINE rows == AlignVideo(video, d, limit)
           table == TableFor(video, d)
<1>1. Aligned(rows, video, d)
    BY AlignedIs
<1>2. rows = IF Prepared(video, d).ready THEN BestRows(video, table, d.separation, limit)
             ELSE <<>>
    BY DEF AlignVideo, AlignPrepared, TableFor
<1> HIDE DEF rows
<1>3. \/ rows = <<>>
      \/ rows = BestRows(video, table, d.separation, limit) /\ RowsOf(rows, video, table)
    BY <1>1, <1>2 DEF Aligned
<1> HIDE DEF table
<1>4. RowsWell(rows, video)
    BY <1>3, BestRowsWell
<1> QED
    BY <1>4 DEF rows

\* Such rows of distinct videos, in a list.
LEMMA WellPerVideo ==
    ASSUME NEW videos, NEW n, NEW k, AreVideos(videos, n, k),
           NEW perVideo, perVideo = [v \in DOMAIN videos |-> perVideo[v]],
           \A v \in DOMAIN videos : RowsWell(perVideo[v], videos[v])
    PROVE  IsPerVideo(perVideo, [v \in DOMAIN videos |-> videos[v].video], Len(videos))
<1> DEFINE c == Len(videos)
           ids == [v \in DOMAIN videos |-> videos[v].video]
<1>1. c \in Nat /\ DOMAIN videos = 1..c
    BY DEF AreVideos
<1>2. /\ \A v \in 1..c : ids[v] = videos[v].video
      /\ DOMAIN perVideo = 1..c /\ perVideo = [v \in 1..c |-> perVideo[v]]
    BY <1>1
<1>3. \A u, v \in 1..c : ids[u] = ids[v] => u = v
    BY <1>2 DEF AreVideos
<1>4. \A v \in 1..c : RowsWell(perVideo[v], videos[v])
    BY <1>1
<1> HIDE DEF ids, c
<1>5. IsPerVideo(perVideo, ids, c)
    BY <1>1, <1>2, <1>3, <1>4 DEF IsPerVideo, RowsWell
<1> QED
    BY <1>5 DEF ids, c

\* The best paths of scored videos are rows of those videos.
LEMMA AlignedPerVideo ==
    ASSUME NEW videos, NEW n, NEW k, AreVideos(videos, n, k), NEW d, d.gap \in Int,
           Unit \in Nat \ {0}, NEW limit \in Nat \ {0}
    PROVE  IsPerVideo([v \in DOMAIN videos |-> AlignVideo(videos[v], d, limit)],
                      [v \in DOMAIN videos |-> videos[v].video], Len(videos))
<1> DEFINE perVideo == [v \in DOMAIN videos |-> AlignVideo(videos[v], d, limit)]
<1>1. \A v \in DOMAIN videos : IsVideo(videos[v], n, k)
    BY DEF AreVideos
<1>2. \A v \in DOMAIN videos : perVideo[v] = AlignVideo(videos[v], d, limit)
    OBVIOUS
<1>3. perVideo = [v \in DOMAIN videos |-> perVideo[v]]
    OBVIOUS
<1> HIDE DEF perVideo
<1>4. \A v \in DOMAIN videos : RowsWell(perVideo[v], videos[v])
    BY <1>1, <1>2, AlignedWell
<1>5. IsPerVideo(perVideo, [v \in DOMAIN videos |-> videos[v].video], Len(videos))
    BY <1>3, <1>4, WellPerVideo
<1> QED
    BY <1>5 DEF perVideo

\* The first rows keep what the first row is.
LEMMA FirstTopFirst ==
    ASSUME NEW perVideo, NEW V, NEW rows \in Seq(V), TopFirst(rows, perVideo), NEW n \in Nat \ {0}
    PROVE  TopFirst(FirstRows(rows, n), perVideo)
<1> DEFINE first == FirstRows(rows, n)
<1>1. \A i \in 1..Len(first) : first[i] = rows[i]
    BY FirstRowsOf
<1>2. Len(rows) \in Nat /\ (Len(rows) >= 1 => Len(first) >= 1 /\ Len(first) \in Nat)
    <2>1. Len(rows) \in Nat
        BY LenProperties
    <2> DEFINE e == IF Len(rows) < n THEN Len(rows) ELSE n
    <2>2. e \in Nat /\ e <= Len(rows) /\ (Len(rows) >= 1 => e >= 1)
        BY <2>1
    <2>3. first = SubSeq(rows, 1, e)
        BY DEF FirstRows
    <2>4. Len(rows) >= 1 => Len(first) = e
        <3> SUFFICES ASSUME Len(rows) >= 1 PROVE Len(first) = e
            OBVIOUS
        <3>1. 1 \in 1..Len(rows) /\ e \in 1..Len(rows) /\ 1 <= e
            BY <2>1, <2>2
        <3> HIDE DEF first, e
        <3> QED  BY <2>1, <2>2, <2>3, <3>1, SubSeqProperties
    <2> HIDE DEF first, e
    <2> QED  BY <2>1, <2>2, <2>4
<1> HIDE DEF first
<1>3. TopFirst(first, perVideo)
    BY <1>1, <1>2 DEF TopFirst
<1> QED
    BY <1>3 DEF first

\* Either way of filling the result shows a video's best row first.
LEMMA RankHeaded ==
    ASSUME NEW perVideo, NEW ids, NEW c, IsPerVideo(perVideo, ids, c),
           NEW depth \in Nat \ {0}, NEW d, NEW maxRows \in Nat
    PROVE  /\ Headed(Rank(perVideo, depth, d, maxRows), perVideo)
           /\ maxRows # 0 => TopFirst(Rank(perVideo, depth, d, maxRows), perVideo)
<1> DEFINE V == AllRows(perVideo)
           all == FlattenSeq(perVideo)
           sorted == ByScore(all)
           levels == FlattenSeq([level \in 1..depth |-> Level(perVideo, level)])
<1>1. \A row \in V : row.score \in Int
    BY RowsAreLists
<1>2. Headed(sorted, perVideo) /\ TopFirst(sorted, perVideo)
    <2>1. Headed(all, perVideo) /\ HasHeads(all, perVideo)
        BY VideosHeaded
    <2>2. all \in Seq(V)
        BY <2>1 DEF Headed
    <2> HIDE DEF V, all
    <2>3. HasHeads(sorted, perVideo) /\ BestLeads(sorted)
        BY <1>1, <2>1, <2>2, SortedHasHeads, SortedLeads
    <2>4. Headed(sorted, perVideo)
        BY <1>1, <2>1, SortedHeaded DEF V
    <2>5. Len(sorted) \in Nat
        BY <2>4, LenProperties DEF Headed
    <2> HIDE DEF sorted
    <2> QED
        BY <2>3, <2>4, <2>5, HeadsOnTop
<1>3. Headed(levels, perVideo) /\ TopFirst(levels, perVideo)
    BY LevelsHeaded
<1>4. PICK rows : /\ Headed(rows, perVideo) /\ TopFirst(rows, perVideo)
                  /\ Rank(perVideo, depth, d, maxRows) = FirstRows(rows, maxRows)
    <2>1. Rank(perVideo, depth, d, maxRows)
              = IF d.paths > 1 THEN FirstRows(sorted, maxRows) ELSE FirstRows(levels, maxRows)
        BY DEF Rank
    <2> HIDE DEF sorted, levels
    <2> QED  BY <1>2, <1>3, <2>1
<1>5. rows \in Seq(V)
    BY <1>4 DEF Headed
<1>6. Headed(FirstRows(rows, maxRows), perVideo)
    BY <1>4, FirstHeaded
<1>7. maxRows # 0 => TopFirst(FirstRows(rows, maxRows), perVideo)
    <2> HIDE DEF V
    <2> QED  BY <1>4, <1>5, FirstTopFirst
<1> QED
    BY <1>4, <1>6, <1>7

\* Every video is asked for at least one row.
LEMMA DepthIs ==
    ASSUME NEW videos, NEW n, NEW k, AreVideos(videos, n, k), videos # <<>>,
           NEW d, d.paths \in Nat \ {0}, NEW maxRows \in Nat \ {0}
    PROVE  Depth(videos, d, maxRows) \in Nat \ {0}
<1> DEFINE c == Len(videos)
           share == (maxRows + c - 1) \div c
           depth == Depth(videos, d, maxRows)
<1>1. c \in Nat \ {0}
    <2>1. c # 0
        <3> SUFFICES ASSUME c = 0 PROVE FALSE
            OBVIOUS
        <3>1. videos = [v \in 1..c |-> videos[v]]
            BY DEF AreVideos
        <3>2. 1..0 = {}
            OBVIOUS
        <3>3. videos = [v \in {} |-> videos[v]]
            <4> HIDE DEF c
            <4> QED  BY <3>1, <3>2
        <3>4. <<>> = [v \in {} |-> videos[v]]
            OBVIOUS
        <3> QED  BY <3>3, <3>4
    <2>2. c \in Nat
        BY DEF AreVideos
    <2> QED  BY <2>1, <2>2
<1>2. share \in Int /\ d.paths \in Int
    <2> HIDE DEF c
    <2> QED  BY <1>1
<1>3. depth = Max({d.paths, share})
    BY DEF Depth
<1> HIDE DEF share, depth
<1>4. depth \in {d.paths, share} /\ d.paths <= depth
    BY <1>2, <1>3, PairExtremes
<1>5. depth \in Nat \ {0}
    BY <1>2, <1>4
<1> QED
    BY <1>5 DEF depth

\* Whatever video is shown, the settings that travel find its first row again.
Redecoded(rows, videos, d) ==
    /\ DOMAIN rows = 1..Len(rows)
    /\ \A v \in DOMAIN videos, i \in DOMAIN rows :
           rows[i].video = videos[v].video =>
               AlignVideo(videos[v], Wire(d), 1)[1] = FirstOf(rows, videos[v].video)

\* Whichever way rows are ranked, the first of a video is what decoding the video again finds.
LEMMA RankedRedecodes ==
    ASSUME NEW videos, NEW n, NEW k, AreVideos(videos, n, k), NEW d, d.gap \in Int,
           d.paths \in Nat \ {0}, Unit \in Nat \ {0}, NEW maxRows \in Nat \ {0}
    PROVE  Redecoded(RankPaths(videos, d, maxRows), videos, d)
<1> DEFINE c == Len(videos)
           rows == RankPaths(videos, d, maxRows)
           depth == Depth(videos, d, maxRows)
           perVideo == [v \in DOMAIN videos |-> AlignVideo(videos[v], d, depth)]
           ids == [v \in DOMAIN videos |-> videos[v].video]
<1>1. c \in Nat /\ DOMAIN videos = 1..c
    BY DEF AreVideos
<1>2. CASE videos = <<>>
    <2>1. rows = <<>> /\ DOMAIN videos = {}
        BY <1>2 DEF RankPaths
    <2>2. Len(<<>>) = 0 /\ DOMAIN <<>> = 1..0
        OBVIOUS
    <2> HIDE DEF rows
    <2> QED
        BY <2>1, <2>2 DEF Redecoded, rows
<1>3. CASE videos # <<>>
    <2>1. depth \in Nat \ {0}
        BY <1>3, DepthIs
    <2>2. rows = Rank(perVideo, depth, d, maxRows)
        BY <1>3, TableIsItself DEF RankPaths
    <2> HIDE DEF depth
    <2>3. IsPerVideo(perVideo, ids, c)
        BY <2>1, AlignedPerVideo
    <2>4. \A v \in 1..c : /\ perVideo[v] = AlignVideo(videos[v], d, depth)
                          /\ ids[v] = videos[v].video
        BY <1>1
    <2> HIDE DEF perVideo, ids, c, rows
    <2>5. Headed(rows, perVideo)
        BY <2>1, <2>2, <2>3, RankHeaded
    <2>6. DOMAIN rows = 1..Len(rows)
        BY <2>5, LenProperties DEF Headed
    <2>7. ASSUME NEW v \in DOMAIN videos, NEW i \in DOMAIN rows, rows[i].video = videos[v].video
          PROVE  AlignVideo(videos[v], Wire(d), 1)[1] = FirstOf(rows, videos[v].video)
        <3>1. v \in 1..c /\ i \in 1..Len(rows) /\ ids[v] = videos[v].video
            BY <1>1, <2>4, <2>6
        <3>2. rows[i].video = ids[v]
            BY <2>7, <3>1
        <3>3. Len(perVideo[v]) >= 1 /\ FirstOf(rows, ids[v]) = perVideo[v][1]
            BY <2>3, <2>5, <3>1, <3>2, FirstOfHeaded
        <3>4. AlignVideo(videos[v], d, depth) # <<>>
            BY <2>4, <3>1, <3>3
        <3>5. IsVideo(videos[v], n, k)
            BY <3>1 DEF AreVideos, c
        <3>6. AlignVideo(videos[v], Wire(d), 1)[1] = AlignVideo(videos[v], d, depth)[1]
            BY <2>1, <3>4, <3>5, SameFirstPath
        <3> QED
            BY <2>4, <3>1, <3>3, <3>6
    <2>8. Redecoded(rows, videos, d)
        BY <2>6, <2>7 DEF Redecoded
    <2> QED
        BY <2>8 DEF rows
<1> QED
    BY <1>2, <1>3

\* The evidence that travels is that of shown videos.
LEMMA TrimmedIsShown ==
    ASSUME NEW videos, NEW n, NEW k, AreVideos(videos, n, k), NEW rows,
           NEW i \in DOMAIN Trimmed(videos, rows)
    PROVE  \E v \in DOMAIN videos : /\ Trimmed(videos, rows)[i] = videos[v]
                                    /\ \E j \in DOMAIN rows : rows[j].video = videos[v].video
<1> DEFINE S == {v \in DOMAIN videos : \E j \in DOMAIN rows : rows[j].video = videos[v].video}
           shown == InOrder(S)
<1>1. S \in SUBSET Int /\ IsFiniteSet(S)
    <2>1. DOMAIN videos = 1..Len(videos) /\ Len(videos) \in Nat
        BY DEF AreVideos
    <2>2. IsFiniteSet(1..Len(videos)) /\ 1..Len(videos) \in SUBSET Int
        BY <2>1, FS_Interval
    <2>3. S \in SUBSET (1..Len(videos))
        BY <2>1
    <2>4. IsFiniteSet(S)
        <3> HIDE DEF S
        <3> QED  BY <2>2, <2>3, FS_Subset
    <2> HIDE DEF S
    <2> QED  BY <2>2, <2>3, <2>4
<1>2. shown \in [1..Cardinality(S) -> S]
    <2> HIDE DEF S
    <2> QED  BY <1>1, NumbersInOrder
<1>3. Trimmed(videos, rows) = [m \in DOMAIN shown |-> videos[shown[m]]]
    BY DEF Trimmed
<1> HIDE DEF shown
<1>4. i \in DOMAIN shown /\ Trimmed(videos, rows)[i] = videos[shown[i]]
    BY <1>3
<1>5. shown[i] \in S
    <2> HIDE DEF S
    <2> QED  BY <1>2, <1>4
<1> QED
    BY <1>4, <1>5

\* What an answer without an error is made of.
LEMMA GoodAnswerIs ==
    ASSUME NEW build, NEW q, PlanAnswer(build, q).status = 200
    PROVE  LET videos == SplitVideos(build.x, PlanMatrix(build, PlanOf(q), q.flags))
               body == PlanAnswer(build, q).body
           IN  /\ body.rows = RankPaths(videos, build.d, q.top)
               /\ body.evidence = Trimmed(videos, body.rows)
               /\ body.config = Wire(build.d)
<1> DEFINE matrix == PlanMatrix(build, PlanOf(q), q.flags)
           videos == SplitVideos(build.x, matrix)
           verdict == Verdict(build.corpus, videos)
           rows == RankPaths(videos, build.d, q.top)
           body == PlanBody(build, videos, rows)
<1>1. matrix # Absent
    BY GoodAnswerHasMatrix
<1>2. PlanAnswer(build, q) = IF verdict = "good" THEN Answered(build, body)
                             ELSE Failed(HttpOf(verdict))
    BY <1>1 DEF PlanAnswer, PlanScored, PlanRanked, Judged, Ranked
<1>3. body = [rows |-> rows, evidence |-> Trimmed(videos, rows), config |-> Wire(build.d)]
    BY DEF PlanBody
<1> HIDE DEF matrix, videos, verdict, rows, body
<1>4. Failed(HttpOf(verdict)).status # 200
    BY DEF Failed, HttpOf
<1>5. PlanAnswer(build, q) = Answered(build, body)
    BY <1>2, <1>4
<1>6. PlanAnswer(build, q).body = body
    BY <1>5 DEF Answered
<1>7. body.rows = rows /\ body.evidence = Trimmed(videos, rows) /\ body.config = Wire(build.d)
    BY <1>3
<1>8. /\ PlanAnswer(build, q).body.rows = rows
      /\ PlanAnswer(build, q).body.evidence = Trimmed(videos, rows)
      /\ PlanAnswer(build, q).body.config = Wire(build.d)
    BY <1>6, <1>7
<1> QED
    BY <1>8 DEF rows, videos, matrix

\* What a good answer ranks are scored videos.
LEMMA GoodVideosAre ==
    ASSUME NEW b \in Builds, NEW q \in Kis,
           PlanAnswer(BuildOf[b], RequestOf[q]).status = 200
    PROVE  LET build == BuildOf[b]
               request == RequestOf[q]
           IN  AreVideos(SplitVideos(build.x, PlanMatrix(build, PlanOf(request), request.flags)),
                         Len(request.events), Cardinality(Frames(build.x)))
<1> DEFINE build == BuildOf[b]
           x == build.x
           request == RequestOf[q]
           n == Len(request.events)
           matrix == PlanMatrix(build, PlanOf(request), request.flags)
<1>1. matrix # Absent
    BY GoodAnswerHasMatrix
<1>2. IsMatrix(matrix, n, Frames(x))
    BY <1>1, PlanMatrixIs
<1>3. /\ IsFiniteSet(Frames(x)) /\ Frames(x) \in SUBSET Int
      /\ x.video \in [Frames(x) -> Int]
      /\ x.idx \in [Frames(x) -> Int] /\ x.time \in [Frames(x) -> Int]
    BY LoadsAssumption
<1> HIDE DEF x, matrix, n
<1>4. AreVideos(SplitVideos(x, matrix), n, Cardinality(Frames(x)))
    BY <1>2, <1>3, SplitIs
<1> QED
    BY <1>4 DEF x, matrix, n

\* The settings of a server's decoder.
LEMMA DecoderIs ==
    ASSUME NEW b \in Builds
    PROVE  LET d == BuildOf[b].d
           IN  /\ d = [gap |-> d.gap, power |-> d.power, delta |-> d.delta,
                       separation |-> d.separation, paths |-> d.paths, k |-> d.k,
                       weight |-> d.weight]
               /\ d.gap \in Int /\ d.paths \in Nat \ {0} /\ Unit \in Nat \ {0}
<1> DEFINE d == BuildOf[b].d
<1>1. {d.gap, d.delta, d.separation} \subseteq Nat /\ d.paths \in Nat \ {0}
    BY DecoderAssumption, Zenon
<1>2. d = [gap |-> d.gap, power |-> d.power, delta |-> d.delta,
           separation |-> d.separation, paths |-> d.paths, k |-> d.k, weight |-> d.weight]
    BY DecoderAssumption, Zenon
<1>3. Unit \in Nat \ {0}
    BY FusionAssumption
<1> HIDE DEF d
<1>4. d.gap \in Int
    BY <1>1
<1> QED
    BY <1>1, <1>2, <1>3, <1>4, Zenon DEF d

\* Every video of an answer decodes to the first row the answer shows of it.
LEMMA AnswerRedecodes ==
    ASSUME NEW b \in Builds, NEW q \in Kis,
           PlanAnswer(BuildOf[b], RequestOf[q]).status = 200,
           NEW i \in DOMAIN PlanAnswer(BuildOf[b], RequestOf[q]).body.evidence
    PROVE  LET body == PlanAnswer(BuildOf[b], RequestOf[q]).body
               video == body.evidence[i]
           IN  AlignVideo(video, body.config, 1)[1] = FirstOf(body.rows, video.video)
<1> DEFINE build == BuildOf[b]
           x == build.x
           request == RequestOf[q]
           n == Len(request.events)
           matrix == PlanMatrix(build, PlanOf(request), request.flags)
           videos == SplitVideos(x, matrix)
           k == Cardinality(Frames(x))
           body == PlanAnswer(build, request).body
<1>4. AreVideos(videos, n, k)
    BY GoodVideosAre
<1>5. build.d.gap \in Int /\ build.d.paths \in Nat \ {0} /\ Unit \in Nat \ {0}
    BY DecoderIs
<1>6. request.top \in Nat \ {0}
    BY KisAssumption
<1>7. /\ body.rows = RankPaths(videos, build.d, request.top)
      /\ body.evidence = Trimmed(videos, body.rows)
      /\ body.config = Wire(build.d)
    BY GoodAnswerIs
<1> HIDE DEF videos, body, build, request, n, k
<1>8. Redecoded(body.rows, videos, build.d)
    BY <1>4, <1>5, <1>6, <1>7, RankedRedecodes
<1>9. i \in DOMAIN Trimmed(videos, body.rows)
    BY <1>7 DEF body, build, request
<1>10. PICK v \in DOMAIN videos : /\ body.evidence[i] = videos[v]
                                  /\ \E j \in DOMAIN body.rows : body.rows[j].video = videos[v].video
    BY <1>4, <1>7, <1>9, TrimmedIsShown
<1>11. AlignVideo(videos[v], Wire(build.d), 1)[1] = FirstOf(body.rows, videos[v].video)
    BY <1>8, <1>10 DEF Redecoded
<1>12. AlignVideo(body.evidence[i], body.config, 1)[1] = FirstOf(body.rows, body.evidence[i].video)
    BY <1>7, <1>10, <1>11
<1> QED
    BY <1>12 DEF body, build, request

\* What EventTrail decodes from any snapshot, with the settings kept in it, is the
\* path the search showed first for the video, for all artifacts, scores and
\* settings of the decoder (decode_video_scores over create_evidence_snapshot).
THEOREM SnapshotsRedecode == SearchSpec => []SnapshotRedecodes
<1>1. SearchInv => SnapshotRedecodes
    <2> SUFFICES ASSUME SearchInv, NEW s \in Snapshots, NEW i \in DOMAIN s.evidence
                 PROVE  AlignVideo(s.evidence[i], s.config, 1)[1].frames
                            = FirstOf(s.rows, s.evidence[i].video).frames
        BY DEF SnapshotRedecodes
    <2>1. s \in Faithful
        <3>1. PICK j \in DOMAIN store : s = store[j].snapshot
            BY DEF Snapshots
        <3>2. store[j] \in Entries
            BY ElementOfSeq, LenProperties DEF SearchInv, SharedOK
        <3> QED
            BY <3>1, <3>2 DEF Entries
    <2>2. PICK r \in DOMAIN loads : s \in FaithfulTo(r)
        BY <2>1 DEF Faithful
    <2>3. PICK q \in Told200(r) : s = Kept(r, q)
        BY <2>2 DEF FaithfulTo
    <2>4. q \in Kis /\ loads[r] \in Builds
        BY <2>3, ElementOfSeq, LenProperties DEF Told200, SearchInv, SharedOK
    <2> DEFINE answer == PlanAnswer(BuildOf[loads[r]], RequestOf[q])
    <2>5. Computed(r, q) = answer
        BY <2>4, PlanTableEntries DEF Computed
    <2> HIDE DEF answer
    <2>6. /\ answer.status = 200
          /\ s.rows = answer.body.rows /\ s.evidence = answer.body.evidence
          /\ s.config = answer.body.config
        BY <2>3, <2>5 DEF Told200, Kept
    <2>7. i \in DOMAIN answer.body.evidence
        BY <2>6
    <2>8. AlignVideo(answer.body.evidence[i], answer.body.config, 1)[1]
              = FirstOf(answer.body.rows, answer.body.evidence[i].video)
        BY <2>4, <2>6, <2>7, AnswerRedecodes DEF answer
    <2>9. AlignVideo(s.evidence[i], s.config, 1)[1] = FirstOf(s.rows, s.evidence[i].video)
        BY <2>6, <2>8
    <2> QED
        BY <2>9
<1> QED
    BY <1>1, SearchInvHolds, PTL

-----------------------------------------------------------------------------
(* The table of a graph without pull finds the best choice of positions.    *)

\* Choices of one position for each of the first e events.
Walks(g, e, m) ==
    {path \in [1..e -> 1..m] : \A i \in 2..e : path[i - 1] <= g.source[path[i]]}

Steps(g, e, path) == [i \in 1..e |-> g.rows[i][path[i]]]

WalkScore(g, e, path) ==
    Total(Steps(g, e, path)) - g.gap * (g.time[path[e]] - g.time[path[1]])

\* A choice with one more position, and one without its last.
Longer(walk, e, p) == [i \in 1..e |-> IF i = e THEN p ELSE walk[i]]
Shorter(path, e) == [i \in 1..(e - 1) |-> path[i]]

\* Every position that has a predecessor is a candidate, and nothing pulls.
FreeGraph(g, n, m) ==
    /\ GraphOK(g, n, m)
    /\ g.source \in [1..m -> Int]
    /\ g.layers[1] = 1..m
    /\ \A e \in 2..n : \A p \in 1..m : g.source[p] >= 1 => p \in g.layers[e]
    /\ \A e \in 2..n : \A q, p \in 1..m : g.pull[<<e, q, p>>] = 0

\* The price of time adds up along a path.
LEMMA TimeAdds ==
    ASSUME NEW gap \in Int, NEW a \in Int, NEW b \in Int, NEW c \in Int
    PROVE  gap * (c - a) = gap * (b - a) + gap * (c - b)
OBVIOUS

\* The scores along a choice are numbers, and so is its score.
LEMMA WalkIsNumber ==
    ASSUME NEW n, NEW m, NEW g, GraphOK(g, n, m), NEW e \in 1..n, NEW path \in [1..e -> 1..m]
    PROVE  /\ Steps(g, e, path) \in [1..e -> Int]
           /\ Total(Steps(g, e, path)) \in Int
           /\ g.time[path[e]] \in Int /\ g.time[path[1]] \in Int
           /\ WalkScore(g, e, path) \in Int
<1> DEFINE f == Steps(g, e, path)
<1>1. n \in Nat /\ e \in Nat \ {0} /\ 1 \in 1..e /\ e \in 1..e
    BY DEF GraphOK
<1>2. f \in [1..e -> Int]
    <2> SUFFICES ASSUME NEW i \in 1..e PROVE g.rows[i][path[i]] \in Int
        BY DEF Steps
    <2>1. i \in 1..n /\ path[i] \in 1..m
        BY <1>1
    <2>2. g.rows[i] \in [1..m -> Int]
        BY <2>1 DEF GraphOK
    <2> QED  BY <2>1, <2>2
<1>3. Total(f) \in Int
    <2>1. IsFiniteSet(1..e)
        BY <1>1, FS_Interval
    <2> HIDE DEF f
    <2> QED  BY <1>2, <2>1, TotalTakesOne
<1>4. g.time[path[e]] \in Int /\ g.time[path[1]] \in Int /\ g.gap \in Int
    <2>1. path[e] \in 1..m /\ path[1] \in 1..m
        BY <1>1
    <2> QED  BY <2>1 DEF GraphOK
<1>5. g.gap * (g.time[path[e]] - g.time[path[1]]) \in Int
    BY <1>4
<1>6. WalkScore(g, e, path) = Total(f) - g.gap * (g.time[path[e]] - g.time[path[1]])
    BY DEF WalkScore
<1> HIDE DEF f
<1>7. WalkScore(g, e, path) \in Int
    BY <1>3, <1>5, <1>6
<1> QED
    BY <1>2, <1>3, <1>4, <1>7 DEF f

\* A path of one frame scores what the frame scores.
LEMMA FirstScore ==
    ASSUME NEW n, NEW m, NEW g, GraphOK(g, n, m), NEW path \in [1..1 -> 1..m]
    PROVE  WalkScore(g, 1, path) = g.rows[1][path[1]]
<1> DEFINE f == Steps(g, 1, path)
<1>1. 1 \in 1..n
    BY DEF GraphOK
<1>2. /\ f \in [1..1 -> Int] /\ Total(f) \in Int /\ g.time[path[1]] \in Int
    BY <1>1, WalkIsNumber
<1>3. Total(f) = f[1]
    <2> DEFINE none == [b \in 1..1 \ {1} |-> f[b]]
    <2>1. IsFiniteSet(1..1) /\ 1 \in 1..1
        <3>1. 1 \in Int
            OBVIOUS
        <3>2. IsFiniteSet(1..1)
            BY <3>1, FS_Interval, Zenon
        <3> QED  BY <3>2
    <2>2. Total(f) = f[1] + Total(none)
        <3> HIDE DEF f
        <3> QED  BY <1>2, <2>1, TotalTakesOne
    <2>3. Total(none) = 0
        <3>1. 1..1 \ {1} = {}
            OBVIOUS
        <3>2. none \in [{} -> Int]
            <4> HIDE DEF f
            <4>1. none = [b \in {} |-> f[b]]
                BY <3>1
            <4> QED  BY <4>1
        <3>3. IsFiniteSet({})
            BY FS_EmptySet
        <3> HIDE DEF none
        <3> QED  BY <3>2, <3>3, TotalTakesOne
    <2> HIDE DEF f, none
    <2>4. f[1] \in Int
        BY <1>2, <2>1
    <2> QED  BY <2>2, <2>3, <2>4
<1>4. f[1] = g.rows[1][path[1]] /\ f[1] \in Int
    <2>1. 1 \in 1..1
        OBVIOUS
    <2>2. f[1] = g.rows[1][path[1]]
        BY <2>1 DEF Steps
    <2> HIDE DEF f
    <2> QED  BY <1>2, <2>1, <2>2
<1>5. WalkScore(g, 1, path) = Total(f) - g.gap * (g.time[path[1]] - g.time[path[1]])
    BY DEF WalkScore
<1>6. g.gap * (g.time[path[1]] - g.time[path[1]]) = 0
    <2>1. g.gap \in Int
        BY DEF GraphOK
    <2>2. g.time[path[1]] - g.time[path[1]] = 0
        BY <1>2
    <2>3. g.gap * 0 = 0
        BY <2>1
    <2> QED  BY <2>2, <2>3
<1> HIDE DEF f
<1> QED
    BY <1>3, <1>4, <1>5, <1>6

\* What one more event adds to the score of a choice.
LEMMA ScoreExtends ==
    ASSUME NEW n, NEW m, NEW g, GraphOK(g, n, m), NEW e \in 2..n, NEW path \in [1..e -> 1..m]
    PROVE  WalkScore(g, e, path)
               = g.rows[e][path[e]] + WalkScore(g, e - 1, Shorter(path, e))
                     - g.gap * (g.time[path[e]] - g.time[path[e - 1]])
<1> DEFINE before == Shorter(path, e)
           f == Steps(g, e, path)
           h == Steps(g, e - 1, before)
<1>1. /\ n \in Nat /\ e \in Nat /\ e - 1 \in 1..n /\ e \in 1..n
      /\ 1 \in 1..(e - 1) /\ e - 1 \in 1..(e - 1) /\ e \in 1..e /\ 1 \in 1..e /\ e - 1 \in 1..e
    BY DEF GraphOK
<1>2. before \in [1..(e - 1) -> 1..m]
    BY <1>1 DEF Shorter
<1>3. before[e - 1] = path[e - 1] /\ before[1] = path[1]
    BY <1>1 DEF Shorter
<1>4. /\ f \in [1..e -> Int] /\ Total(f) \in Int
      /\ g.time[path[e]] \in Int /\ g.time[path[1]] \in Int
    BY <1>1, WalkIsNumber
<1>5. Total(h) \in Int /\ g.time[before[e - 1]] \in Int
    <2> HIDE DEF before
    <2> QED  BY <1>1, <1>2, WalkIsNumber
<1>6. h = [i \in 1..e \ {e} |-> f[i]]
    <2>1. 1..e \ {e} = 1..(e - 1)
        BY <1>1
    <2>2. \A i \in 1..(e - 1) : i \in 1..e /\ before[i] = path[i]
        BY <1>1 DEF Shorter
    <2>3. \A i \in 1..(e - 1) : g.rows[i][before[i]] = f[i]
        <3> HIDE DEF before
        <3> QED  BY <2>2 DEF Steps
    <2>4. h = [i \in 1..(e - 1) |-> f[i]]
        <3> HIDE DEF f, before
        <3> QED  BY <2>3 DEF Steps
    <2> HIDE DEF f, h
    <2> QED  BY <2>1, <2>4
<1>7. Total(f) = f[e] + Total(h)
    <2>1. IsFiniteSet(1..e)
        BY <1>1, FS_Interval
    <2> DEFINE S == 1..e
    <2> HIDE DEF f, h
    <2>2. f \in [S -> Int] /\ IsFiniteSet(S) /\ e \in S
        BY <1>1, <1>4, <2>1
    <2>3. Total(f) = f[e] + Total([b \in S \ {e} |-> f[b]])
        <3> HIDE DEF S
        <3>1. \A x \in S : Total(f) = f[x] + Total([b \in S \ {x} |-> f[b]])
            BY <2>2, TotalTakesOne
        <3> QED  BY <2>2, <3>1
    <2> QED  BY <1>6, <2>3
<1>8. f[e] = g.rows[e][path[e]] /\ f[e] \in Int
    <2>1. f[e] = g.rows[e][path[e]]
        BY <1>1 DEF Steps
    <2> HIDE DEF f
    <2> QED  BY <1>1, <1>4, <2>1
<1>9. /\ WalkScore(g, e, path) = Total(f) - g.gap * (g.time[path[e]] - g.time[path[1]])
      /\ WalkScore(g, e - 1, before) = Total(h) - g.gap * (g.time[before[e - 1]] - g.time[before[1]])
    BY DEF WalkScore
<1>10. g.gap \in Int
    BY DEF GraphOK
<1> HIDE DEF f, h, before
<1> DEFINE a == g.time[path[1]]
           b == g.time[path[e - 1]]
           c == g.time[path[e]]
<1>11. a \in Int /\ b \in Int /\ c \in Int
    BY <1>3, <1>4, <1>5
<1>12. /\ g.gap * (c - a) = g.gap * (b - a) + g.gap * (c - b)
       /\ g.gap * (b - a) \in Int /\ g.gap * (c - b) \in Int
    <2> HIDE DEF a, b, c
    <2> QED  BY <1>10, <1>11, TimeAdds
<1>13. WalkScore(g, e - 1, before) = Total(h) - g.gap * (g.time[path[e - 1]] - g.time[path[1]])
    BY <1>3, <1>9
<1> QED
    BY <1>4, <1>5, <1>7, <1>8, <1>9, <1>11, <1>12, <1>13 DEF before

\* A layer holds the positions that choices end at, with the best of their scores.
BestWalks(layer, g, e, m) ==
    \A p \in 1..m :
        /\ p \in DOMAIN layer => \E path \in Walks(g, e, m) :
                                     path[e] = p /\ WalkScore(g, e, path) = layer[p].score
        /\ \A path \in Walks(g, e, m) :
               path[e] = p => p \in DOMAIN layer /\ WalkScore(g, e, path) <= layer[p].score

\* The first layer holds the best paths of one frame.
LEMMA FirstLayerBest ==
    ASSUME NEW n, NEW m, NEW g, FreeGraph(g, n, m)
    PROVE  BestWalks(FirstLayer(g), g, 1, m)
<1>1. GraphOK(g, n, m) /\ g.layers[1] = 1..m
    BY DEF FreeGraph
<1>2. FirstLayer(g) = [p \in 1..m |-> [score |-> g.rows[1][p], from |-> 0]]
    BY <1>1 DEF FirstLayer
<1>3. 1 \in 1..n
    BY <1>1 DEF GraphOK
<1> SUFFICES ASSUME NEW p \in 1..m
             PROVE  /\ \E path \in Walks(g, 1, m) :
                           path[1] = p /\ WalkScore(g, 1, path) = g.rows[1][p]
                    /\ \A path \in Walks(g, 1, m) :
                           path[1] = p => WalkScore(g, 1, path) <= g.rows[1][p]
    BY <1>2 DEF BestWalks
<1>4. ASSUME NEW path \in [1..1 -> 1..m], path[1] = p
      PROVE  WalkScore(g, 1, path) = g.rows[1][p]
    BY <1>1, <1>4, FirstScore
<1>5. \E path \in Walks(g, 1, m) : path[1] = p /\ WalkScore(g, 1, path) = g.rows[1][p]
    <2> DEFINE path == [i \in 1..1 |-> p]
    <2>1. path \in [1..1 -> 1..m] /\ path[1] = p
        OBVIOUS
    <2>2. path \in Walks(g, 1, m)
        <3>1. 2..1 = {}
            OBVIOUS
        <3> HIDE DEF path
        <3> QED  BY <2>1, <3>1 DEF Walks
    <2> HIDE DEF path
    <2> QED  BY <1>4, <2>1, <2>2
<1>6. \A path \in Walks(g, 1, m) : path[1] = p => WalkScore(g, 1, path) <= g.rows[1][p]
    <2> SUFFICES ASSUME NEW path \in Walks(g, 1, m), path[1] = p
                 PROVE  WalkScore(g, 1, path) <= g.rows[1][p]
        OBVIOUS
    <2>1. path \in [1..1 -> 1..m]
        BY DEF Walks
    <2>2. WalkScore(g, 1, path) = g.rows[1][p] /\ WalkScore(g, 1, path) \in Int
        BY <1>1, <1>3, <1>4, <2>1, WalkIsNumber
    <2> QED  BY <2>2
<1> QED
    BY <1>5, <1>6

\* Without pull, a predecessor brings its score less the time that passes.
LEMMA ComingFreely ==
    ASSUME NEW n, NEW m, NEW g, FreeGraph(g, n, m), NEW e \in 2..n,
           NEW before \in LayersOver(m), NEW q \in DOMAIN before, NEW p \in 1..m
    PROVE  /\ q \in 1..m /\ before[q].score \in Int
           /\ g.gap * (g.time[p] - g.time[q]) \in Int
           /\ Coming(g, before, e, p, q) = before[q].score - g.gap * (g.time[p] - g.time[q])
<1>1. q \in 1..m /\ before[q].score \in Int
    BY LayerIs
<1>2. g.time[p] \in Int /\ g.time[q] \in Int /\ g.gap \in Int
    BY <1>1 DEF FreeGraph, GraphOK
<1>3. g.gap * (g.time[p] - g.time[q]) \in Int
    BY <1>2
<1>4. g.pull[<<e, q, p>>] = 0
    BY <1>1 DEF FreeGraph
<1>5. Coming(g, before, e, p, q)
          = before[q].score + g.pull[<<e, q, p>>] - g.gap * (g.time[p] - g.time[q])
    BY DEF Coming
<1> QED
    BY <1>1, <1>3, <1>4, <1>5

\* A choice with one more position.
LEMMA WalkExtends ==
    ASSUME NEW g, NEW m \in Nat, NEW e \in Nat, e >= 2,
           NEW walk \in Walks(g, e - 1, m), NEW p \in 1..m, walk[e - 1] <= g.source[p]
    PROVE  /\ Longer(walk, e, p) \in Walks(g, e, m)
           /\ Longer(walk, e, p)[e] = p /\ Longer(walk, e, p)[e - 1] = walk[e - 1]
           /\ Shorter(Longer(walk, e, p), e) = walk
<1> DEFINE path == Longer(walk, e, p)
<1>1. walk \in [1..(e - 1) -> 1..m] /\ \A i \in 2..(e - 1) : walk[i - 1] <= g.source[walk[i]]
    BY DEF Walks
<1>2. path \in [1..e -> 1..m]
    <2>1. \A i \in 1..e : i # e => i \in 1..(e - 1)
        OBVIOUS
    <2> QED  BY <1>1, <2>1 DEF Longer
<1>3. path[e] = p /\ \A i \in 1..(e - 1) : i \in 1..e /\ path[i] = walk[i]
    BY <1>1 DEF Longer
<1>4. Shorter(path, e) = walk
    <2> HIDE DEF path
    <2> QED  BY <1>1, <1>3 DEF Shorter
<1>5. e - 1 \in 1..(e - 1)
    OBVIOUS
<1> HIDE DEF path
<1>6. ASSUME NEW i \in 2..e PROVE path[i - 1] <= g.source[path[i]]
    <2>1. CASE i = e
        BY <1>3, <1>5, <2>1
    <2>2. CASE i # e
        <3>1. i \in 2..(e - 1) /\ i \in 1..(e - 1) /\ i - 1 \in 1..(e - 1)
            BY <2>2
        <3> QED
            BY <1>1, <1>3, <3>1
    <2> QED
        BY <2>1, <2>2
<1>7. path \in Walks(g, e, m)
    BY <1>2, <1>6 DEF Walks
<1>8. path[e - 1] = walk[e - 1]
    BY <1>3, <1>5
<1> QED
    BY <1>3, <1>4, <1>7, <1>8 DEF path

\* A choice without its last position.
LEMMA WalkShortens ==
    ASSUME NEW g, NEW m \in Nat, NEW e \in Nat, e >= 2, NEW path \in Walks(g, e, m)
    PROVE  /\ Shorter(path, e) \in Walks(g, e - 1, m)
           /\ Shorter(path, e)[e - 1] = path[e - 1]
           /\ path \in [1..e -> 1..m]
           /\ path[e - 1] \in 1..m /\ path[e - 1] <= g.source[path[e]]
<1> DEFINE walk == Shorter(path, e)
<1>1. path \in [1..e -> 1..m] /\ \A i \in 2..e : path[i - 1] <= g.source[path[i]]
    BY DEF Walks
<1>2. \A i \in 1..(e - 1) : i \in 1..e /\ walk[i] = path[i]
    BY DEF Shorter
<1>3. walk \in [1..(e - 1) -> 1..m]
    BY <1>1 DEF Shorter
<1> HIDE DEF walk
<1>4. ASSUME NEW i \in 2..(e - 1) PROVE walk[i - 1] <= g.source[walk[i]]
    <2>1. i \in 2..e /\ i \in 1..(e - 1) /\ i - 1 \in 1..(e - 1)
        OBVIOUS
    <2> QED  BY <1>1, <1>2, <2>1
<1>5. walk \in Walks(g, e - 1, m)
    BY <1>3, <1>4 DEF Walks
<1>6. e - 1 \in 1..(e - 1) /\ e - 1 \in 1..e /\ e \in 2..e
    OBVIOUS
<1> QED
    BY <1>1, <1>2, <1>5, <1>6 DEF walk

\* When a layer holds the best paths to each position, so does the next.
LEMMA NextLayerBest ==
    ASSUME NEW n, NEW m, NEW g, FreeGraph(g, n, m), NEW e \in 2..n,
           NEW before \in LayersOver(m), BestWalks(before, g, e - 1, m)
    PROVE  BestWalks(NextLayer(g, before, e), g, e, m)
<1> DEFINE next == NextLayer(g, before, e)
           D == {r \in g.layers[e] : Open(g, before, r) # {}}
<1>1. /\ GraphOK(g, n, m) /\ n \in Nat /\ m \in Nat
      /\ e \in 1..n /\ e \in Nat /\ e >= 2 /\ e - 1 \in 1..n
    BY DEF FreeGraph, GraphOK
<1>2. next = [p \in D |-> Step(g, before, e, p)]
    BY TableIsItself DEF NextLayer
<1>3. D \in SUBSET (1..m)
    BY <1>1 DEF GraphOK
<1>4. ASSUME NEW p \in 1..m, Open(g, before, p) # {}
      PROVE  \E pick \in 1..m : PicksBest(g, before, e, p, pick)
    BY <1>1, <1>4, StepPicks
<1> SUFFICES ASSUME NEW p \in 1..m
             PROVE  /\ p \in DOMAIN next => \E path \in Walks(g, e, m) :
                           path[e] = p /\ WalkScore(g, e, path) = next[p].score
                    /\ \A path \in Walks(g, e, m) : path[e] = p =>
                           p \in DOMAIN next /\ WalkScore(g, e, path) <= next[p].score
    BY DEF BestWalks
<1>5. g.rows[e][p] \in Int
    BY <1>1 DEF GraphOK
<1>6. ASSUME p \in DOMAIN next
      PROVE  \E path \in Walks(g, e, m) : path[e] = p /\ WalkScore(g, e, path) = next[p].score
    <2>1. p \in D
        BY <1>2, <1>6
    <2>2. PICK pick \in 1..m : PicksBest(g, before, e, p, pick)
        BY <1>4, <2>1
    <2>3. /\ pick \in DOMAIN before /\ pick <= g.source[p]
          /\ next[p].score = g.rows[e][p] + Coming(g, before, e, p, pick)
        <3>1. next[p] = Step(g, before, e, p)
            BY <1>2, <2>1
        <3> HIDE DEF next
        <3> QED  BY <2>2, <3>1 DEF PicksBest, Open
    <2>4. PICK walk \in Walks(g, e - 1, m) :
              walk[e - 1] = pick /\ WalkScore(g, e - 1, walk) = before[pick].score
        BY <2>3 DEF BestWalks
    <2> DEFINE path == Longer(walk, e, p)
    <2>5. /\ path \in Walks(g, e, m)
          /\ path[e] = p /\ path[e - 1] = walk[e - 1]
          /\ Shorter(path, e) = walk
        <3>1. walk[e - 1] <= g.source[p]
            BY <2>3, <2>4
        <3>2. m \in Nat /\ e \in Nat /\ e >= 2
            BY <1>1
        <3> QED  BY <3>1, <3>2, WalkExtends
    <2> HIDE DEF path, next
    <2>6. path \in [1..e -> 1..m]
        BY <2>5 DEF Walks
    <2>7. WalkScore(g, e, path) = g.rows[e][p] + before[pick].score
                                      - g.gap * (g.time[p] - g.time[pick])
        <3>1. WalkScore(g, e, path) = g.rows[e][path[e]]
                  + WalkScore(g, e - 1, Shorter(path, e))
                  - g.gap * (g.time[path[e]] - g.time[path[e - 1]])
            BY <1>1, <2>6, ScoreExtends
        <3> QED  BY <2>4, <2>5, <3>1
    <2>8. /\ before[pick].score \in Int
          /\ g.gap * (g.time[p] - g.time[pick]) \in Int
          /\ Coming(g, before, e, p, pick) = before[pick].score - g.gap * (g.time[p] - g.time[pick])
        BY <2>3, ComingFreely
    <2>9. WalkScore(g, e, path) = next[p].score
        BY <1>5, <2>3, <2>7, <2>8
    <2> QED
        BY <2>5, <2>9
<1>7. ASSUME NEW path \in Walks(g, e, m), path[e] = p
      PROVE  p \in DOMAIN next /\ WalkScore(g, e, path) <= next[p].score
    <2> DEFINE walk == Shorter(path, e)
               q == path[e - 1]
    <2>1. /\ walk \in Walks(g, e - 1, m)
          /\ walk[e - 1] = q
          /\ path \in [1..e -> 1..m]
          /\ q \in 1..m /\ q <= g.source[p]
        <3>1. m \in Nat /\ e \in Nat /\ e >= 2
            BY <1>1
        <3>2. /\ Shorter(path, e) \in Walks(g, e - 1, m)
              /\ Shorter(path, e)[e - 1] = path[e - 1]
              /\ path \in [1..e -> 1..m]
              /\ path[e - 1] \in 1..m /\ path[e - 1] <= g.source[path[e]]
            BY <3>1, WalkShortens
        <3> QED  BY <1>7, <3>2
    <2>2. WalkScore(g, e, path) = g.rows[e][p] + WalkScore(g, e - 1, walk)
                                      - g.gap * (g.time[p] - g.time[q])
        <3>1. WalkScore(g, e, path)
                  = g.rows[e][path[e]] + WalkScore(g, e - 1, Shorter(path, e))
                        - g.gap * (g.time[path[e]] - g.time[path[e - 1]])
            <4>1. path \in [1..e -> 1..m] /\ GraphOK(g, n, m)
                BY <1>1, <2>1
            <4> QED  BY <4>1, ScoreExtends
        <3> QED  BY <1>7, <3>1
    <2> HIDE DEF walk, q
    <2>3. q \in DOMAIN before /\ WalkScore(g, e - 1, walk) <= before[q].score
        BY <2>1 DEF BestWalks
    <2>4. q \in Open(g, before, p)
        BY <2>1, <2>3 DEF Open
    <2>5. p \in D
        <3>1. g.source[p] >= 1
            <4>1. g.source[p] \in Int
                BY DEF FreeGraph
            <4> QED  BY <2>1, <4>1
        <3>2. p \in g.layers[e]
            BY <3>1 DEF FreeGraph
        <3> QED  BY <2>4, <3>2
    <2>6. PICK pick \in 1..m : PicksBest(g, before, e, p, pick)
        BY <1>4, <2>4
    <2>7. p \in DOMAIN next /\ next[p] = Step(g, before, e, p)
        BY <1>2, <2>5
    <2> HIDE DEF next
    <2>8. /\ next[p].score = g.rows[e][p] + Coming(g, before, e, p, pick)
          /\ Coming(g, before, e, p, pick) \in Int
          /\ Coming(g, before, e, p, q) <= Coming(g, before, e, p, pick)
        <3>1. next[p] = [score |-> g.rows[e][p] + Coming(g, before, e, p, pick), from |-> pick]
            BY <2>6, <2>7 DEF PicksBest
        <3>2. /\ Coming(g, before, e, p, pick) \in Int
              /\ Coming(g, before, e, p, q) <= Coming(g, before, e, p, pick)
            BY <2>4, <2>6 DEF PicksBest
        <3>3. next[p].score = g.rows[e][p] + Coming(g, before, e, p, pick)
            BY <3>1
        <3> QED  BY <3>2, <3>3
    <2>9. /\ before[q].score \in Int
          /\ g.gap * (g.time[p] - g.time[q]) \in Int
          /\ Coming(g, before, e, p, q) = before[q].score - g.gap * (g.time[p] - g.time[q])
        BY <2>3, ComingFreely
    <2>10. WalkScore(g, e - 1, walk) \in Int
        <3>1. walk \in [1..(e - 1) -> 1..m]
            BY <2>1 DEF Walks
        <3> QED  BY <1>1, <3>1, WalkIsNumber
    <2>11. WalkScore(g, e, path) <= next[p].score
        <3> DEFINE a == WalkScore(g, e - 1, walk)
                   b == g.gap * (g.time[p] - g.time[q])
                   h == before[q].score
                   k == Coming(g, before, e, p, pick)
                   r == g.rows[e][p]
        <3>1. a \in Int /\ b \in Int /\ h \in Int /\ k \in Int /\ r \in Int
            BY <1>5, <2>8, <2>9, <2>10
        <3>2. a <= h /\ h - b <= k
            BY <2>3, <2>8, <2>9
        <3>3. WalkScore(g, e, path) = r + a - b /\ next[p].score = r + k
            BY <2>2, <2>8
        <3> HIDE DEF a, b, h, k, r
        <3> QED  BY <3>1, <3>2, <3>3
    <2> QED
        BY <2>7, <2>11
<1> QED
    BY <1>6, <1>7

\* Every layer holds the best of all paths that end at each position.
LEMMA LayersBest ==
    ASSUME NEW n, NEW m, NEW g, FreeGraph(g, n, m), NEW table, IsTable(table, g, n, m)
    PROVE  \A e \in 1..n : BestWalks(table[e], g, e, m)
<1> DEFINE Bad == {e \in 1..n : ~BestWalks(table[e], g, e, m)}
<1>1. Bad = {}
    <2>1. SUFFICES ASSUME Bad # {} PROVE FALSE
        OBVIOUS
    <2>2. PICK e \in Bad : \A b \in Bad : e <= b
        <3>1. Bad \in SUBSET Nat
            OBVIOUS
        <3> HIDE DEF Bad
        <3> QED  BY <2>1, <3>1, LeastNumber
    <2>3. e \in 1..n /\ ~BestWalks(table[e], g, e, m) /\ n \in Nat
        BY <2>2 DEF FreeGraph, GraphOK
    <2>4. e # 1
        <3>1. BestWalks(table[1], g, 1, m)
            BY FirstLayerBest DEF IsTable
        <3> QED  BY <2>3, <3>1
    <2>5. e \in 2..n /\ e - 1 \in 1..n
        BY <2>3, <2>4
    <2>6. e - 1 \notin Bad
        <3> HIDE DEF Bad
        <3> QED  BY <2>2, <2>3
    <2>7. BestWalks(table[e - 1], g, e - 1, m)
        BY <2>5, <2>6
    <2>8. table[e - 1] \in LayersOver(m) /\ table[e] = NextLayer(g, table[e - 1], e)
        BY <2>5 DEF IsTable
    <2> QED
        BY <2>3, <2>5, <2>7, <2>8, NextLayerBest
<1> QED
    BY <1>1

\* The highest of some scores is the one that none exceeds.
LEMMA HighestIs ==
    ASSUME NEW scores, NEW s \in Int, s \in scores, \A x \in scores : x \in Int /\ x <= s
    PROVE  Highest(scores) = {s}
<1>1. s \in Highest(scores)
    BY DEF Highest
<1>2. ASSUME NEW x \in Highest(scores) PROVE x = s
    <2>1. x \in scores /\ \A y \in scores : y <= x
        BY DEF Highest
    <2>2. s <= x /\ x <= s /\ x \in Int
        BY <2>1
    <2> QED  BY <2>2
<1> QED
    BY <1>1, <1>2

\* The first row has the best score of all choices, and there is a row if there is one.
LEMMA RowsBest ==
    ASSUME NEW n, NEW m, NEW g, FreeGraph(g, n, m), NEW table, IsTable(table, g, n, m),
           NEW rows, NEW video, RowsOf(rows, video, table)
    PROVE  BestScores(rows) = Highest({WalkScore(g, n, path) : path \in Walks(g, n, m)})
<1> DEFINE last == Last(table)
           W == Walks(g, n, m)
           scores == {WalkScore(g, n, path) : path \in W}
           best == Endpoints(last)[1]
<1>1. n \in Nat \ {0} /\ n \in 1..n /\ GraphOK(g, n, m) /\ m \in Nat
    BY DEF FreeGraph, GraphOK
<1>2. last = table[n]
    <2>1. table = [e \in 1..n |-> table[e]] /\ \A e \in 1..n : table[e] \in LayersOver(m)
        BY DEF IsTable
    <2>2. Len(table) = n
        BY <1>1, <2>1, ListOf
    <2> QED  BY <2>2 DEF Last
<1>3. BestWalks(last, g, n, m)
    BY <1>1, <1>2, LayersBest
<1>4. last \in LayersOver(m)
    BY <1>1, <1>2 DEF IsTable
<1>5. DOMAIN last \in SUBSET (1..m) /\ \A p \in DOMAIN last : last[p].score \in Int
    BY <1>4, LayerIs
<1> HIDE DEF last
<1>6. \A path \in W : path[n] \in 1..m
    BY <1>1 DEF Walks
<1>7. \A path \in W : path[n] \in DOMAIN last /\ WalkScore(g, n, path) <= last[path[n]].score
    BY <1>3, <1>6 DEF BestWalks
<1>8. CASE DOMAIN last = {}
    <2>1. W = {}
        BY <1>7, <1>8
    <2>2. scores = {}
        <3> HIDE DEF W
        <3> QED  BY <2>1
    <2>3. rows = <<>>
        BY <1>8 DEF RowsOf, last
    <2>4. BestScores(rows) = {}
        BY <2>3 DEF BestScores
    <2>5. Highest(scores) = {}
        <3> HIDE DEF scores
        <3> QED  BY <2>2 DEF Highest
    <2> QED
        BY <2>4, <2>5
<1>9. CASE DOMAIN last # {}
    <2>1. /\ Len(rows) \in Nat /\ Len(rows) >= 1 /\ DOMAIN rows = 1..Len(rows)
          /\ BestEnd(last, best) /\ rows[1].score = last[best].score
        BY <1>9 DEF RowsOf, last
    <2>2. best \in DOMAIN last /\ \A p \in DOMAIN last : last[p].score <= last[best].score
        BY <2>1 DEF BestEnd
    <2> DEFINE s == last[best].score
    <2>3. s \in Int /\ best \in 1..m
        BY <1>5, <2>2
    <2>4. BestScores(rows) = {s}
        <3>1. DOMAIN rows \cap {1} = {1}
            BY <2>1
        <3> QED  BY <2>1, <3>1 DEF BestScores
    <2>5. s \in scores
        <3>1. PICK path \in W : WalkScore(g, n, path) = s
            BY <1>3, <2>2, <2>3 DEF BestWalks
        <3> QED  BY <3>1
    <2>6. \A x \in scores : x \in Int /\ x <= s
        <3> SUFFICES ASSUME NEW path \in W
                     PROVE  WalkScore(g, n, path) \in Int /\ WalkScore(g, n, path) <= s
            OBVIOUS
        <3>1. path \in [1..n -> 1..m]
            BY DEF Walks
        <3>2. WalkScore(g, n, path) \in Int
            BY <1>1, <3>1, WalkIsNumber
        <3>3. WalkScore(g, n, path) <= last[path[n]].score /\ last[path[n]].score <= s
              /\ last[path[n]].score \in Int
            BY <1>5, <1>7, <2>2
        <3> HIDE DEF s
        <3> QED  BY <2>3, <3>2, <3>3
    <2> HIDE DEF scores, s
    <2>7. Highest(scores) = {s}
        <3>1. s \in Int /\ s \in scores /\ \A x \in scores : x \in Int /\ x <= s
            BY <2>3, <2>5, <2>6
        <3> QED  BY <3>1, HighestIs
    <2> QED
        BY <2>4, <2>7 DEF scores
<1> QED
    BY <1>8, <1>9

-----------------------------------------------------------------------------
(* Where the decoders find nothing, there is nothing to find.               *)

\* Every frame is in a run that begins no later, and its first frame begins it.
StartsOK(starts, m) ==
    /\ starts = [p \in 1..m |-> starts[p]]
    /\ \A p \in 1..m : starts[p] \in 1..p /\ starts[starts[p]] = starts[p]

\* A cluster of frames starts at or before each of its frames.
LEMMA ClusterStartsAre ==
    ASSUME NEW video, NEW m \in Nat, Positions(video) = 1..m, NEW rows, NEW delta
    PROVE  StartsOK(ClusterStarts(video, rows, delta), m)
<1> DEFINE Made(p, before) == IF p = 1 \/ delta = 0 THEN p
                              ELSE IF Drift(rows, p, before) > delta THEN p ELSE before
           step == [a \in (1..m) \X Nat |-> Made(a[1], a[2])]
           Body(f) == [p \in 1..m |-> Made(p, f[p - 1])]
           t == CHOOSE f : f = Body(f)
<1>1. \A p \in 1..m, before \in Nat : Made(p, before) \in Nat
    OBVIOUS
<1>2. step \in [(1..m) \X Nat -> Nat]
    <2> HIDE DEF Made
    <2> QED  BY <1>1
<1>3. PICK f : Iterates(f, Nat, m, 0, step)
    <2> HIDE DEF step
    <2> QED  BY <1>2, IterationExists
<1>4. \A p \in 1..m : f[p] = Made(p, f[p - 1])
    <2> SUFFICES ASSUME NEW p \in 1..m PROVE f[p] = Made(p, f[p - 1])
        OBVIOUS
    <2>1. f[p - 1] \in Nat /\ f[p] = step[<<p, f[p - 1]>>]
        <3>1. p - 1 \in 0..m
            OBVIOUS
        <3> HIDE DEF step
        <3> QED  BY <1>3, <3>1 DEF Iterates
    <2> HIDE DEF Made
    <2> QED
        BY <2>1
<1> DEFINE l == [p \in 1..m |-> f[p]]
<1>5. l = Body(l)
    <2>1. \A p \in 1..m : f[p] = Made(p, l[p - 1])
        <3> SUFFICES ASSUME NEW p \in 1..m PROVE f[p] = Made(p, l[p - 1])
            OBVIOUS
        <3>1. CASE p = 1
            BY <1>4, <3>1
        <3>2. CASE p # 1
            <4>1. p - 1 \in 1..m
                BY <3>2
            <4>2. l[p - 1] = f[p - 1]
                BY <4>1
            <4> HIDE DEF l, Made
            <4> QED  BY <1>4, <4>2
        <3> QED
            BY <3>1, <3>2
    <2> HIDE DEF Made
    <2> QED
        BY <2>1
<1>6. t = Body(t)
    <2> HIDE DEF Body, l
    <2> QED  BY <1>5
<1>7. ClusterStarts(video, rows, delta) = t
    <2>1. ClusterStarts(video, rows, delta)
              = CHOOSE y : y = [p \in 1..m |->
                    IF p = 1 \/ delta = 0 THEN p
                    ELSE IF Drift(rows, p, y[p - 1]) > delta THEN p ELSE y[p - 1]]
        BY TableIsItself DEF ClusterStarts
    <2> QED
        BY <2>1
<1> HIDE DEF t
<1>8. t = [p \in 1..m |-> t[p]] /\ \A p \in 1..m : t[p] = Made(p, t[p - 1])
    <2> HIDE DEF Made
    <2> QED  BY <1>6
<1> HIDE DEF Body, l
<1> DEFINE OK(p) == t[p] \in 1..p /\ t[t[p]] = t[p]
           Bad == {p \in 1..m : ~OK(p)}
<1>9. Bad = {}
    <2>1. SUFFICES ASSUME Bad # {} PROVE FALSE
        OBVIOUS
    <2>2. PICK p \in Bad : \A b \in Bad : p <= b
        <3>1. Bad \in SUBSET Nat
            OBVIOUS
        <3> HIDE DEF Bad
        <3> QED  BY <2>1, <3>1, LeastNumber
    <2>3. p \in 1..m /\ ~OK(p)
        BY <2>2
    <2>4. CASE t[p] = p
        BY <2>3, <2>4
    <2>5. CASE t[p] # p
        <3>1. t[p] = t[p - 1] /\ p # 1
            BY <1>8, <2>3, <2>5
        <3>2. p - 1 \in 1..m
            BY <2>3, <3>1
        <3>3. p - 1 \notin Bad
            <4> HIDE DEF Bad
            <4> QED  BY <2>2, <2>3
        <3>4. OK(p - 1)
            <4> HIDE DEF OK
            <4> QED  BY <3>2, <3>3
        <3>5. t[p] \in 1..p
            BY <2>3, <3>1, <3>4
        <3>6. t[t[p]] = t[p]
            BY <3>1, <3>4
        <3> QED
            BY <2>3, <3>5, <3>6
    <2> QED
        BY <2>4, <2>5
<1>10. StartsOK(t, m)
    <2> HIDE DEF Made
    <2> QED  BY <1>8, <1>9 DEF StartsOK
<1> QED
    BY <1>7, <1>10

\* What the decoders prepare for a video of n events and m frames.
IsPrepared(prep, n, m) ==
    /\ IsScores(prep.rows, n, m)
    /\ \E starts : /\ StartsOK(starts, m)
                   /\ prep.source = [p \in 1..m |-> starts[p] - 1]
                   /\ prep.ready <=> /\ m >= n
                                     /\ Cardinality({p \in 1..m : starts[p] = p}) >= n

\* Prepared scores are numbers, for clusters of frames.
LEMMA PreparedIs ==
    ASSUME NEW video, NEW n, NEW k, IsVideo(video, n, k), NEW d, Unit \in Nat \ {0}
    PROVE  IsPrepared(Prepared(video, d), n, Len(video.frames))
<1> DEFINE m == Len(video.frames)
           rows == Powered(video, d.power)
           starts == ClusterStarts(video, rows, d.delta)
           prep == Prepared(video, d)
<1>1. /\ m \in Nat /\ Positions(video) = 1..m /\ Len(video.rows) = n
    BY DEF IsVideo
<1>2. IsScores(rows, n, m)
    BY PoweredIs
<1>3. StartsOK(starts, m)
    <2> HIDE DEF m, rows
    <2> QED  BY <1>1, ClusterStartsAre
<1>4. prep = [rows |-> rows, source |-> [p \in 1..m |-> starts[p] - 1],
              ready |-> m >= n /\ Cardinality({p \in 1..m : starts[p] = p}) >= n]
    BY <1>1, TableIsItself DEF Prepared, PreparedFrom, PreparedWith, Source
<1> HIDE DEF m, rows, starts, prep
<1>5. /\ prep.rows = rows
      /\ prep.source = [p \in 1..m |-> starts[p] - 1]
      /\ prep.ready <=> m >= n /\ Cardinality({p \in 1..m : starts[p] = p}) >= n
    BY <1>4
<1>6. IsPrepared(prep, n, m)
    BY <1>2, <1>3, <1>5 DEF IsPrepared
<1> QED
    BY <1>6 DEF prep, m

\* A list of numbers that only grows has no number twice.
LEMMA GrowingDiffers ==
    ASSUME NEW n \in Nat, NEW s \in [1..n -> Int], \A i \in 2..n : s[i - 1] < s[i]
    PROVE  \A i, j \in 1..n : i < j => s[i] < s[j]
<1> SUFFICES ASSUME NEW i \in 1..n PROVE \A j \in 1..n : i < j => s[i] < s[j]
    OBVIOUS
<1> DEFINE Bad == {j \in 1..n : i < j /\ ~(s[i] < s[j])}
<1>1. SUFFICES ASSUME Bad # {} PROVE FALSE
    OBVIOUS
<1>2. PICK j \in Bad : \A b \in Bad : j <= b
    <2>1. Bad \in SUBSET Nat
        OBVIOUS
    <2> HIDE DEF Bad
    <2> QED  BY <1>1, <2>1, LeastNumber
<1>3. j \in 1..n /\ i < j /\ ~(s[i] < s[j])
    BY <1>2
<1>4. j \in 2..n /\ j - 1 \in 1..n /\ i <= j - 1
    BY <1>3
<1>5. s[j - 1] < s[j] /\ s[i] \in Int /\ s[j] \in Int /\ s[j - 1] \in Int
    BY <1>3, <1>4
<1>6. CASE i = j - 1
    BY <1>3, <1>5, <1>6
<1>7. CASE i < j - 1
    <2>1. j - 1 \notin Bad
        <3> HIDE DEF Bad
        <3> QED  BY <1>2, <1>3
    <2>2. s[i] < s[j - 1]
        BY <1>4, <1>7, <2>1
    <2> QED  BY <1>3, <1>5, <2>2
<1> QED
    BY <1>4, <1>6, <1>7

\* A choice in the order of the runs takes as many runs as there are events.
LEMMA ChoiceMeansReady ==
    ASSUME NEW n \in Nat \ {0}, NEW m \in Nat, NEW prep, IsPrepared(prep, n, m),
           NEW path \in [1..n -> 1..m], \A i \in 2..n : path[i - 1] <= prep.source[path[i]]
    PROVE  /\ prep.ready
           /\ \A i \in 2..n : prep.source[path[i]] >= 1
<1>1. PICK starts : /\ StartsOK(starts, m)
                    /\ prep.source = [p \in 1..m |-> starts[p] - 1]
                    /\ prep.ready <=> /\ m >= n
                                      /\ Cardinality({p \in 1..m : starts[p] = p}) >= n
    BY DEF IsPrepared
<1>2. \A p \in 1..m : /\ starts[p] \in 1..p /\ starts[p] \in 1..m
                      /\ starts[starts[p]] = starts[p]
                      /\ prep.source[p] = starts[p] - 1
    <2>1. \A p \in 1..m : starts[p] \in 1..p /\ starts[starts[p]] = starts[p]
        BY <1>1 DEF StartsOK
    <2>2. \A p \in 1..m : prep.source[p] = starts[p] - 1
        BY <1>1
    <2>3. \A p \in 1..m : 1..p \in SUBSET (1..m)
        OBVIOUS
    <2> QED  BY <2>1, <2>2, <2>3
<1> DEFINE s == [i \in 1..n |-> starts[path[i]]]
           F == {p \in 1..m : starts[p] = p}
<1>3. \A i \in 1..n : path[i] \in 1..m
    OBVIOUS
<1>4. s \in [1..n -> F]
    BY <1>2, <1>3
<1>5. s \in [1..n -> Int]
    BY <1>2, <1>3
<1>6. \A i \in 2..n : s[i - 1] < s[i]
    <2> SUFFICES ASSUME NEW i \in 2..n PROVE s[i - 1] < s[i]
        OBVIOUS
    <2>1. i \in 1..n /\ i - 1 \in 1..n
        OBVIOUS
    <2>2. s[i] = starts[path[i]] /\ s[i - 1] = starts[path[i - 1]]
        BY <2>1
    <2>3. path[i - 1] <= starts[path[i]] - 1
        BY <1>2, <1>3, <2>1
    <2>4. starts[path[i - 1]] <= path[i - 1] /\ starts[path[i - 1]] \in Int
          /\ path[i - 1] \in Int /\ starts[path[i]] \in Int
        BY <1>2, <1>3, <2>1
    <2> HIDE DEF s
    <2> QED  BY <2>2, <2>3, <2>4
<1>7. \A i, j \in 1..n : i < j => s[i] < s[j]
    <2> HIDE DEF s
    <2> QED  BY <1>5, <1>6, GrowingDiffers
<1>8. s \in Injection(1..n, F)
    <2>1. \A i, j \in 1..n : s[i] = s[j] => i = j
        <3> SUFFICES ASSUME NEW i \in 1..n, NEW j \in 1..n, s[i] = s[j] PROVE i = j
            OBVIOUS
        <3>1. s[i] \in Int /\ ~(i < j) /\ ~(j < i)
            <4> HIDE DEF s
            <4>1. s[i] \in Int /\ s[j] \in Int
                BY <1>5
            <4> QED  BY <1>7, <4>1
        <3> QED  BY <3>1
    <2> HIDE DEF s, F
    <2> QED  BY <1>4, <2>1 DEF Injection, IsInjective
<1>9. IsFiniteSet(F) /\ Cardinality(F) <= m
    <2>1. F \in SUBSET (1..m)
        OBVIOUS
    <2>2. IsFiniteSet(1..m) /\ Cardinality(1..m) = m
        BY FS_Interval
    <2> HIDE DEF F
    <2> QED  BY <2>1, <2>2, FS_Subset
<1>10. n <= Cardinality(F)
    <2>1. Cardinality(1..n) = n
        BY FS_Interval
    <2>2. Cardinality(1..n) <= Cardinality(F)
        <3> HIDE DEF F, s
        <3> QED  BY <1>8, <1>9, FS_Injection
    <2> HIDE DEF F
    <2> QED  BY <2>1, <2>2
<1>11. Cardinality(F) \in Nat
    BY <1>9, FS_CardinalityType
<1>12. prep.ready
    <2> HIDE DEF F
    <2>1. m >= n /\ Cardinality(F) >= n
        BY <1>9, <1>10, <1>11
    <2> QED  BY <1>1, <2>1 DEF F
<1>13. ASSUME NEW i \in 2..n PROVE prep.source[path[i]] >= 1
    <2>1. i - 1 \in 1..n /\ i \in 1..n
        OBVIOUS
    <2>2. path[i - 1] \in 1..m /\ path[i - 1] <= prep.source[path[i]]
        BY <2>1
    <2>3. path[i] \in 1..m
        BY <2>1
    <2>4. starts[path[i]] \in 1..m /\ prep.source[path[i]] = starts[path[i]] - 1
        BY <1>2, <2>3
    <2> HIDE DEF s, F
    <2> QED  BY <2>2, <2>4
<1> QED
    BY <1>12, <1>13

-----------------------------------------------------------------------------
(* Both decoders find the best chain of a video.                            *)

NoPull(g, n, m) == \A e \in 1..n : \A q, p \in 1..m : g.pull[<<e, q, p>>] = 0

\* A graph over what was prepared for a video: all of its frames are candidates
\* of every event, but those without a predecessor of events other than the first.
FreeFor(g, video, prep, gap, n, m) ==
    /\ g.rows = prep.rows /\ g.source = prep.source
    /\ g.time = video.time /\ g.gap = gap
    /\ \A e \in 1..n : g.layers[e] \in SUBSET (1..m)
    /\ g.layers[1] = 1..m
    /\ \A e \in 2..n : \A p \in 1..m : prep.source[p] >= 1 => p \in g.layers[e]
    /\ NoPull(g, n, m)

WalkScores(g, n, m) == {WalkScore(g, n, path) : path \in Walks(g, n, m)}

\* The chains of a video are the choices in such a graph, with the same scores.
LEMMA ChainsAreWalks ==
    ASSUME NEW video, NEW n, NEW k, IsVideo(video, n, k), NEW m, m = Len(video.frames),
           NEW prep, NEW d, NEW gap, gap = d.gap, NEW g, FreeFor(g, video, prep, gap, n, m)
    PROVE  /\ Chains(video, prep) = Walks(g, n, m)
           /\ ChainScores(video, prep, d) = WalkScores(g, n, m)
<1>1. /\ n \in Nat \ {0} /\ m \in Nat /\ Len(video.rows) = n
      /\ Positions(video) = 1..m /\ EventsOf(video) = 1..n
    BY DEF IsVideo, EventsOf
<1>2. (1..n) \ {1} = 2..n
    BY <1>1
<1>3. g.rows = prep.rows /\ g.source = prep.source /\ g.time = video.time /\ g.gap = d.gap
    BY DEF FreeFor
<1>4. Chains(video, prep) = Walks(g, n, m)
    BY <1>1, <1>2, <1>3 DEF Chains, Walks
<1>5. ASSUME NEW path \in Walks(g, n, m)
      PROVE  ChainScore(video, prep, d, path) = WalkScore(g, n, path)
    <2>1. DOMAIN path = 1..n
        BY DEF Walks
    <2> QED
        BY <1>1, <1>3, <2>1 DEF ChainScore, WalkScore, Steps
<1> QED
    BY <1>4, <1>5 DEF ChainScores, WalkScores

\* A graph with every frame in every layer leaves the choice free.
LEMMA FreeForIsFree ==
    ASSUME NEW video, NEW n, NEW k, IsVideo(video, n, k), NEW m, m = Len(video.frames),
           NEW prep, IsPrepared(prep, n, m), NEW gap \in Int,
           NEW g, FreeFor(g, video, prep, gap, n, m)
    PROVE  FreeGraph(g, n, m) /\ GraphOK(g, n, m)
<1>1. /\ n \in Nat \ {0} /\ m \in Nat /\ video.time \in [1..m -> Int]
      /\ IsScores(prep.rows, n, m)
    BY DEF IsVideo, IsPrepared
<1>2. g.source \in [1..m -> Int]
    <2>1. PICK starts : /\ StartsOK(starts, m)
                        /\ prep.source = [p \in 1..m |-> starts[p] - 1]
        BY DEF IsPrepared
    <2>2. \A p \in 1..m : starts[p] \in Int
        <3>1. \A p \in 1..m : starts[p] \in 1..p
            BY <2>1 DEF StartsOK
        <3> QED  BY <1>1, <3>1
    <2>3. g.source = prep.source
        BY DEF FreeFor
    <2> QED
        BY <2>1, <2>2, <2>3
<1>3. GraphOK(g, n, m)
    <2>1. /\ DOMAIN g.rows = 1..n /\ \A e \in 1..n : g.rows[e] \in [1..m -> Int]
          /\ g.time \in [1..m -> Int] /\ g.gap \in Int
        BY <1>1 DEF FreeFor, IsScores
    <2>2. \A e \in 1..n : g.layers[e] \in SUBSET (1..m)
        BY DEF FreeFor
    <2>3. \A e \in 1..n : \A q, p \in 1..m : g.pull[<<e, q, p>>] \in Int
        <3> SUFFICES ASSUME NEW e \in 1..n, NEW q \in 1..m, NEW p \in 1..m
                     PROVE  g.pull[<<e, q, p>>] \in Int
            OBVIOUS
        <3>1. g.pull[<<e, q, p>>] = 0
            BY DEF FreeFor, NoPull
        <3> QED  BY <3>1
    <2> QED  BY <1>1, <2>1, <2>2, <2>3 DEF GraphOK
<1>4. \A e \in 2..n : e \in 1..n
    OBVIOUS
<1>5. \A e \in 2..n : \A q, p \in 1..m : g.pull[<<e, q, p>>] = 0
    BY <1>4 DEF FreeFor, NoPull
<1> QED
    BY <1>2, <1>3, <1>4, <1>5 DEF FreeFor, FreeGraph

\* The best path in such a graph has the score of the best chain.
LEMMA FreeRowsBest ==
    ASSUME NEW video, NEW n, NEW k, IsVideo(video, n, k),
           NEW prep, IsPrepared(prep, n, Len(video.frames)), NEW d, d.gap \in Int,
           NEW g, FreeFor(g, video, prep, d.gap, n, Len(video.frames)),
           NEW rows, RowsOf(rows, video, PathTable(g))
    PROVE  BestScores(rows) = Highest(ChainScores(video, prep, d))
<1> DEFINE m == Len(video.frames)
           gap == d.gap
<1>1. FreeGraph(g, n, m) /\ GraphOK(g, n, m)
    <2>1. m = Len(video.frames) /\ IsPrepared(prep, n, m) /\ gap \in Int
          /\ FreeFor(g, video, prep, gap, n, m)
        OBVIOUS
    <2> HIDE DEF m, gap
    <2> QED  BY <2>1, FreeForIsFree
<1>2. IsTable(PathTable(g), g, n, m)
    <2> HIDE DEF m
    <2> QED  BY <1>1, PathTableIs
<1>3. BestScores(rows) = Highest(WalkScores(g, n, m))
    <2> HIDE DEF m
    <2> QED  BY <1>1, <1>2, RowsBest DEF WalkScores
<1>4. ChainScores(video, prep, d) = WalkScores(g, n, m)
    <2>1. m = Len(video.frames) /\ gap = d.gap /\ FreeFor(g, video, prep, gap, n, m)
        OBVIOUS
    <2> HIDE DEF m, gap
    <2> QED  BY <2>1, ChainsAreWalks
<1> QED
    BY <1>3, <1>4

\* Without chains there is nothing to find.
LEMMA NothingBest ==
    ASSUME NEW video, NEW prep, NEW d, Chains(video, prep) = {}
    PROVE  BestScores(<<>>) = Highest(ChainScores(video, prep, d))
<1>1. ChainScores(video, prep, d) = {}
    BY DEF ChainScores
<1>2. DOMAIN << >> = {}
    OBVIOUS
<1> QED
    BY <1>1, <1>2 DEF BestScores, Highest

\* Every chain has a predecessor for every event but the first, and as many runs
\* of frames as events.
LEMMA ChainNeeds ==
    ASSUME NEW video, NEW n, NEW k, IsVideo(video, n, k),
           NEW prep, IsPrepared(prep, n, Len(video.frames)), NEW path \in Chains(video, prep)
    PROVE  /\ prep.ready
           /\ \A e \in 1..n : path[e] \in 1..Len(video.frames)
           /\ \A e \in 2..n : prep.source[path[e]] >= 1
<1> DEFINE m == Len(video.frames)
<1>1. /\ n \in Nat \ {0} /\ m \in Nat
      /\ Positions(video) = 1..m /\ EventsOf(video) = 1..n
    BY DEF IsVideo, EventsOf
<1>2. (1..n) \ {1} = 2..n
    BY <1>1
<1>3. /\ path \in [1..n -> 1..m]
      /\ \A i \in 2..n : path[i - 1] <= prep.source[path[i]]
    BY <1>1, <1>2 DEF Chains
<1>4. IsPrepared(prep, n, m)
    OBVIOUS
<1> HIDE DEF m
<1>5. prep.ready /\ \A i \in 2..n : prep.source[path[i]] >= 1
    BY <1>1, <1>3, <1>4, ChoiceMeansReady
<1>6. \A e \in 1..n : path[e] \in 1..m
    BY <1>3
<1> QED
    BY <1>5, <1>6 DEF m

\* The static decoder finds the best chain of a video, or that there is none,
\* however many paths it is asked for (align_video).
LEMMA AlignBest ==
    ASSUME NEW video, NEW n, NEW k, IsVideo(video, n, k), NEW d, d.gap \in Int,
           Unit \in Nat \ {0}, NEW limit \in Nat \ {0}
    PROVE  BestScores(AlignVideo(video, d, limit))
               = Highest(ChainScores(video, Prepared(video, d), d))
<1> DEFINE m == Len(video.frames)
           prep == Prepared(video, d)
           g == StaticGraph(video, prep, d.gap)
           rows == AlignVideo(video, d, limit)
<1>1. /\ n \in Nat \ {0} /\ m \in Nat
      /\ Positions(video) = 1..m /\ EventsOf(video) = 1..n
    BY DEF IsVideo, EventsOf
<1>2. IsPrepared(prep, n, m)
    BY PreparedIs
<1>3. Aligned(rows, video, d)
    BY AlignedIs
<1> HIDE DEF rows, prep
<1>4. CASE prep.ready
    <2>1. RowsOf(rows, video, PathTable(g))
        BY <1>3, <1>4 DEF Aligned, TableFor, StaticTable, StaticGraph, prep
    <2>2. FreeFor(g, video, prep, d.gap, n, m)
        <3>1. g = [rows |-> prep.rows, source |-> prep.source, time |-> video.time, gap |-> d.gap,
                   layers |-> [e \in 1..n |-> 1..m],
                   pull |-> [a \in (1..n) \X (1..m) \X (1..m) |-> 0], latest |-> TRUE]
            BY <1>1 DEF StaticGraph, Graph, Moves
        <3>2. \A e \in 1..n : \A q, p \in 1..m : [a \in (1..n) \X (1..m) \X (1..m) |-> 0][<<e, q, p>>] = 0
            OBVIOUS
        <3>3. /\ g.rows = prep.rows /\ g.source = prep.source
              /\ g.time = video.time /\ g.gap = d.gap
              /\ g.layers = [e \in 1..n |-> 1..m]
              /\ g.pull = [a \in (1..n) \X (1..m) \X (1..m) |-> 0]
            BY <3>1
        <3> HIDE DEF g
        <3>4. /\ \A e \in 1..n : g.layers[e] = 1..m
              /\ 1 \in 1..n /\ \A e \in 2..n : e \in 1..n
            BY <1>1, <3>3
        <3>5. NoPull(g, n, m)
            BY <3>2, <3>3 DEF NoPull
        <3> HIDE DEF m
        <3> QED  BY <3>3, <3>4, <3>5 DEF FreeFor
    <2>3. BestScores(rows) = Highest(ChainScores(video, prep, d))
        <3> HIDE DEF g
        <3> QED  BY <1>2, <2>1, <2>2, FreeRowsBest
    <2> QED
        BY <2>3 DEF rows, prep
<1>5. CASE ~prep.ready
    <2>1. rows = <<>>
        BY <1>3, <1>5 DEF Aligned, prep
    <2>2. Chains(video, prep) = {}
        <3> SUFFICES ASSUME NEW path \in Chains(video, prep) PROVE FALSE
            OBVIOUS
        <3> QED  BY <1>2, <1>5, ChainNeeds
    <2>3. BestScores(<<>>) = Highest(ChainScores(video, prep, d))
        BY <2>2, NothingBest
    <2> QED
        BY <2>1, <2>3 DEF rows, prep
<1> QED
    BY <1>4, <1>5

Valid(prep, e, m) == {p \in 1..m : e = 1 \/ prep.source[p] > 0}

\* With room for every frame, no candidate is left out.
LEMMA LayerHoldsAll ==
    ASSUME NEW video, NEW m \in Nat, Positions(video) = 1..m, NEW prep, NEW e,
           prep.rows[e] \in [1..m -> Int], NEW k \in Nat, m <= k
    PROVE  Layer(video, prep, k, e) = Valid(prep, e, m)
<1> DEFINE S == Valid(prep, e, m)
           row == prep.rows[e]
           key == [p \in S |-> -row[p]]
           A(a) == {b \in S : row[b] > row[a] \/ (row[b] = row[a] /\ b < a)}
           B(a) == {b \in S : key[b] < key[a] \/ (key[b] = key[a] /\ b < a)}
           c == Cardinality(S)
           order == ByKey(S, key)
<1>1. S \in SUBSET (1..m) /\ S \in SUBSET Int
    BY DEF Valid
<1>2. IsFiniteSet(S) /\ c <= m
    <2>1. IsFiniteSet(1..m) /\ Cardinality(1..m) = m
        BY FS_Interval
    <2> DEFINE T == 1..m
    <2>2. S \in SUBSET T
        BY <1>1
    <2>3. IsFiniteSet(S) /\ Cardinality(S) <= Cardinality(T)
        <3>1. IsFiniteSet(T)
            BY <2>1
        <3> HIDE DEF S, T
        <3> QED  BY <3>1, <2>2, FS_Subset
    <2> HIDE DEF S
    <2> QED  BY <2>1, <2>3
<1>3. \A p \in S : row[p] \in Int /\ key[p] = -row[p]
    <2> HIDE DEF S
    <2> QED  BY <1>1
<1>4. key \in [S -> Int]
    <2> HIDE DEF S, row
    <2> QED  BY <1>3
<1>5. ASSUME NEW a \in S PROVE A(a) = B(a)
    <2> HIDE DEF key, S, row
    <2>1. \A b \in S : /\ row[b] > row[a] <=> key[b] < key[a]
                       /\ row[b] = row[a] <=> key[b] = key[a]
        BY <1>3
    <2> QED
        BY <2>1
<1>6. order = ByPlace(S, [a \in S |-> Cardinality(A(a))])
    <2>1. order = ByPlace(S, [a \in S |-> Cardinality(B(a))])
        BY DEF ByKey
    <2> HIDE DEF A, B, S, order
    <2> QED  BY <1>5, <2>1
<1>7. Layer(video, prep, k, e) = {order[i] : i \in {j \in DOMAIN order : j <= k}}
    <2>1. S = {p \in Positions(video) : e = 1 \/ prep.source[p] > 0}
        BY DEF Valid
    <2>2. ByPlace(S, [a \in S |-> Cardinality(A(a))])
              = Arranged(S, LAMBDA p, q : \/ prep.rows[e][p] > prep.rows[e][q]
                                          \/ prep.rows[e][p] = prep.rows[e][q] /\ p < q)
        BY TableIsItself DEF Arranged
    <2> HIDE DEF S, A, order
    <2> QED  BY <1>6, <2>1, <2>2 DEF Layer
<1>8. /\ c \in Nat /\ order \in [1..c -> S]
      /\ \A a \in S : \E i \in 1..c : order[i] = a
    <2>1. ListsByKey(order, S, key)
        <3> HIDE DEF S, key
        <3> QED  BY <1>1, <1>2, <1>4, KeyOrder
    <2> HIDE DEF S, key, order
    <2> QED  BY <2>1 DEF ListsByKey
<1>9. {order[i] : i \in {j \in DOMAIN order : j <= k}} = S
    <2> HIDE DEF S, order, c
    <2>1. {j \in DOMAIN order : j <= k} = 1..c
        BY <1>2, <1>8
    <2> QED
        BY <1>8, <2>1
<1> QED
    BY <1>7, <1>9

\* The graph that the motion decoder searches.
LatticeGraph(x, texts, video, prep, d) ==
    Graph(video, prep, d.gap,
          Table([e \in EventsOf(video) |-> Layer(video, prep, d.k, e)]),
          [a \in Moves(video) |->
              IF d.weight = 0 THEN 0
              ELSE d.weight * Transition(x, texts, video, a[1], a[2], a[3])],
          FALSE)

HoldsAll(x, texts, video, prep, d, n) ==
    LET m == Len(video.frames)
    IN  /\ FreeFor(LatticeGraph(x, texts, video, prep, d), video, prep, d.gap, n, m)
        /\ \A e \in 1..n : Layer(video, prep, d.k, e) = Valid(prep, e, m)

\* Candidates as many as there are frames keep every frame of the video.
LEMMA LatticeIsFree ==
    ASSUME NEW x, NEW texts, NEW video, NEW n, NEW k \in Nat, IsVideo(video, n, k),
           NEW prep, IsPrepared(prep, n, Len(video.frames)), NEW d, d.weight = 0, d.k = k
    PROVE  HoldsAll(x, texts, video, prep, d, n)
<1> DEFINE m == Len(video.frames)
           g == LatticeGraph(x, texts, video, prep, d)
           L(e) == Layer(video, prep, k, e)
<1>1. /\ n \in Nat \ {0} /\ m \in Nat /\ m <= k
      /\ Positions(video) = 1..m /\ EventsOf(video) = 1..n
    BY DEF IsVideo, EventsOf
<1>2. \A e \in 1..n : prep.rows[e] \in [1..m -> Int]
    BY DEF IsPrepared, IsScores
<1>3. ASSUME NEW e \in 1..n PROVE L(e) = Valid(prep, e, m)
    <2> HIDE DEF m
    <2> QED  BY <1>1, <1>2, LayerHoldsAll
<1>4. g = [rows |-> prep.rows, source |-> prep.source, time |-> video.time, gap |-> d.gap,
           layers |-> [e \in 1..n |-> L(e)],
           pull |-> [a \in (1..n) \X (1..m) \X (1..m) |-> 0], latest |-> FALSE]
    <2>1. Moves(video) = (1..n) \X (1..m) \X (1..m)
        BY <1>1 DEF Moves
    <2> DEFINE layers == [e \in 1..n |-> L(e)]
               pull == [a \in (1..n) \X (1..m) \X (1..m) |-> 0]
    <2>2. [a \in Moves(video) |->
              IF d.weight = 0 THEN 0
              ELSE d.weight * Transition(x, texts, video, a[1], a[2], a[3])] = pull
        BY <2>1, Zenon
    <2>3. Table([e \in EventsOf(video) |-> Layer(video, prep, d.k, e)]) = layers
        BY <1>1, TableIsItself
    <2>4. g = Graph(video, prep, d.gap, layers, pull, FALSE)
        <3> HIDE DEF layers, pull, m
        <3> QED  BY <2>2, <2>3, Zenon DEF LatticeGraph
    <2> QED
        BY <2>4 DEF Graph
<1>5. \A e \in 1..n : \A q, p \in 1..m : [a \in (1..n) \X (1..m) \X (1..m) |-> 0][<<e, q, p>>] = 0
    OBVIOUS
<1>6. /\ g.rows = prep.rows /\ g.source = prep.source
      /\ g.time = video.time /\ g.gap = d.gap
      /\ g.layers = [e \in 1..n |-> L(e)]
      /\ g.pull = [a \in (1..n) \X (1..m) \X (1..m) |-> 0]
    <2> HIDE DEF L, m
    <2> QED  BY <1>4
<1> HIDE DEF g, m
<1>7. \A e \in 1..n : g.layers[e] = Valid(prep, e, m)
    <2> HIDE DEF L
    <2> QED  BY <1>3, <1>6
<1>8. NoPull(g, n, m)
    BY <1>5, <1>6 DEF NoPull
<1>9. \A e \in 1..n : g.layers[e] \in SUBSET (1..m)
    BY <1>7 DEF Valid
<1>10. g.layers[1] = 1..m
    <2>1. g.layers[1] = Valid(prep, 1, m)
        BY <1>1, <1>7
    <2>2. Valid(prep, 1, m) = 1..m
        BY DEF Valid
    <2> QED  BY <2>1, <2>2
<1>11. ASSUME NEW e \in 2..n, NEW p \in 1..m, prep.source[p] >= 1 PROVE p \in g.layers[e]
    <2>1. e \in 1..n
        OBVIOUS
    <2>2. prep.source[p] > 0
        <3>1. PICK starts : /\ StartsOK(starts, m)
                            /\ prep.source = [i \in 1..m |-> starts[i] - 1]
            BY DEF IsPrepared, m
        <3>2. prep.source[p] = starts[p] - 1 /\ starts[p] \in 1..p
            BY <3>1 DEF StartsOK
        <3>3. starts[p] \in Int
            BY <1>1, <3>2
        <3> QED  BY <1>11, <3>2, <3>3
    <2> QED
        BY <1>7, <2>1, <2>2 DEF Valid
<1>12. FreeFor(g, video, prep, d.gap, n, m)
    BY <1>6, <1>8, <1>9, <1>10, <1>11 DEF FreeFor
<1> QED
    BY <1>3, <1>12 DEF HoldsAll, g, m

\* With every frame a candidate and transitions of no weight, so does the motion
\* graph (decode_motion_graph_video).
LEMMA MotionBest ==
    ASSUME NEW x, NEW texts, NEW video, NEW n, NEW k \in Nat, IsVideo(video, n, k),
           NEW d, d.gap \in Int, d.weight = 0, d.k = k, Unit \in Nat \ {0},
           NEW limit \in Nat \ {0}
    PROVE  /\ RowsWell(MotionGraph(x, texts, video, d, limit), video)
           /\ BestScores(MotionGraph(x, texts, video, d, limit))
                  = Highest(ChainScores(video, Prepared(video, d), d))
<1> DEFINE m == Len(video.frames)
           prep == Prepared(video, d)
           g == LatticeGraph(x, texts, video, prep, d)
           table == PathTable(g)
           rows == MotionGraph(x, texts, video, d, limit)
           gap == d.gap
<1>1. n \in Nat \ {0} /\ m \in Nat /\ EventsOf(video) = 1..n
    BY DEF IsVideo, EventsOf
<1>2. IsPrepared(prep, n, m)
    BY PreparedIs
<1> HIDE DEF prep
<1>3. /\ FreeFor(g, video, prep, d.gap, n, m)
      /\ \A e \in 1..n : Layer(video, prep, d.k, e) = Valid(prep, e, m)
    <2>1. IsPrepared(prep, n, Len(video.frames)) /\ d.k = k /\ d.weight = 0
        BY <1>2
    <2>2. HoldsAll(x, texts, video, prep, d, n)
        BY <2>1, LatticeIsFree
    <2> QED  BY <2>2 DEF HoldsAll
<1>4. GraphOK(g, n, m)
    <2>1. m = Len(video.frames) /\ IsPrepared(prep, n, m) /\ gap \in Int
          /\ FreeFor(g, video, prep, gap, n, m)
        BY <1>2, <1>3
    <2> HIDE DEF m, gap, g
    <2> QED  BY <2>1, FreeForIsFree
<1>5. table \in [1..n -> LayersOver(m)]
    <2> HIDE DEF g
    <2>1. IsTable(PathTable(g), g, n, m)
        BY <1>4, PathTableIs
    <2> QED  BY <2>1 DEF IsTable
<1>6. RowsOf(BestRows(video, table, d.separation, limit), video, table)
    <2> HIDE DEF table, m
    <2> QED  BY <1>1, <1>5, BestRowsAre
<1>7. rows = IF prep.ready /\ \A e \in 1..n : Layer(video, prep, d.k, e) # {}
             THEN BestRows(video, table, d.separation, limit) ELSE <<>>
    BY <1>1 DEF MotionGraph, GraphPrepared, LatticeTable, LatticeGraph, prep
<1> HIDE DEF rows, m, g, table, gap
<1>8. CASE prep.ready /\ \A e \in 1..n : Layer(video, prep, d.k, e) # {}
    <2>1. rows = BestRows(video, table, d.separation, limit)
        BY <1>7, <1>8
    <2>2. RowsOf(rows, video, PathTable(g))
        BY <1>6, <2>1 DEF table
    <2>3. RowsWell(rows, video)
        BY <1>6, <2>1, BestRowsWell
    <2>4. BestScores(rows) = Highest(ChainScores(video, prep, d))
        BY <1>2, <1>3, <2>2, FreeRowsBest DEF m
    <2> QED
        BY <2>3, <2>4 DEF rows, prep
<1>9. CASE ~(prep.ready /\ \A e \in 1..n : Layer(video, prep, d.k, e) # {})
    <2>1. rows = <<>>
        BY <1>7, <1>9
    <2>2. RowsWell(rows, video)
        BY <2>1, BestRowsWell
    <2>3. Chains(video, prep) = {}
        <3> SUFFICES ASSUME NEW path \in Chains(video, prep) PROVE FALSE
            OBVIOUS
        <3>1. /\ prep.ready
              /\ \A e \in 1..n : path[e] \in 1..m
              /\ \A e \in 2..n : prep.source[path[e]] >= 1
            BY <1>2, ChainNeeds DEF m
        <3>2. PICK e \in 1..n : Layer(video, prep, d.k, e) = {}
            BY <1>9, <3>1
        <3>3. path[e] \notin Valid(prep, e, m)
            BY <1>3, <3>2
        <3>4. e # 1 /\ ~(prep.source[path[e]] > 0) /\ path[e] \in 1..m
            BY <3>1, <3>3 DEF Valid
        <3>5. prep.source[path[e]] >= 1
            BY <1>1, <3>1, <3>4
        <3>6. prep.source[path[e]] \in Int
            <4>1. PICK starts : /\ StartsOK(starts, m)
                                /\ prep.source = [p \in 1..m |-> starts[p] - 1]
                BY <1>2 DEF IsPrepared
            <4>2. starts[path[e]] \in 1..path[e]
                BY <3>4, <4>1 DEF StartsOK
            <4>3. prep.source[path[e]] = starts[path[e]] - 1
                BY <3>4, <4>1
            <4> QED  BY <1>1, <3>4, <4>2, <4>3
        <3> QED
            BY <3>4, <3>5, <3>6
    <2>4. BestScores(<<>>) = Highest(ChainScores(video, prep, d))
        BY <2>3, NothingBest
    <2> QED
        BY <2>1, <2>2, <2>4 DEF rows, prep
<1> QED
    BY <1>8, <1>9

\* The first row of a result has the best score of any video.
Heads(perVideo) == UNION {BestScores(perVideo[k]) : k \in DOMAIN perVideo}

\* The best score of a list is its first row's.
LEMMA BestScoresAre ==
    ASSUME NEW rows, Len(rows) \in Nat, DOMAIN rows = 1..Len(rows)
    PROVE  /\ Len(rows) >= 1 => BestScores(rows) = {rows[1].score}
           /\ ~(Len(rows) >= 1) => BestScores(rows) = {}
<1>1. CASE Len(rows) >= 1
    <2>1. DOMAIN rows \cap {1} = {1}
        BY <1>1
    <2> QED
        BY <1>1, <2>1 DEF BestScores
<1>2. CASE ~(Len(rows) >= 1)
    <2>1. DOMAIN rows \cap {1} = {}
        BY <1>2
    <2> QED
        BY <1>2, <2>1 DEF BestScores
<1> QED
    BY <1>1, <1>2

\* The first of the ranked rows has the highest of the videos' best scores.
LEMMA RankBest ==
    ASSUME NEW perVideo, NEW ids, NEW c, IsPerVideo(perVideo, ids, c),
           NEW depth \in Nat \ {0}, NEW d
    PROVE  BestScores(Rank(perVideo, depth, d, 1)) = Highest(Heads(perVideo))
<1> DEFINE R == Rank(perVideo, depth, d, 1)
           H == Heads(perVideo)
<1>1. Headed(R, perVideo) /\ TopFirst(R, perVideo)
    <2>1. 1 \in Nat /\ 1 # 0
        OBVIOUS
    <2> HIDE DEF R
    <2> QED  BY <2>1, RankHeaded DEF R
<1> HIDE DEF R
<1>2. Len(R) \in Nat /\ DOMAIN R = 1..Len(R)
    BY <1>1, LenProperties DEF Headed
<1>3. \A k \in DOMAIN perVideo :
          /\ Len(perVideo[k]) \in Nat
          /\ Len(perVideo[k]) >= 1 => /\ BestScores(perVideo[k]) = {perVideo[k][1].score}
                                      /\ perVideo[k][1].score \in Int
          /\ ~(Len(perVideo[k]) >= 1) => BestScores(perVideo[k]) = {}
    <2> SUFFICES ASSUME NEW k \in DOMAIN perVideo
                 PROVE  /\ Len(perVideo[k]) \in Nat
                        /\ Len(perVideo[k]) >= 1
                               => /\ BestScores(perVideo[k]) = {perVideo[k][1].score}
                                  /\ perVideo[k][1].score \in Int
                        /\ ~(Len(perVideo[k]) >= 1) => BestScores(perVideo[k]) = {}
        OBVIOUS
    <2> DEFINE rows == perVideo[k]
    <2>1. /\ Len(rows) \in Nat /\ DOMAIN rows = 1..Len(rows)
          /\ \A i \in 1..Len(rows) : rows[i].score \in Int
        BY DEF IsPerVideo
    <2> HIDE DEF rows
    <2>2. /\ Len(rows) >= 1 => BestScores(rows) = {rows[1].score}
          /\ ~(Len(rows) >= 1) => BestScores(rows) = {}
        BY <2>1, BestScoresAre
    <2>3. Len(rows) >= 1 => rows[1].score \in Int
        BY <2>1
    <2> QED
        BY <2>1, <2>2, <2>3 DEF rows
<1>4. \A s : s \in H <=> \E k \in DOMAIN perVideo :
                             Len(perVideo[k]) >= 1 /\ s = perVideo[k][1].score
    BY <1>3 DEF Heads
<1> HIDE DEF H
<1>5. CASE Len(R) >= 1
    <2> DEFINE s == R[1].score
    <2>1. 1 \in 1..Len(R)
        BY <1>2, <1>5
    <2>2. PICK k \in DOMAIN perVideo : Len(perVideo[k]) >= 1 /\ R[1] = perVideo[k][1]
        <3>1. HeadedAt(R, 1, perVideo)
            BY <1>1, <2>1 DEF Headed
        <3>2. \A j \in 1..1 : j = 1
            OBVIOUS
        <3> QED
            BY <3>1, <3>2 DEF HeadedAt
    <2>3. s \in Int /\ s \in H
        BY <1>3, <1>4, <2>2
    <2>4. \A y \in H : y \in Int /\ y <= s
        BY <1>1, <1>3, <1>4 DEF TopFirst
    <2>5. BestScores(R) = {s}
        BY <1>2, <1>5, BestScoresAre
    <2>6. Highest(H) = {s}
        <3> HIDE DEF s
        <3> QED  BY <2>3, <2>4, HighestIs
    <2> QED
        BY <2>5, <2>6 DEF R, H
<1>6. CASE ~(Len(R) >= 1)
    <2>1. H = {}
        BY <1>1, <1>4, <1>6 DEF TopFirst
    <2>2. BestScores(R) = {}
        BY <1>2, <1>6, BestScoresAre
    <2>3. Highest({}) = {}
        BY DEF Highest
    <2> QED
        BY <2>1, <2>2, <2>3 DEF R, H
<1> QED
    BY <1>5, <1>6

\* The settings with every frame a candidate and transitions of no weight.
LEMMA WideIs ==
    ASSUME NEW b \in Builds
    PROVE  LET d == BuildOf[b].d
               wide == Wide(BuildOf[b])
           IN  /\ wide.gap = d.gap /\ wide.power = d.power /\ wide.delta = d.delta
               /\ wide.paths = d.paths
               /\ wide.weight = 0 /\ wide.k = Cardinality(Frames(BuildOf[b].x))
<1> DEFINE d == BuildOf[b].d
           c == Cardinality(Frames(BuildOf[b].x))
<1>1. d = [gap |-> d.gap, power |-> d.power, delta |-> d.delta,
           separation |-> d.separation, paths |-> d.paths, k |-> d.k, weight |-> d.weight]
    BY DecoderIs
<1>2. Wide(BuildOf[b]) = [d EXCEPT !.weight = 0, !.k = c]
    BY DEF Wide
<1> DEFINE wide == [d EXCEPT !.weight = 0, !.k = c]
<1> HIDE DEF d, c
<1>3. DOMAIN d = {"gap", "power", "delta", "separation", "paths", "k", "weight"}
    BY <1>1
<1>4. /\ wide.gap = d.gap /\ wide.power = d.power /\ wide.delta = d.delta
      /\ wide.paths = d.paths /\ wide.weight = 0 /\ wide.k = c
    BY <1>3
<1> HIDE DEF wide
<1> QED
    BY <1>2, <1>4 DEF d, c, wide

\* The two decoders with settings that differ only in what the one ignores.
Alike(d, wide, k) ==
    /\ wide.gap = d.gap /\ wide.power = d.power /\ wide.delta = d.delta
    /\ wide.paths = d.paths
    /\ wide.weight = 0 /\ wide.k = k
    /\ d.gap \in Int /\ k \in Nat /\ d.paths \in Nat \ {0} /\ Unit \in Nat \ {0}

\* Settings that differ in the width of the lattice alone search the same chains.
LEMMA SameSearch ==
    ASSUME NEW video, NEW d, NEW wide, NEW k, Alike(d, wide, k)
    PROVE  ChainScores(video, Prepared(video, wide), wide)
               = ChainScores(video, Prepared(video, d), d)
<1>1. Prepared(video, wide) = Prepared(video, d)
    BY DEF Prepared, Alike
<1> DEFINE prep == Prepared(video, d)
<1>2. \A path : ChainScore(video, prep, wide, path) = ChainScore(video, prep, d, path)
    BY DEF ChainScore, Alike
<1> HIDE DEF prep
<1>3. ChainScores(video, prep, wide) = ChainScores(video, prep, d)
    BY <1>2 DEF ChainScores
<1> QED
    BY <1>1, <1>3 DEF prep

\* Both decoders find the best chain of a video.
LEMMA BothBest ==
    ASSUME NEW x, NEW video, NEW n, NEW k, IsVideo(video, n, k),
           NEW d, NEW wide, Alike(d, wide, k), NEW limit \in Nat \ {0}
    PROVE  LET best == Highest(ChainScores(video, Prepared(video, d), d))
           IN  /\ BestScores(AlignVideo(video, d, limit)) = best
               /\ BestScores(MotionGraph(x, <<>>, video, wide, limit)) = best
               /\ RowsWell(MotionGraph(x, <<>>, video, wide, limit), video)
<1> DEFINE best == Highest(ChainScores(video, Prepared(video, d), d))
           texts == <<>>
<1>1. /\ d.gap \in Int /\ k \in Nat /\ Unit \in Nat \ {0}
      /\ wide.gap \in Int /\ wide.weight = 0 /\ wide.k = k
    BY DEF Alike
<1>2. BestScores(AlignVideo(video, d, limit)) = best
    BY <1>1, AlignBest
<1> HIDE DEF texts
<1>3. /\ BestScores(MotionGraph(x, texts, video, wide, limit))
             = Highest(ChainScores(video, Prepared(video, wide), wide))
      /\ RowsWell(MotionGraph(x, texts, video, wide, limit), video)
    BY <1>1, MotionBest
<1>4. Highest(ChainScores(video, Prepared(video, wide), wide)) = best
    BY SameSearch
<1> HIDE DEF best
<1> QED
    BY <1>2, <1>3, <1>4 DEF best, texts

\* Over all videos, either decoder shows the best chain first.
LEMMA RankedAlike ==
    ASSUME NEW x, NEW videos, NEW n, NEW k, AreVideos(videos, n, k),
           NEW d, NEW wide, Alike(d, wide, k)
    PROVE  BestScores(RankMotionGraph(x, <<>>, videos, wide, 1)) = BestScores(RankPaths(videos, d, 1))
<1>1. CASE videos = <<>>
    BY <1>1 DEF RankMotionGraph, RankPaths
<1>2. CASE videos # <<>>
    <2> DEFINE c == Len(videos)
               depth == Depth(videos, d, 1)
               ids == [v \in DOMAIN videos |-> videos[v].video]
               static == [v \in DOMAIN videos |-> AlignVideo(videos[v], d, depth)]
               motion == [v \in DOMAIN videos |-> MotionGraph(x, <<>>, videos[v], wide, depth)]
    <2>1. d.gap \in Int /\ d.paths \in Nat \ {0} /\ Unit \in Nat \ {0}
          /\ wide.paths = d.paths
        BY DEF Alike
    <2>2. depth \in Nat \ {0}
        BY <1>2, <2>1, DepthIs
    <2>3. Depth(videos, wide, 1) = depth
        BY <2>1 DEF Depth
    <2>4. RankPaths(videos, d, 1) = Rank(static, depth, d, 1)
        BY <1>2, TableIsItself DEF RankPaths
    <2>5. RankMotionGraph(x, <<>>, videos, wide, 1) = Rank(motion, depth, wide, 1)
        <3> HIDE DEF depth
        <3> QED  BY <1>2, <2>3, TableIsItself DEF RankMotionGraph
    <2> HIDE DEF depth
    <2>6. IsPerVideo(static, ids, c)
        BY <2>1, <2>2, AlignedPerVideo
    <2>7. \A v \in DOMAIN videos : /\ static[v] = AlignVideo(videos[v], d, depth)
                                   /\ motion[v] = MotionGraph(x, <<>>, videos[v], wide, depth)
        OBVIOUS
    <2>8. /\ DOMAIN static = DOMAIN videos /\ DOMAIN motion = DOMAIN videos
          /\ motion = [v \in DOMAIN videos |-> motion[v]]
        OBVIOUS
    <2> HIDE DEF static, motion
    <2>9. ASSUME NEW v \in DOMAIN videos
          PROVE  /\ BestScores(motion[v]) = BestScores(static[v])
                 /\ RowsWell(motion[v], videos[v])
        <3>1. IsVideo(videos[v], n, k)
            BY DEF AreVideos
        <3>2. LET best == Highest(ChainScores(videos[v], Prepared(videos[v], d), d))
              IN  /\ BestScores(AlignVideo(videos[v], d, depth)) = best
                  /\ BestScores(MotionGraph(x, <<>>, videos[v], wide, depth)) = best
                  /\ RowsWell(MotionGraph(x, <<>>, videos[v], wide, depth), videos[v])
            BY <2>2, <3>1, BothBest
        <3> QED
            BY <2>7, <3>2
    <2>10. IsPerVideo(motion, ids, c)
        <3>1. \A v \in DOMAIN videos : RowsWell(motion[v], videos[v])
            BY <2>9
        <3> QED
            BY <2>8, <3>1, WellPerVideo
    <2>11. Heads(motion) = Heads(static)
        BY <2>8, <2>9 DEF Heads
    <2> HIDE DEF ids, c
    <2>12. /\ BestScores(Rank(static, depth, d, 1)) = Highest(Heads(static))
           /\ BestScores(Rank(motion, depth, wide, 1)) = Highest(Heads(motion))
        BY <2>2, <2>6, <2>10, RankBest
    <2> QED
        BY <2>4, <2>5, <2>11, <2>12
<1> QED
    BY <1>1, <1>2

\* Whatever is asked, the decoders give the best score.
LEMMA AnswersAgree ==
    ASSUME NEW b \in Builds, NEW q \in Kis,
           PlanAnswer(BuildOf[b], RequestOf[q]).status = 200
    PROVE  SameBest(BuildOf[b], RequestOf[q])
<1> DEFINE build == BuildOf[b]
           x == build.x
           n == Len(RequestOf[q].events)
           videos == SplitVideos(x, PlanMatrix(build, PlanOf(RequestOf[q]), RequestOf[q].flags))
           k == Cardinality(Frames(x))
           d == build.d
           wide == Wide(build)
<1>1. AreVideos(videos, n, k)
    BY GoodVideosAre
<1>2. Alike(d, wide, k)
    <2>1. /\ wide.gap = d.gap /\ wide.power = d.power /\ wide.delta = d.delta
          /\ wide.paths = d.paths
          /\ wide.weight = 0 /\ wide.k = k
        BY WideIs
    <2>2. d.gap \in Int /\ d.paths \in Nat \ {0} /\ Unit \in Nat \ {0}
        BY DecoderIs
    <2>3. k \in Nat
        BY LoadsAssumption, FS_CardinalityType
    <2> HIDE DEF d, wide, k
    <2> QED  BY <2>1, <2>2, <2>3 DEF Alike
<1>3. videos = [i \in 1..Len(videos) |-> videos[i]] /\ DOMAIN videos = 1..Len(videos)
    BY <1>1 DEF AreVideos
<1> HIDE DEF videos, n, k, d, wide, x
<1>4. BestScores(RankMotionGraph(x, <<>>, videos, wide, 1)) = BestScores(RankPaths(videos, d, 1))
    BY <1>1, <1>2, RankedAlike
<1>5. ASSUME NEW i \in DOMAIN videos PROVE SameBestIn(build, videos[i])
    <2>1. IsVideo(videos[i], n, k)
        BY <1>1 DEF AreVideos
    <2>2. 1 \in Nat \ {0}
        OBVIOUS
    <2>3. LET best == Highest(ChainScores(videos[i], Prepared(videos[i], d), d))
          IN  /\ BestScores(AlignVideo(videos[i], d, 1)) = best
              /\ BestScores(MotionGraph(x, <<>>, videos[i], wide, 1)) = best
              /\ RowsWell(MotionGraph(x, <<>>, videos[i], wide, 1), videos[i])
        BY <1>2, <2>1, <2>2, BothBest
    <2> QED
        BY <2>3 DEF SameBestIn, d, x, wide
<1>6. SameBestOver(build, videos)
    BY <1>4, <1>5 DEF SameBestOver, d, x, wide
<1> QED
    BY <1>6 DEF SameBest, videos, x

\* The table of the two decoders' answers, by its entries.
LEMMA BestTableEntries ==
    ASSUME NEW b \in Builds, NEW q \in Kis
    PROVE  BestTable[b][q] = (PlanTable[b][q].status = 200 => SameBest(BuildOf[b], RequestOf[q]))
<1> DEFINE Answers(c) == [k \in Kis |-> PlanTable[c][k].status = 200
                                            => SameBest(BuildOf[c], RequestOf[k])]
<1>1. BestTable = [c \in Builds |-> Answers(c)]
    <2>1. \A c : Table(Answers(c)) = Answers(c)
        BY TableIsItself
    <2>2. BestTable = Table([c \in Builds |-> Table(Answers(c))])
        BY DEF BestTable
    <2>3. [c \in Builds |-> Table(Answers(c))] = [c \in Builds |-> Answers(c)]
        <3> HIDE DEF Answers
        <3> QED  BY <2>1
    <2> HIDE DEF Answers
    <2> QED
        BY <2>2, <2>3, TableIsItself
<1>2. BestTable[b] = Answers(b)
    <2> HIDE DEF Answers
    <2> QED  BY <1>1
<1> QED
    BY <1>2

\* Whatever a server scored, the first path of a search has the best score that any
\* path in the order of the score clusters has, in every video and over all of them,
\* and the motion graph over all frames finds no better and no worse (align_video,
\* decode_motion_graph_video, rank_paths).
THEOREM DecodersFindTheBest == SearchSpec => []DecodersAgree
<1>1. SearchInv => DecodersAgree
    <2> SUFFICES ASSUME SearchInv, NEW t \in Threads, KisReplied(t)
                 PROVE  BestTable[BuildAndQuery(t)[1]][BuildAndQuery(t)[2]]
        BY DEF DecodersAgree
    <2> DEFINE b == BuildAndQuery(t)[1]
               q == BuildAndQuery(t)[2]
    <2>1. b \in Builds /\ q \in Kis /\ PlanAnswer(BuildOf[b], RequestOf[q]).status = 200
        BY ToldByLoad
    <2> HIDE DEF b, q
    <2>2. SameBest(BuildOf[b], RequestOf[q])
        BY <2>1, AnswersAgree
    <2>3. BestTable[b][q]
        BY <2>1, <2>2, BestTableEntries
    <2> QED
        BY <2>3 DEF b, q
<1> QED
    BY <1>1, SearchInvHolds, PTL
=============================================================================
