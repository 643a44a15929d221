------------------------------ MODULE EventTrail ------------------------------
(***************************************************************************)
(* One EventTrail exploration session: the constraints an operator places  *)
(* on the temporal path of one candidate video, and the path re-decoded    *)
(* after every change.  Each action is one handler of                      *)
(* event_trail/actions/transitions.py, or EventTrailService.alternatives,  *)
(* run under the session's lock and with the current trail revision as the *)
(* expected one; a refused request leaves the session as it is.            *)
(***************************************************************************)
EXTENDS TrailDecoder, Sequences

CONSTANTS
    WindowInputs,   \* windows operators ask for
    MaxRevision     \* bound on trail_revision

ASSUME WindowInputsAssumption == WindowInputs \subseteq Int \X Int
ASSUME MaxRevisionAssumption == MaxRevision \in Nat

VARIABLES
    trail_revision,
    constraints,
    current_path,
    last_valid_path,
    history,                \* checkpoints, oldest first
    submission_selection,
    status,
    focused_event_id,
    alternatives            \* the modes last listed for the focused event

resultVars == <<current_path, last_valid_path, status>>
focusVars == <<focused_event_id, alternatives>>
vars == <<trail_revision, constraints, history, submission_selection,
          resultVars, focusVars>>

Selections == [event : Events, frame : Times]
Checkpoints == [constraints : Constraints, selection : Selections \cup {None}]

\* open(): the path of the search result, chronological but ranked by another
\* scorer than decode() uses.
Init ==
    /\ trail_revision = 0
    /\ constraints = NoConstraints
    /\ current_path \in Feasible(NoConstraints)
    /\ last_valid_path = current_path
    /\ history = <<>>
    /\ submission_selection = None
    /\ status = "active"
    /\ focused_event_id = None
    /\ alternatives = {}

-----------------------------------------------------------------------------

Anchored(e) == constraints.anchors[e] # None
Checkpoint == [constraints |-> constraints, selection |-> submission_selection]

\* Adopt the outcome of a decode: the last valid path outlives exhaustion.
Adopt(path) ==
    /\ current_path' = path
    /\ status' = IF path = None THEN "exhausted" ELSE "active"
    /\ last_valid_path' = IF path = None THEN last_valid_path ELSE path

Commit(c, selection, path) ==
    /\ trail_revision < MaxRevision
    /\ trail_revision' = trail_revision + 1
    /\ history' = Append(history, Checkpoint)
    /\ constraints' = c
    /\ submission_selection' = selection
    /\ Adopt(path)

\* Keep, Use and SetWindow are refused when no path is left.
CommitIfFeasible(c, selection) ==
    /\ Decode(c) # None
    /\ Commit(c, selection, Decode(c))

DropFocus == focused_event_id' = None /\ alternatives' = {}

-----------------------------------------------------------------------------

AnchorCurrent(e) ==
    /\ current_path # None
    /\ ~Anchored(e)
    /\ CommitIfFeasible(WithAnchor(constraints, e, current_path[e]),
                        submission_selection)

Approve(e) == AnchorCurrent(e) /\ UNCHANGED focusVars

KeepOccurrence(e) == AnchorCurrent(e) /\ DropFocus

UseFrame(e, t) ==
    /\ ~Anchored(e)
    /\ CommitIfFeasible(WithAnchor(constraints, e, t), [event |-> e, frame |-> t])
    /\ UNCHANGED focusVars

Decline(e) ==
    /\ current_path # None
    /\ ~Anchored(e)
    /\ LET c == WithRejected(constraints, e, RejectionCell(current_path[e]))
       IN  Commit(c, submission_selection, Decode(c))
    /\ UNCHANGED focusVars

\* Mutant: the selected frame outlives its anchor.
ClearAnchorOnly(e) ==
    LET c == WithAnchor(constraints, e, None)
    IN  /\ Commit(c, submission_selection, Decode(c))
        /\ UNCHANGED focusVars

ClearAnchor(e) ==
    LET c == WithAnchor(constraints, e, None)
        selected == submission_selection # None /\ submission_selection.event = e
    IN  /\ Commit(c, IF selected THEN None ELSE submission_selection, Decode(c))
        /\ UNCHANGED focusVars

SetWindow(w) ==
    /\ 0 <= w[1] /\ w[1] <= w[2]
    /\ CommitIfFeasible(WithWindow(constraints, w), submission_selection)
    /\ UNCHANGED focusVars

ClearWindow ==
    LET c == WithWindow(constraints, None)
    IN  /\ Commit(c, submission_selection, Decode(c))
        /\ UNCHANGED focusVars

\* The constraints stay; the checkpoint makes the repair undoable.
RepairEvent(e) ==
    LET reference == IF current_path = None THEN last_valid_path ELSE current_path
    IN  /\ ~Anchored(e)
        /\ Commit(constraints, submission_selection, Repair(constraints, reference, e))
        /\ UNCHANGED focusVars

UseAlternative(e, m) ==
    /\ focused_event_id = e
    /\ CommitIfFeasible(WithAnchor(constraints, e, m.frame), submission_selection)
    /\ DropFocus

RejectMode(e, m) ==
    LET c == WithRejected(constraints, e, m.frames)
    IN  /\ focused_event_id = e
        /\ Commit(c, submission_selection, Decode(c))
        /\ DropFocus

\* Mutant: undo leaves the frame held for submission as it is.
UndoKeepingSelection ==
    /\ history # <<>>
    /\ trail_revision < MaxRevision
    /\ constraints' = history[Len(history)].constraints
    /\ UNCHANGED submission_selection
    /\ Adopt(Decode(history[Len(history)].constraints))
    /\ trail_revision' = trail_revision + 1
    /\ history' = SubSeq(history, 1, Len(history) - 1)
    /\ DropFocus

Undo ==
    /\ history # <<>>
    /\ trail_revision < MaxRevision
    /\ LET top == history[Len(history)]
       IN  /\ constraints' = top.constraints
           /\ submission_selection' = top.selection
           /\ Adopt(Decode(top.constraints))
    /\ trail_revision' = trail_revision + 1
    /\ history' = SubSeq(history, 1, Len(history) - 1)
    /\ DropFocus

\* alternatives(): the cached list is returned as it is, whatever was
\* committed since it was computed; the revision does not move.
FocusEvent(e) ==
    /\ ~(focused_event_id = e /\ alternatives # {})
    /\ focused_event_id' = e
    /\ alternatives' \in Alternatives(constraints, e)
    /\ UNCHANGED <<trail_revision, constraints, history, submission_selection,
                   resultVars>>

Next ==
    \/ \E e \in Events :
        \/ Approve(e)
        \/ KeepOccurrence(e)
        \/ \E t \in Times : UseFrame(e, t)
        \/ Decline(e)
        \/ ClearAnchor(e)
        \/ RepairEvent(e)
        \/ \E m \in alternatives : UseAlternative(e, m) \/ RejectMode(e, m)
        \/ FocusEvent(e)
    \/ \E w \in WindowInputs : SetWindow(w)
    \/ ClearWindow
    \/ Undo

Spec == Init /\ [][Next]_vars

-----------------------------------------------------------------------------
(* Properties.                                                             *)

TypeOK ==
    /\ trail_revision \in 0..MaxRevision
    /\ constraints \in Constraints
    /\ current_path \in Paths \cup {None}
    /\ last_valid_path \in Paths
    /\ history \in Seq(Checkpoints)
    /\ submission_selection \in Selections \cup {None}
    /\ status \in {"active", "exhausted"}
    /\ focused_event_id \in Events \cup {None}
    /\ alternatives \subseteq Modes

\* The path shown for an active trail meets every constraint committed so far,
\* whichever handler produced it, and is the one a later failure falls back to.
ActivePathFeasible ==
    /\ status = "active" <=> current_path # None
    /\ status = "active" =>
           current_path \in Feasible(constraints) /\ last_valid_path = current_path

\* "Exhausted" is never a false alarm: no admissible path is left, although
\* repair() searches only the paths near the reference path.
ExhaustedIffInfeasible ==
    status = "exhausted" <=> Feasible(constraints) = {}

\* From the first action on, an active trail shows the best path its constraints
\* admit: the localized search of repair() loses nothing against a full decode,
\* and no handler leaves the path of older constraints in place.
ActivePathIsBest ==
    status = "active" /\ trail_revision > 0 =>
        \A q \in Feasible(constraints) : Score[q] <= Score[current_path]

\* Anchors stay chronological and inside the window, in exhausted trails and
\* after any mix of stale alternatives, window changes and undos.
AnchorsOrdered(c) ==
    \A i \in Events :
        c.anchors[i] # None =>
            /\ InWindow(c.window, c.anchors[i])
            /\ \A j \in Events :
                  i < j /\ c.anchors[j] # None =>
                      c.anchors[i] < ClusterStart[c.anchors[j]]

AnchorsConsistent == AnchorsOrdered(constraints)

\* The frame held for submission belongs to an event that is still anchored.
SelectionAnchored(c, selection) ==
    selection # None => c.anchors[selection.event] # None

SelectionStaysAnchored == SelectionAnchored(constraints, submission_selection)

\* The bottom of the history is the unconstrained trail, so an exhausted trail
\* always has something to undo and undoing everything makes it active again.
UndoReachesStart ==
    /\ history = <<>> =>
           constraints = NoConstraints /\ submission_selection = None
    /\ history # <<>> =>
           history[1] = [constraints |-> NoConstraints, selection |-> None]

\* The intervals offered for rejection hold their own peak and are disjoint:
\* rejecting one mode never removes the representative of another.
ModesDisjoint ==
    \A m \in alternatives :
        /\ m.frame \in m.frames
        /\ \A n \in alternatives : n # m => m.frames \cap n.frames = {}

\* Everything a client reads under one revision number, except the listed
\* alternatives, is the same as long as the number is.
RevisionTracksChange ==
    [][ <<constraints, submission_selection, resultVars>>' #
            <<constraints, submission_selection, resultVars>>
        => trail_revision' = trail_revision + 1 ]_vars

\* Rejecting one listed mode spares the others: a path shown for another mode
\* that was admissible, on a fresh list or a stale one, still is.
RejectionSparesOthers ==
    [][ \A e \in Events, m \in alternatives :
            RejectMode(e, m) =>
                \A n \in alternatives \ {m} :
                    n.path \in Feasible(constraints) => n.path \in Feasible(constraints') ]_vars

\* The session is a revision log of constraints and selection.
Log == INSTANCE RevisionLog WITH
    Documents <- Checkpoints,
    Limit     <- MaxRevision + 1,
    revision  <- trail_revision,
    document  <- Checkpoint,
    stack     <- history

LogSpec == Log!Spec
=============================================================================
