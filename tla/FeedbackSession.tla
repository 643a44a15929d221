---------------------------- MODULE FeedbackSession ----------------------------
(***************************************************************************)
(* A conversational feedback session: kis/feedback/service.py with the     *)
(* transaction of kis/feedback/store.py, and the page that talks to it     *)
(* (feedbackSession.js and its callers in SearchWorkspace.jsx).            *)
(*                                                                         *)
(* A turn or an undo runs under the slot's lock from its first check to    *)
(* its answer and is one step.  What the language model makes of a message *)
(* is arbitrary, so the transcript it is given is left out.  The results   *)
(* of a search, with the evidence snapshot made for them, are known by the *)
(* overrides searched with.  The page has one call out at a time; it may   *)
(* give up on it, a request may be executed late or more than once, and    *)
(* other callers may use the same session.                                 *)
(***************************************************************************)
EXTENDS Integers, Sequences, FiniteSets

CONSTANTS
    Events,         \* ids of the intent's events
    Invented,       \* other ids the language model may come up with
    Texts,          \* messages and refinements
    Limit,          \* checkpoints kept (20 in the code)
    MaxRequests,    \* bounds the requests that are sent
    None            \* Python's None

ASSUME FeedbackAssumption ==
    /\ IsFiniteSet(Events) /\ Events \cap Invented = {} /\ None \notin Texts
    /\ Limit \in Nat \ {0} /\ MaxRequests \in Nat

VARIABLES
    revision, state, history,   \* FeedbackSession
    committed,                  \* committed_requests: id to request and answer
    requests,                   \* requests sent, which may be executed at any time
    replies,                    \* answers on their way to the page
    page,                       \* what the page shows and the call it waits for
    states, answered            \* history variables: the state at each revision and
                                \* the answers given

sessionVars == <<revision, state, history, committed>>
ghostVars == <<states, answered>>
vars == <<sessionVars, requests, replies, page, ghostVars>>

Ids == 1..MaxRequests
Overrides == [Events \cup Invented -> Texts \cup {None}]
Document == [overrides : Overrides, results : Overrides]
State == [overrides : Overrides, results : Overrides, canUndo : BOOLEAN]
Request == [id : Ids, kind : {"turn", "undo"}, message : Texts \cup {None}, expected : Nat]
Reply == [status : {"applied", "clarification", "proposal"}, revision : Nat, state : State]
Refusals == [status : {"conflict", "stale", "cannot_undo", "failed"}]
Refusal(code) == [status |-> code]

ASSUME NoRecordAssumption == None \notin Request \cup [request : Request, reply : Reply]

Unrefined == [e \in Events \cup Invented |-> None]
Opened == [overrides |-> Unrefined, results |-> Unrefined, canUndo |-> FALSE]

\* open(), with the results of the search on the page.
Init ==
    /\ revision = 1 /\ state = Opened /\ history = <<>>
    /\ committed = [id \in Ids |-> None]
    /\ requests = {} /\ replies = {}
    /\ page = [revision |-> 1, state |-> Opened, frames |-> Unrefined, waits |-> None]
    /\ states = <<Opened>> /\ answered = {}

-----------------------------------------------------------------------------
(* The session.                                                            *)

\* An answer reaches the page only while it waits for it.
Answer(q, reply) ==
    /\ replies' = IF page.waits = q THEN replies \cup {reply} ELSE replies
    /\ answered' = IF reply \in Refusals THEN answered ELSE answered \cup {<<q, reply>>}

Outdated(q) == q.expected # revision

\* A turn that is new and meant for the session as it is.
Fresh(q) == q.kind = "turn" /\ committed[q.id] = None /\ ~Outdated(q)

\* A turn executed before is answered as before.
Replay(q) ==
    /\ q.kind = "turn" /\ committed[q.id] # None /\ committed[q.id].request = q
    /\ Answer(q, committed[q.id].reply)
    /\ UNCHANGED <<sessionVars, requests, page, states>>

\* The id is another turn's, the revision is not the session's, the language
\* model or the search fails, an unknown event is named, or there is nothing to
\* undo.
Refuse(q) ==
    /\ \/ /\ q.kind = "turn" /\ committed[q.id] # None /\ committed[q.id].request # q
          /\ Answer(q, Refusal("conflict"))
       \/ /\ q.kind = "turn" => committed[q.id] = None
          /\ Outdated(q) /\ Answer(q, Refusal("stale"))
       \/ Fresh(q) /\ Answer(q, Refusal("failed"))
       \/ q.kind = "undo" /\ ~Outdated(q) /\ history = <<>> /\ Answer(q, Refusal("cannot_undo"))
    /\ UNCHANGED <<sessionVars, requests, page, states>>

\* Mutant: a clarification is not recorded as the answer to its request.
RespondUnrecorded(q) ==
    /\ Fresh(q)
    /\ \E status \in {"clarification", "proposal"} :
           Answer(q, [status |-> status, revision |-> revision, state |-> state])
    /\ UNCHANGED <<sessionVars, requests, page, states>>

\* clarify and query_edit_proposal change nothing but the transcript.
Respond(q) ==
    /\ Fresh(q)
    /\ \E status \in {"clarification", "proposal"} :
           LET reply == [status |-> status, revision |-> revision, state |-> state]
           IN  /\ committed' = [committed EXCEPT ![q.id] = [request |-> q, reply |-> reply]]
               /\ Answer(q, reply)
    /\ UNCHANGED <<revision, state, history, requests, page, states>>

Checkpoint == [overrides |-> state.overrides, results |-> state.results]

\* (history[-19:], checkpoint)
Kept(s) == IF Len(s) > Limit THEN SubSeq(s, 2, Len(s)) ELSE s

\* The session enters the next revision.
Advance(new) ==
    /\ revision' = revision + 1
    /\ state' = new
    /\ states' = Append(states, new)

\* commit_feedback_turn()
CommitTurn(q, overrides) ==
    LET new == [overrides |-> overrides, results |-> overrides, canUndo |-> TRUE]
        reply == [status |-> "applied", revision |-> revision + 1, state |-> new]
    IN  /\ Fresh(q)
        /\ history' = Kept(Append(history, Checkpoint))
        /\ Advance(new)
        /\ committed' = [committed EXCEPT ![q.id] = [request |-> q, reply |-> reply]]
        /\ Answer(q, reply)
        /\ UNCHANGED <<requests, page>>

\* Only event_ids is checked against the intent; the overrides are taken from
\* the keys of refinements.
Refine(q) ==
    \E ids \in SUBSET (Events \cup Invented) : \E refinements \in [ids -> Texts] :
        CommitTurn(q, [e \in Events \cup Invented |->
                           IF e \in ids THEN refinements[e] ELSE state.overrides[e]])

Repair(q) ==
    \E e \in Events : CommitTurn(q, [state.overrides EXCEPT ![e] = q.message])

Last == history[Len(history)]
Rest == SubSeq(history, 1, Len(history) - 1)

Restore(q, results, canUndo) ==
    LET new == [overrides |-> Last.overrides, results |-> results, canUndo |-> canUndo]
    IN  /\ q.kind = "undo" /\ ~Outdated(q) /\ history # <<>>
        /\ history' = Rest
        /\ Advance(new)
        /\ Answer(q, [status |-> "applied", revision |-> revision + 1, state |-> new])
        /\ UNCHANGED <<committed, requests, page>>

\* Mutant: the results stay those of the turn that is undone.
UndoKeepingResults(q) == Restore(q, state.results, Rest # <<>>)

\* undo_feedback() leaves the transcript and the committed requests alone.
Undo(q) == Restore(q, Last.results, Rest # <<>>)

Execute(q) ==
    \/ Replay(q) \/ Refuse(q) \/ Respond(q) \/ Refine(q) \/ Repair(q) \/ Undo(q)

-----------------------------------------------------------------------------
(* The page and other callers.                                             *)

Used == {q.id : q \in requests}

\* submit() and handleUndoFeedback() return while a call is out.
Send(q) ==
    /\ page.waits = None /\ q.expected = page.revision
    /\ q.id \notin Used /\ \A id \in Ids : id < q.id => id \in Used
    /\ IF q.kind = "turn" THEN q.message # None ELSE q.message = None /\ page.state.canUndo
    /\ requests' = requests \cup {q}
    /\ page' = [page EXCEPT !.waits = q]
    /\ UNCHANGED <<sessionVars, replies, ghostVars>>

\* Another caller sends a request under a new or a used id.
SendOther(q) ==
    /\ Cardinality(requests) < MaxRequests /\ q \notin requests /\ q.expected <= revision + 1
    /\ \A id \in Ids : id < q.id => id \in Used
    /\ (q.kind = "turn") = (q.message # None)
    /\ requests' = requests \cup {q}
    /\ UNCHANGED <<sessionVars, replies, page, ghostVars>>

Idle(p) == [p EXCEPT !.waits = None]

\* applyFeedbackFailure()
ReceiveRefusal ==
    /\ \E reply \in replies : reply \in Refusals
    /\ replies' = {}
    /\ page' = Idle(page)
    /\ UNCHANGED <<sessionVars, requests, ghostVars>>

\* The call fails on its way there or back; the page does not know which.
GiveUp ==
    /\ page.waits # None
    /\ replies' = {}
    /\ page' = Idle(page)
    /\ UNCHANGED <<sessionVars, requests, ghostVars>>

\* applyFeedbackSuccess() ignores an older revision; the frames are set anyway.
ReceiveTurn ==
    /\ page.waits # None /\ page.waits.kind = "turn"
    /\ \E reply \in replies \ Refusals :
           LET shown == IF reply.revision < page.revision \/ reply.status = "clarification"
                        THEN page
                        ELSE [page EXCEPT !.revision = reply.revision, !.state = reply.state]
           IN  page' = Idle(IF reply.status = "applied"
                            THEN [shown EXCEPT !.frames = reply.state.results] ELSE shown)
    /\ replies' = {}
    /\ UNCHANGED <<sessionVars, requests, ghostVars>>

ShowUndo(shown) ==
    /\ page.waits # None /\ page.waits.kind = "undo"
    /\ \E reply \in replies \ Refusals : page' = Idle(shown[reply])
    /\ replies' = {}
    /\ UNCHANGED <<sessionVars, requests, ghostVars>>

\* Mutant: the frames of the turn that was undone stay on the page.
ReceiveUndoKeepingFrames ==
    ShowUndo([r \in replies \ Refusals |->
                 [page EXCEPT !.revision = r.revision, !.state = r.state]])

\* applyUndoSuccess()
ReceiveUndo ==
    ShowUndo([r \in replies \ Refusals |->
                 [page EXCEPT !.revision = r.revision, !.state = r.state, !.frames = r.state.results]])

\* Requests name revisions that exist or will.
Sendable == [id : Ids, kind : {"turn", "undo"}, message : Texts \cup {None},
             expected : 1..(MaxRequests + 1)]

Next ==
    \/ \E q \in requests : Execute(q)
    \/ \E q \in Sendable : Send(q) \/ SendOther(q)
    \/ ReceiveRefusal \/ ReceiveTurn \/ ReceiveUndo \/ GiveUp

Spec == Init /\ [][Next]_vars

-----------------------------------------------------------------------------
(* Properties.                                                             *)

TypeOK ==
    /\ revision \in Nat \ {0} /\ state \in State
    /\ history \in Seq(Document) /\ Len(history) <= Limit
    /\ requests \subseteq Request
    /\ committed \in [Ids -> {None} \cup [request : Request, reply : Reply]]
    /\ replies \subseteq Reply \cup Refusals
    /\ page \in [revision : Nat, state : State, frames : Overrides, waits : requests \cup {None}]
    /\ states \in Seq(State) /\ answered \subseteq Request \X Reply

\* Whatever is executed again, late or after an undo, a request takes effect at
\* most once and is told the same every time it is told anything but a refusal.
AnswersStable == \A x, y \in answered : x[1] = y[1] => x[2] = y[2]

\* The results are always those of a search with the overrides in force, in the
\* session, in every checkpoint an undo may restore, and in every answer.
ResultsMatchOverrides ==
    /\ state.overrides = state.results
    /\ \A i \in DOMAIN history : history[i].overrides = history[i].results
    /\ \A x \in answered : x[2].state.overrides = x[2].state.results

\* What the page shows was the session at the revision that it names in its next
\* request, undo button and frames included.
PageShowsRevision ==
    /\ page.revision <= revision /\ page.state = states[page.revision]
    /\ page.frames = page.state.results

\* The session is a revisioned document with bounded undo.
Log == INSTANCE RevisionLog WITH
    Documents <- Document,
    Limit     <- Limit,
    revision  <- revision,
    document  <- Checkpoint,
    stack     <- history

LogSpec == Log!Spec

=============================================================================
