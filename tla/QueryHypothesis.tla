---------------------------- MODULE QueryHypothesis ----------------------------
(***************************************************************************)
(* The editable event timeline of a query: kis/hypothesis/mutations.py,    *)
(* opened by kis/resolution/initial.py and committed, with undo, by        *)
(* kis/hypothesis/service.py under the session's lock.                     *)
(*                                                                         *)
(* A text is a sequence of pieces, the units at which events are split;    *)
(* whitespace between pieces is left out, so strip() and " ".join are      *)
(* concatenation.  The missing text of an image-only event is the empty    *)
(* sequence.  Images are sets: their order and duplicates do not matter.   *)
(***************************************************************************)
EXTENDS Integers, Sequences, FiniteSets

CONSTANTS
    Pieces,         \* what texts consist of
    Query,          \* canonical query text, a sequence of pieces
    Typed,          \* texts the operator may type
    Images,         \* uploaded images
    MaxEvents,      \* DEFAULT_MAX_TEMPORAL_EVENT_COUNT: of the resolver's timeline only
    Limit,          \* checkpoints kept (20 in the code)
    MaxRevision,    \* bounds the commits
    None            \* Python's None

Text == Seq(Pieces)
Size == Len(Query)
Spans == {s \in [start : 0..Size, end : 0..Size] : s.start < s.end}

ASSUME QueryAssumption == Query \in Seq(Pieces) /\ Size > 0
ASSUME TypedAssumption == \A t \in Typed : t \in Seq(Pieces) /\ t # <<>>
ASSUME LimitAssumption == Limit \in Nat \ {0}
ASSUME MaxEventsAssumption == MaxEvents \in Nat \ {0}
ASSUME RevisionAssumption == MaxRevision \in Nat \ {0}
ASSUME SpanNoneAssumption == None \notin Spans

Event == [text   : Text,
          span   : Spans \cup {None},
          origin : {"source", "user_override", "user_added"},
          images : SUBSET Images]

VARIABLES revision, events, history

vars == <<revision, events, history>>

-----------------------------------------------------------------------------
(* Source grounding.                                                       *)

\* query[start:end]
Slice(start, end) == SubSeq(Query, start + 1, end)

\* query.find(text, from)
Find(text, from) ==
    LET found == {s \in from..(Size - Len(text)) : Slice(s, s + Len(text)) = text}
    IN  IF found = {} THEN -1 ELSE CHOOSE s \in found : \A t \in found : s <= t

\* The span of text if it occurs from position from on and ends by end.
Ground(text, from, end) ==
    LET s == Find(text, from)
    IN  IF s >= 0 /\ s + Len(text) <= end THEN [start |-> s, end |-> s + Len(text)] ELSE None

SourceEvent(span) ==
    [text |-> Slice(span.start, span.end), span |-> span, origin |-> "source", images |-> {}]

\* Each fragment the resolver proposed is found to the right of the one before.
Aligned(spans) ==
    \A i \in DOMAIN spans :
        LET cursor == IF i = 1 THEN 0 ELSE spans[i - 1].end
        IN  spans[i].start = Find(Slice(spans[i].start, spans[i].end), cursor)

\* What the resolver may answer; no later mutation counts the events.
Timelines == UNION {[1..n -> Spans] : n \in 1..MaxEvents}

\* open(): the images of the request go to the first event.
Init ==
    /\ revision = 1
    /\ history = <<>>
    /\ \E spans \in Timelines, images \in SUBSET Images :
          /\ Aligned(spans)
          /\ events = [i \in DOMAIN spans |->
                          [SourceEvent(spans[i]) EXCEPT !.images = IF i = 1 THEN images ELSE {}]]

-----------------------------------------------------------------------------
(* Splitting and merging one event.                                        *)

\* An event whose source text is no longer grounded belongs to the user.
Child(e, text, span, images) ==
    [text |-> text, span |-> span, images |-> images,
     origin |-> IF e.origin # "source" \/ span # None THEN e.origin ELSE "user_override"]

\* Mutant: the right half is looked up from the start of the event.
HalvesFromStart(e, at, left, right) ==
    LET l == SubSeq(e.text, 1, at)
        r == SubSeq(e.text, at + 1, Len(e.text))
        lspan == IF e.span = None THEN None ELSE Ground(l, e.span.start, e.span.end)
        rspan == IF lspan = None THEN None ELSE Ground(r, e.span.start, e.span.end)
    IN  <<Child(e, l, lspan, left), Child(e, r, rspan, right)>>

\* The right half is grounded only to the right of a grounded left half.
Halves(e, at, left, right) ==
    LET l == SubSeq(e.text, 1, at)
        r == SubSeq(e.text, at + 1, Len(e.text))
        lspan == IF e.span = None THEN None ELSE Ground(l, e.span.start, e.span.end)
        rspan == IF lspan = None THEN None ELSE Ground(r, lspan.end, e.span.end)
    IN  <<Child(e, l, lspan, left), Child(e, r, rspan, right)>>

\* Grounded events merge to the part of the query from the one to the other.
Merged(l, r) ==
    LET grounded == l.span # None /\ r.span # None /\ l.span.end <= r.span.start
    IN  [text |-> IF grounded THEN Slice(l.span.start, r.span.end) ELSE l.text \o r.text,
         span |-> IF grounded THEN [start |-> l.span.start, end |-> r.span.end] ELSE None,
         origin |-> IF grounded /\ l.origin = "source" /\ r.origin = "source"
                    THEN "source" ELSE "user_override",
         images |-> l.images \cup r.images]

\* events[first..last] replaced by new.
Replace(first, last, new) ==
    SubSeq(events, 1, first - 1) \o new \o SubSeq(events, last + 1, Len(events))

-----------------------------------------------------------------------------
(* One action per mutation.  A request with another revision than the      *)
(* session's, or one that the mutation refuses, changes nothing.           *)

\* (history[-19:], previous)
Kept(s) == IF Len(s) > Limit THEN SubSeq(s, 2, Len(s)) ELSE s

Room == revision < MaxRevision

Commit(new) ==
    /\ revision' = revision + 1
    /\ events' = new
    /\ history' = Kept(Append(history, events))

\* Every image is assigned to at least one of the halves.
Split ==
    /\ Room
    /\ \E i \in DOMAIN events :
           \E at \in 1..(Len(events[i].text) - 1), left, right \in SUBSET events[i].images :
               /\ left \cup right = events[i].images
               /\ Commit(Replace(i, i, Halves(events[i], at, left, right)))

Merge ==
    /\ Room
    /\ \E i \in 1..(Len(events) - 1) :
           Commit(Replace(i, i + 1, <<Merged(events[i], events[i + 1])>>))

Orders == {p \in [DOMAIN events -> DOMAIN events] : \A i, j \in DOMAIN events : p[i] = p[j] => i = j}

Reorder ==
    /\ Room
    /\ \E p \in Orders : Commit([i \in DOMAIN events |-> events[p[i]]])

\* Mutant: an edited event still counts as source text.
EditAsSource ==
    /\ Room
    /\ \E i \in DOMAIN events, text \in Typed :
           Commit([events EXCEPT ![i].text = text])

\* The span of an edited event stays.
Edit ==
    /\ Room
    /\ \E i \in DOMAIN events, text \in Typed :
           Commit([events EXCEPT ![i] = [@ EXCEPT !.text = text, !.origin = "user_override"]])

Add ==
    /\ Room
    /\ \E position \in 0..Len(events), text \in Typed \cup {<<>>}, images \in SUBSET Images :
           /\ text # <<>> \/ images # {}
           /\ Commit(Replace(position + 1, position,
                             <<[text |-> text, span |-> None, origin |-> "user_added", images |-> images]>>))

\* Attaching an image twice is a new revision of the same events.
AttachImage ==
    /\ Room
    /\ \E i \in DOMAIN events, image \in Images :
           Commit([events EXCEPT ![i].images = @ \cup {image}])

DetachImage ==
    /\ Room
    /\ \E i \in DOMAIN events : \E image \in events[i].images :
           /\ events[i].text # <<>> \/ events[i].images # {image}
           /\ Commit([events EXCEPT ![i].images = @ \ {image}])

\* Mutant: undo goes back to the revision of the checkpoint.
UndoRevision ==
    /\ Room /\ history # <<>>
    /\ revision' = revision - 1
    /\ events' = history[Len(history)]
    /\ history' = SubSeq(history, 1, Len(history) - 1)

Undo ==
    /\ Room /\ history # <<>>
    /\ revision' = revision + 1
    /\ events' = history[Len(history)]
    /\ history' = SubSeq(history, 1, Len(history) - 1)

Next ==
    \/ Split \/ Merge \/ Reorder \/ Edit \/ Add \/ AttachImage \/ DetachImage \/ Undo

Spec == Init /\ [][Next]_vars

-----------------------------------------------------------------------------
(* Properties.                                                             *)

TypeOK ==
    /\ revision \in 1..MaxRevision
    /\ events \in Seq(Event) /\ events # <<>>
    /\ history \in Seq(Seq(Event)) /\ Len(history) <= Limit

\* An event shows something, a user's event claims no source, and the text of a
\* source event is the part of the query its span names.
EventValid(e) ==
    /\ e.text # <<>> \/ e.images # {}
    /\ e.origin = "user_added" => e.span = None
    /\ e.origin = "source" => e.span # None /\ e.text = Slice(e.span.start, e.span.end)

\* Every event of every timeline the session may show or restore is one that
\* KISEvent.validate_evidence accepts, and some event keeps the text that
\* KISIntent.validate_graph wants beside the query's, although model_copy() runs
\* neither.  The limit on the number of events is not claimed: Split and Add
\* do not check it, and go past it.
EventsConsistent ==
    \A timeline \in {events} \cup {history[i] : i \in DOMAIN history} :
        /\ \A i \in DOMAIN timeline : EventValid(timeline[i])
        /\ \E i \in DOMAIN timeline : timeline[i].text # <<>>

\* Merging the halves of a source event gives it back, wherever it was split and
\* however often its pieces occur in the query.
MergeUndoesSplit ==
    \A i \in DOMAIN events :
        events[i].origin = "source" =>
            \A at \in 1..(Len(events[i].text) - 1), left, right \in SUBSET events[i].images :
                left \cup right = events[i].images =>
                    LET halves == Halves(events[i], at, left, right)
                    IN  Merged(halves[1], halves[2]) = events[i]

\* The session is a revisioned document with bounded undo.
Log == INSTANCE RevisionLog WITH
    Documents <- Seq(Event),
    Limit     <- Limit,
    revision  <- revision,
    document  <- events,
    stack     <- history

LogSpec == Log!Spec

=============================================================================
