------------------------- MODULE QueryHypothesisProofs -------------------------
(***************************************************************************)
(* What the editing of a query's timeline keeps for every query, every set *)
(* of typed texts and images and every bound: the events that can be shown *)
(* or restored agree with the query, merging undoes splitting, and the     *)
(* session is a revision log.                                              *)
(***************************************************************************)
EXTENDS QueryHypothesis, SequenceTheorems, FiniteSetTheorems, FunctionTheorems,
        WellFoundedInduction, TLAPS

\* A set of natural numbers that is not empty has a least member.
LEMMA LeastNatural ==
    ASSUME NEW I, I \subseteq Nat, I # {}
    PROVE  \E x \in I : \A y \in I : x <= y
<1>1. PICK x \in I : \A y \in I : <<y, x>> \notin OpToRel(<, Nat)
    BY WFMin, NatLessThanWellFounded
<1>2. ASSUME NEW y \in I
      PROVE  x <= y
    <2>1. x \in Nat /\ y \in Nat
        OBVIOUS
    <2>2. y < x => <<y, x>> \in OpToRel(<, Nat)
        BY <2>1 DEF OpToRel
    <2>3. <<y, x>> \notin OpToRel(<, Nat)
        BY <1>1
    <2>4. ~(y < x)
        BY <2>2, <2>3
    <2> QED  BY <2>1, <2>4
<1> QED
    BY <1>2

Valid(timeline) ==
    /\ \A i \in DOMAIN timeline : EventValid(timeline[i])
    /\ \E i \in DOMAIN timeline : timeline[i].text # <<>>

IInv == TypeOK /\ EventsConsistent

-----------------------------------------------------------------------------
(* Source grounding.                                                       *)

\* A slice of the query has the length of its range.
LEMMA SliceProperties ==
    ASSUME NEW a \in 0..Size, NEW b \in a..Size
    PROVE  Slice(a, b) \in Text /\ Len(Slice(a, b)) = b - a
<1>1. Query \in Seq(Pieces) /\ Size \in Nat
    BY QueryAssumption, LenProperties DEF Size
<1>2. \A i \in (a + 1)..b : Query[i] \in Pieces
    BY <1>1, ElementOfSeq DEF Size
<1>3. a + 1 \in Int /\ b \in Int
    BY <1>1
<1>4. /\ SubSeq(Query, a + 1, b) \in Seq(Pieces)
      /\ Len(SubSeq(Query, a + 1, b)) = IF a + 1 <= b THEN b - (a + 1) + 1 ELSE 0
    BY <1>2, <1>3, SubSeqProperties
<1> QED  BY <1>1, <1>4 DEF Slice, Text

\* A part of a part of the query.
LEMMA SliceOfSlice ==
    ASSUME NEW a \in 0..Size, NEW b \in a..Size, NEW m \in 1..(b - a), NEW n \in 1..(b - a)
    PROVE  SubSeq(Slice(a, b), m, n) = Slice(a + m - 1, a + n)
<1>1. Query \in Seq(Pieces) /\ Size \in Nat
    BY QueryAssumption, LenProperties DEF Size
<1>2. /\ a + 1 \in 1..Len(Query) /\ b \in 1..Len(Query)
      /\ m \in 1..(b - (a + 1) + 1) /\ n \in 1..(b - (a + 1) + 1)
    BY <1>1 DEF Size
<1>3. SubSeq(SubSeq(Query, a + 1, b), m, n) = SubSeq(Query, (a + 1) + m - 1, (a + 1) + n - 1)
    BY <1>1, <1>2, SubSeqOfSubSeq
<1>4. (a + 1) + m - 1 = (a + m - 1) + 1 /\ (a + 1) + n - 1 = a + n
    BY <1>1, <1>2
<1> QED  BY <1>3, <1>4 DEF Slice

Found(text, from) == {s \in from..(Size - Len(text)) : Slice(s, s + Len(text)) = text}

\* Find gives the leftmost place where a text stands, or -1.
LEMMA FindProperties ==
    ASSUME NEW text \in Text, NEW from \in Nat
    PROVE  /\ Found(text, from) = {} => Find(text, from) = -1
           /\ Found(text, from) # {} => /\ Find(text, from) \in Found(text, from)
                                        /\ \A s \in Found(text, from) : Find(text, from) <= s
<1>1. Found(text, from) \subseteq Nat
    BY DEF Found
<1>2. ASSUME Found(text, from) # {}
      PROVE  \E s \in Found(text, from) : \A t \in Found(text, from) : s <= t
    BY <1>1, <1>2, LeastNatural
<1> QED  BY <1>2 DEF Find, Found

\* A grounded text is the part of the query that its span names.
LEMMA GroundProperties ==
    ASSUME NEW text \in Text, text # <<>>, NEW from \in Nat, NEW end \in 0..Size
    PROVE  /\ Ground(text, from, end) \in Spans \cup {None}
           /\ Ground(text, from, end) # None =>
                  /\ Slice(Ground(text, from, end).start, Ground(text, from, end).end) = text
                  /\ Ground(text, from, end).start >= from /\ Ground(text, from, end).end <= end
<1> DEFINE s == Find(text, from)
<1>1. Size \in Nat /\ Len(text) \in Nat /\ Len(text) > 0
    BY QueryAssumption, LenProperties, EmptySeq DEF Size, Text
<1>2. CASE s >= 0 /\ s + Len(text) <= end
    <2>1. s \in Found(text, from)
        BY <1>2, FindProperties
    <2>2. s \in Nat /\ s >= from /\ Slice(s, s + Len(text)) = text
        BY <1>1, <1>2, <2>1 DEF Found
    <2>3. Ground(text, from, end) = [start |-> s, end |-> s + Len(text)]
        BY <1>2 DEF Ground
    <2> HIDE DEF s
    <2>4. [start |-> s, end |-> s + Len(text)] \in Spans
        BY <1>1, <1>2, <2>2 DEF Spans
    <2> QED  BY <1>2, <2>2, <2>3, <2>4
<1>3. CASE ~(s >= 0 /\ s + Len(text) <= end)
    BY <1>3 DEF Ground
<1> QED  BY <1>2, <1>3

\* A text is grounded where the search for it starts.
LEMMA GroundHere ==
    ASSUME NEW a \in 0..Size, NEW b \in a..Size, a < b, NEW end \in b..Size
    PROVE  Ground(Slice(a, b), a, end) = [start |-> a, end |-> b]
<1> DEFINE text == Slice(a, b)
<1>1. Size \in Nat
    BY QueryAssumption, LenProperties DEF Size
<1>2. text \in Text /\ Len(text) = b - a
    BY SliceProperties
<1>3. a \in Found(text, a)
    <2>1. a \in a..(Size - Len(text)) /\ a + Len(text) = b
        BY <1>1, <1>2
    <2> QED  BY <2>1 DEF Found
<1>4. Find(text, a) = a
    <2>1. Find(text, a) \in Found(text, a) /\ Find(text, a) <= a
        BY <1>1, <1>2, <1>3, FindProperties
    <2>2. Find(text, a) >= a /\ Find(text, a) \in Int
        BY <1>1, <2>1 DEF Found
    <2> QED  BY <1>1, <2>1, <2>2
<1> HIDE DEF text
<1>5. Ground(text, a, end) = [start |-> a, end |-> b]
    BY <1>1, <1>2, <1>4 DEF Ground
<1> QED  BY <1>5 DEF text

\* A span lies within the query and is not empty.
LEMMA SpanBounds ==
    ASSUME NEW span \in Spans
    PROVE  /\ span.start \in 0..Size /\ span.end \in span.start..Size /\ span.start < span.end
           /\ Size \in Nat /\ span # None
<1>1. Size \in Nat
    BY QueryAssumption, LenProperties DEF Size
<1> QED  BY <1>1, SpanNoneAssumption DEF Spans

-----------------------------------------------------------------------------
(* Splitting and merging one event.                                        *)

\* A part of a valid event is valid when its span names its text.
LEMMA ChildProperties ==
    ASSUME NEW e \in Event, EventValid(e), NEW text \in Text, text # <<>>,
           NEW span \in Spans \cup {None}, span # None => Slice(span.start, span.end) = text,
           e.span = None => span = None, NEW images \in SUBSET Images
    PROVE  /\ Child(e, text, span, images) \in Event /\ EventValid(Child(e, text, span, images))
           /\ Child(e, text, span, images).text = text
<1>1. Child(e, text, span, images) \in Event
    BY DEF Child, Event
<1> QED  BY <1>1 DEF Child, EventValid, Event

\* Both parts of a text that is split inside are texts and not empty.
LEMMA SplitTexts ==
    ASSUME NEW text \in Text, NEW at \in 1..(Len(text) - 1)
    PROVE  /\ SubSeq(text, 1, at) \in Text /\ SubSeq(text, 1, at) # <<>>
           /\ SubSeq(text, at + 1, Len(text)) \in Text /\ SubSeq(text, at + 1, Len(text)) # <<>>
<1>1. text \in Seq(Pieces) /\ Len(text) \in Nat /\ \A i \in 1..Len(text) : text[i] \in Pieces
    BY LenProperties, ElementOfSeq DEF Text
<1>2. SubSeq(text, 1, at) \in Seq(Pieces) /\ Len(SubSeq(text, 1, at)) = at
    <2>1. \A i \in 1..at : text[i] \in Pieces
        BY <1>1
    <2> QED  BY <1>1, <2>1, SubSeqProperties
<1>3. /\ SubSeq(text, at + 1, Len(text)) \in Seq(Pieces)
      /\ Len(SubSeq(text, at + 1, Len(text))) = Len(text) - at
    <2>1. (\A i \in (at + 1)..Len(text) : text[i] \in Pieces) /\ at + 1 \in Int /\ Len(text) \in Int
        BY <1>1
    <2>2. /\ SubSeq(text, at + 1, Len(text)) \in Seq(Pieces)
          /\ Len(SubSeq(text, at + 1, Len(text)))
                 = IF at + 1 <= Len(text) THEN Len(text) - (at + 1) + 1 ELSE 0
        BY <2>1, SubSeqProperties
    <2> QED  BY <1>1, <2>2
<1>4. <<>> \in Seq(Pieces) /\ Len(<<>>) = 0
    BY EmptySeq
<1>5. Len(text) - at # 0 /\ at # 0
    BY <1>1
<1> QED  BY <1>2, <1>3, <1>4, <1>5 DEF Text

\* The halves of a valid event are valid.
LEMMA HalvesProperties ==
    ASSUME NEW e \in Event, EventValid(e), NEW at \in 1..(Len(e.text) - 1),
           NEW left \in SUBSET Images, NEW right \in SUBSET Images
    PROVE  /\ Halves(e, at, left, right) \in Seq(Event) /\ Len(Halves(e, at, left, right)) = 2
           /\ \A i \in 1..2 : /\ EventValid(Halves(e, at, left, right)[i])
                              /\ Halves(e, at, left, right)[i].text # <<>>
<1> DEFINE l == SubSeq(e.text, 1, at)
           r == SubSeq(e.text, at + 1, Len(e.text))
           lspan == IF e.span = None THEN None ELSE Ground(l, e.span.start, e.span.end)
           rspan == IF lspan = None THEN None ELSE Ground(r, lspan.end, e.span.end)
<1>1. e.text \in Text /\ e.span \in Spans \cup {None}
    BY DEF Event
<1>2. l \in Text /\ l # <<>> /\ r \in Text /\ r # <<>>
    BY <1>1, SplitTexts
<1>3. e.span # None => e.span.start \in Nat /\ e.span.end \in 0..Size
    BY <1>1, SpanBounds
<1>4. Halves(e, at, left, right) = <<Child(e, l, lspan, left), Child(e, r, rspan, right)>>
    BY DEF Halves
<1> HIDE DEF l, r
<1>5. /\ lspan \in Spans \cup {None} /\ (lspan # None => Slice(lspan.start, lspan.end) = l)
      /\ (e.span = None => lspan = None)
    BY <1>1, <1>2, <1>3, GroundProperties
<1> HIDE DEF lspan
<1>6. /\ rspan \in Spans \cup {None} /\ (rspan # None => Slice(rspan.start, rspan.end) = r)
      /\ (e.span = None => rspan = None)
    <2>1. lspan # None => lspan.end \in Nat
        BY <1>5, SpanBounds
    <2> QED  BY <1>1, <1>2, <1>3, <1>5, <2>1, GroundProperties
<1> HIDE DEF rspan
<1>7. /\ Child(e, l, lspan, left) \in Event /\ EventValid(Child(e, l, lspan, left))
      /\ Child(e, l, lspan, left).text = l
    BY <1>2, <1>5, ChildProperties
<1>8. /\ Child(e, r, rspan, right) \in Event /\ EventValid(Child(e, r, rspan, right))
      /\ Child(e, r, rspan, right).text = r
    BY <1>2, <1>6, ChildProperties
<1> QED  BY <1>2, <1>4, <1>7, <1>8

\* Two valid events merge to a valid one.
LEMMA MergedProperties ==
    ASSUME NEW l \in Event, EventValid(l), NEW r \in Event, EventValid(r)
    PROVE  /\ Merged(l, r) \in Event /\ EventValid(Merged(l, r))
           /\ l.text # <<>> \/ r.text # <<>> => Merged(l, r).text # <<>>
<1>1. /\ l.text \in Seq(Pieces) /\ r.text \in Seq(Pieces)
      /\ l.span \in Spans \cup {None} /\ r.span \in Spans \cup {None}
      /\ l.images \in SUBSET Images /\ r.images \in SUBSET Images
    BY DEF Event, Text
<1>2. CASE l.span # None /\ r.span # None /\ l.span.end <= r.span.start
    <2> DEFINE text == Slice(l.span.start, r.span.end)
               span == [start |-> l.span.start, end |-> r.span.end]
               origin == IF l.origin = "source" /\ r.origin = "source" THEN "source" ELSE "user_override"
    <2>1. /\ l.span.start \in 0..Size /\ r.span.end \in l.span.start..Size
          /\ l.span.start < r.span.end /\ Size \in Nat
        BY <1>1, <1>2, SpanBounds
    <2>2. text \in Text /\ Len(text) = r.span.end - l.span.start
        BY <2>1, SliceProperties
    <2>3. span \in Spans /\ span # None
        BY <2>1, SpanNoneAssumption DEF Spans
    <2>4. text # <<>>
        BY <2>1, <2>2, EmptySeq
    <2>5. Merged(l, r) = [text |-> text, span |-> span, origin |-> origin, images |-> l.images \cup r.images]
        BY <1>2 DEF Merged
    <2>6. span.start = l.span.start /\ span.end = r.span.end
        OBVIOUS
    <2> HIDE DEF text, span
    <2>7. Merged(l, r) \in Event
        BY <1>1, <2>2, <2>3, <2>5 DEF Event
    <2>8. text = Slice(span.start, span.end)
        BY <2>6 DEF text
    <2> QED  BY <2>3, <2>4, <2>5, <2>7, <2>8 DEF EventValid
<1>3. CASE ~(l.span # None /\ r.span # None /\ l.span.end <= r.span.start)
    <2> DEFINE text == l.text \o r.text
    <2>1. text \in Text /\ (text = <<>> => l.text = <<>> /\ r.text = <<>>)
        BY <1>1, ConcatProperties, ConcatEqualIffEmpty DEF Text
    <2>2. Merged(l, r) = [text |-> text, span |-> None, origin |-> "user_override",
                          images |-> l.images \cup r.images]
        BY <1>3 DEF Merged
    <2> HIDE DEF text
    <2>3. Merged(l, r) \in Event
        BY <1>1, <2>1, <2>2 DEF Event
    <2> QED  BY <2>1, <2>2, <2>3 DEF EventValid
<1> QED  BY <1>2, <1>3

\* A source event is given back by merging its halves: each is found where it was.
LEMMA MergeOfHalves ==
    ASSUME NEW e \in Event, EventValid(e), e.origin = "source",
           NEW at \in 1..(Len(e.text) - 1), NEW left, NEW right, left \cup right = e.images
    PROVE  LET halves == Halves(e, at, left, right)
           IN  Merged(halves[1], halves[2]) = e
<1> DEFINE a == e.span.start
           b == e.span.end
           m == a + at
<1>1. /\ e.span \in Spans /\ e.span # None /\ e.text = Slice(a, b)
    BY DEF EventValid, Event
<1>2. a \in 0..Size /\ b \in a..Size /\ a < b /\ Size \in Nat /\ e.span = [start |-> a, end |-> b]
    BY <1>1, SpanBounds DEF Spans
<1> HIDE DEF a, b
<1>3. Len(e.text) = b - a
    BY <1>1, <1>2, SliceProperties
<1>4. m \in 0..Size /\ m \in a..Size /\ b \in m..Size /\ a < m /\ m < b /\ at \in 1..(b - a)
    BY <1>2, <1>3
<1>5. SubSeq(e.text, 1, at) = Slice(a, m)
    <2>1. 1 \in 1..(b - a) /\ a + 1 - 1 = a
        BY <1>2
    <2>2. SubSeq(Slice(a, b), 1, at) = Slice(a + 1 - 1, a + at)
        BY <1>2, <1>4, <2>1, SliceOfSlice
    <2> QED  BY <1>1, <2>1, <2>2 DEF m
<1>6. SubSeq(e.text, at + 1, Len(e.text)) = Slice(m, b)
    <2>1. at + 1 \in 1..(b - a) /\ b - a \in 1..(b - a)
        BY <1>2, <1>3
    <2>2. SubSeq(Slice(a, b), at + 1, b - a) = Slice(a + (at + 1) - 1, a + (b - a))
        BY <1>2, <2>1, SliceOfSlice
    <2>3. a + (at + 1) - 1 = m /\ a + (b - a) = b
        BY <1>2
    <2> QED  BY <1>1, <1>3, <2>2, <2>3
<1> HIDE DEF m
<1>7. Ground(Slice(a, m), a, b) = [start |-> a, end |-> m]
    BY <1>2, <1>4, GroundHere
<1>8. Ground(Slice(m, b), m, b) = [start |-> m, end |-> b]
    BY <1>2, <1>4, GroundHere
<1> DEFINE lspan == [start |-> a, end |-> m]
           rspan == [start |-> m, end |-> b]
           l == [text |-> Slice(a, m), span |-> lspan, images |-> left, origin |-> "source"]
           r == [text |-> Slice(m, b), span |-> rspan, images |-> right, origin |-> "source"]
<1>9. lspan \in Spans /\ rspan \in Spans /\ lspan # None /\ rspan # None
    BY <1>2, <1>4, SpanNoneAssumption DEF Spans
<1>10. Halves(e, at, left, right) = <<l, r>>
    <2>1. Child(e, Slice(a, m), lspan, left) = l /\ Child(e, Slice(m, b), rspan, right) = r
        BY <1>9 DEF Child
    <2>2. e.span.start = a /\ e.span.end = b /\ lspan.end = m
        BY <1>2
    <2> HIDE DEF l, r
    <2> QED  BY <1>1, <1>5, <1>6, <1>7, <1>8, <1>9, <2>1, <2>2 DEF Halves
<1>11. Merged(l, r) = [text |-> Slice(a, b), span |-> [start |-> a, end |-> b],
                       origin |-> "source", images |-> left \cup right]
    <2>1. l.span = lspan /\ r.span = rspan /\ lspan.end = m /\ rspan.start = m
          /\ lspan.start = a /\ rspan.end = b /\ l.origin = "source" /\ r.origin = "source"
          /\ l.images = left /\ r.images = right
        OBVIOUS
    <2> HIDE DEF l, r, lspan, rspan
    <2> QED  BY <1>4, <1>9, <2>1 DEF Merged
<1>12. e = [text |-> e.text, span |-> e.span, origin |-> e.origin, images |-> e.images]
    BY DEF Event
<1>13. Merged(l, r) = e
    BY <1>1, <1>2, <1>11, <1>12
<1> HIDE DEF l, r
<1> QED  BY <1>10, <1>13

-----------------------------------------------------------------------------
(* Timelines.                                                              *)

\* The timeline is a list of valid events that is not empty.
LEMMA EventsType ==
    ASSUME IInv
    PROVE  /\ events \in Seq(Event) /\ events # <<>> /\ Len(events) \in Nat \ {0}
           /\ DOMAIN events = 1..Len(events) /\ Valid(events)
           /\ \A i \in 1..Len(events) : events[i] \in Event /\ EventValid(events[i])
<1>1. events \in Seq(Event) /\ events # <<>> /\ Valid(events)
    BY DEF IInv, TypeOK, EventsConsistent, Valid
<1>2. DOMAIN events = 1..Len(events) /\ Len(events) \in Nat \ {0}
    BY <1>1, LenProperties, EmptySeq
<1> QED  BY <1>1, <1>2, ElementOfSeq DEF Valid

\* The new events come in the place of events[first..last], the others stay.
LEMMA ReplaceProperties ==
    ASSUME IInv, NEW first \in 1..(Len(events) + 1), NEW last \in (first - 1)..Len(events),
           NEW new \in Seq(Event), new # <<>>
    PROVE  LET replaced == Replace(first, last, new)
           IN  /\ replaced \in Seq(Event) /\ replaced # <<>>
               /\ \A i \in DOMAIN replaced :
                      \/ \E j \in DOMAIN events : replaced[i] = events[j]
                      \/ \E j \in DOMAIN new : replaced[i] = new[j]
               /\ \A j \in DOMAIN events \ first..last : \E i \in DOMAIN replaced : replaced[i] = events[j]
               /\ \A j \in DOMAIN new : \E i \in DOMAIN replaced : replaced[i] = new[j]
<1> DEFINE n == Len(events)
           k == Len(new)
           before == SubSeq(events, 1, first - 1)
           after == SubSeq(events, last + 1, n)
           replaced == (before \o new) \o after
<1>1. /\ n \in Nat /\ k \in Nat \ {0} /\ DOMAIN events = 1..n /\ DOMAIN new = 1..k
      /\ \A i \in 1..n : events[i] \in Event
    BY EventsType, LenProperties, EmptySeq
<1>2. /\ before \in Seq(Event) /\ Len(before) = first - 1
      /\ \A i \in 1..(first - 1) : before[i] = events[i]
    <2>1. \A i \in 1..(first - 1) : events[i] \in Event
        BY <1>1
    <2>2. /\ before \in Seq(Event) /\ Len(before) = IF 1 <= first - 1 THEN (first - 1) - 1 + 1 ELSE 0
          /\ \A i \in 1..((first - 1) - 1 + 1) : before[i] = events[1 + i - 1]
        BY <1>1, <2>1, SubSeqProperties
    <2> QED  BY <1>1, <2>2
<1>3. /\ after \in Seq(Event) /\ Len(after) = n - last
      /\ \A i \in 1..(n - last) : after[i] = events[last + i]
    <2>1. (\A i \in (last + 1)..n : events[i] \in Event) /\ last + 1 \in Int /\ n \in Int
        BY <1>1
    <2>2. /\ after \in Seq(Event) /\ Len(after) = IF last + 1 <= n THEN n - (last + 1) + 1 ELSE 0
          /\ \A i \in 1..(n - (last + 1) + 1) : after[i] = events[(last + 1) + i - 1]
        BY <2>1, SubSeqProperties
    <2> HIDE DEF after
    <2>3. Len(after) = n - last
        <3>1. n \in Nat /\ last \in Nat /\ last <= n
            BY <1>1
        <3>2. Len(after) = IF last + 1 <= n THEN n - (last + 1) + 1 ELSE 0
            BY <2>2
        <3> HIDE DEF n
        <3> QED  BY <3>1, <3>2
    <2>4. ASSUME NEW i \in 1..(n - last) PROVE after[i] = events[last + i]
        <3>1. i \in 1..(n - (last + 1) + 1) /\ (last + 1) + i - 1 = last + i
            BY <1>1
        <3> QED  BY <2>2, <3>1
    <2> QED  BY <2>2, <2>3, <2>4
<1> HIDE DEF before, after
<1> DEFINE head == before \o new
<1>4. /\ head \in Seq(Event) /\ Len(head) = (first - 1) + k
      /\ \A i \in 1..((first - 1) + k) : head[i] = IF i <= first - 1 THEN before[i] ELSE new[i - (first - 1)]
    <2>1. /\ before \o new \in Seq(Event) /\ Len(before \o new) = Len(before) + Len(new)
          /\ \A i \in 1..(Len(before) + Len(new)) :
                 (before \o new)[i] = IF i <= Len(before) THEN before[i] ELSE new[i - Len(before)]
        BY <1>2, ConcatProperties
    <2> QED  BY <1>2, <2>1
<1> HIDE DEF head
<1>5. /\ head \o after \in Seq(Event) /\ Len(head \o after) = ((first - 1) + k) + (n - last)
      /\ \A i \in 1..(((first - 1) + k) + (n - last)) :
             (head \o after)[i] = IF i <= (first - 1) + k THEN head[i] ELSE after[i - ((first - 1) + k)]
    <2>1. /\ head \o after \in Seq(Event) /\ Len(head \o after) = Len(head) + Len(after)
          /\ \A i \in 1..(Len(head) + Len(after)) :
                 (head \o after)[i] = IF i <= Len(head) THEN head[i] ELSE after[i - Len(head)]
        BY <1>3, <1>4, ConcatProperties
    <2> HIDE DEF k, n
    <2> QED  BY <1>3, <1>4, <2>1
<1>6. replaced = head \o after /\ Replace(first, last, new) = replaced
    BY DEF head, Replace, before, after
<1> HIDE DEF n, k, replaced
<1>7. replaced \in Seq(Event) /\ DOMAIN replaced = 1..(((first - 1) + k) + (n - last))
    BY <1>5, <1>6, LenProperties
<1>8. /\ \A i \in 1..(first - 1) : replaced[i] = events[i]
      /\ \A i \in 1..k : replaced[(first - 1) + i] = new[i]
      /\ \A i \in 1..(n - last) : replaced[((first - 1) + k) + i] = events[last + i]
    <2>1. ASSUME NEW i \in 1..(first - 1) PROVE replaced[i] = events[i]
        BY <1>1, <1>2, <1>4, <1>5, <1>6 DEF n
    <2>2. ASSUME NEW i \in 1..k PROVE replaced[(first - 1) + i] = new[i]
        <3>1. /\ (first - 1) + i \in 1..((first - 1) + k) /\ (first - 1) + i > first - 1
              /\ ((first - 1) + i) - (first - 1) = i
              /\ (first - 1) + i \in 1..(((first - 1) + k) + (n - last))
            BY <1>1 DEF n
        <3> QED  BY <1>1, <1>4, <1>5, <1>6, <3>1
    <2>3. ASSUME NEW i \in 1..(n - last) PROVE replaced[((first - 1) + k) + i] = events[last + i]
        <3>1. /\ ((first - 1) + k) + i \in 1..(((first - 1) + k) + (n - last))
              /\ ~(((first - 1) + k) + i <= (first - 1) + k)
              /\ (((first - 1) + k) + i) - ((first - 1) + k) = i
            BY <1>1 DEF n
        <3> QED  BY <1>3, <1>5, <1>6, <3>1 DEF n
    <2> QED  BY <2>1, <2>2, <2>3
<1>9. replaced # <<>>
    <2>1. 1 \in DOMAIN replaced
        BY <1>1, <1>7 DEF n
    <2> QED  BY <2>1
<1>10. ASSUME NEW i \in DOMAIN replaced
       PROVE  \/ \E j \in DOMAIN events : replaced[i] = events[j]
              \/ \E j \in DOMAIN new : replaced[i] = new[j]
    <2>1. CASE i \in 1..(first - 1)
        <3>1. i \in DOMAIN events
            BY <1>1, <2>1 DEF n
        <3> QED  BY <1>8, <2>1, <3>1
    <2>2. CASE i - (first - 1) \in 1..k
        <3>1. (first - 1) + (i - (first - 1)) = i
            BY <1>7 DEF n
        <3> QED  BY <1>1, <1>8, <2>2, <3>1
    <2>3. CASE i - ((first - 1) + k) \in 1..(n - last)
        <3> DEFINE j == i - ((first - 1) + k)
        <3>1. i \in Int /\ j \in 1..(n - last)
            BY <1>7, <2>3 DEF n
        <3>2. ((first - 1) + k) + j = i
            BY <1>1, <3>1
        <3>3. last + j \in DOMAIN events
            <4> HIDE DEF j
            <4> QED  BY <1>1, <3>1 DEF n
        <3>4. replaced[((first - 1) + k) + j] = events[last + j]
            BY <1>8, <3>1
        <3> QED  BY <3>2, <3>3, <3>4
    <2>4. \/ i \in 1..(first - 1) \/ i - (first - 1) \in 1..k
          \/ i - ((first - 1) + k) \in 1..(n - last)
        BY <1>1, <1>7 DEF n
    <2> QED  BY <2>1, <2>2, <2>3, <2>4
<1>11. ASSUME NEW j \in DOMAIN events \ first..last
       PROVE  \E i \in DOMAIN replaced : replaced[i] = events[j]
    <2>1. CASE j < first
        <3>1. j \in 1..(first - 1) /\ j \in DOMAIN replaced
            BY <1>1, <1>7, <2>1 DEF n
        <3> QED  BY <1>8, <3>1
    <2>2. CASE j > last
        <3> DEFINE i == ((first - 1) + k) + (j - last)
        <3>1. j - last \in 1..(n - last) /\ last + (j - last) = j /\ i \in DOMAIN replaced
            BY <1>1, <1>7, <2>2 DEF n
        <3>2. replaced[i] = events[last + (j - last)]
            BY <1>8, <3>1
        <3> HIDE DEF i
        <3> QED  BY <3>1, <3>2
    <2>3. j < first \/ j > last
        BY <1>1 DEF n
    <2> QED  BY <2>1, <2>2, <2>3
<1>12. ASSUME NEW j \in DOMAIN new
       PROVE  \E i \in DOMAIN replaced : replaced[i] = new[j]
    <2>1. j \in 1..k /\ (first - 1) + j \in DOMAIN replaced
        BY <1>1, <1>7 DEF n
    <2> QED  BY <1>8, <2>1
<1> QED  BY <1>6, <1>7, <1>9, <1>10, <1>11, <1>12

\* The timeline stays valid when the new events are, and some text stays.
LEMMA ReplaceValid ==
    ASSUME IInv, NEW first \in 1..(Len(events) + 1), NEW last \in (first - 1)..Len(events),
           NEW new \in Seq(Event), new # <<>>,
           \A j \in DOMAIN new : EventValid(new[j]),
           (\E j \in first..last : events[j].text # <<>>) => \E j \in DOMAIN new : new[j].text # <<>>
    PROVE  /\ Replace(first, last, new) \in Seq(Event) /\ Replace(first, last, new) # <<>>
           /\ Valid(Replace(first, last, new))
<1> DEFINE replaced == Replace(first, last, new)
<1>1. /\ replaced \in Seq(Event) /\ replaced # <<>>
      /\ \A i \in DOMAIN replaced :
             \/ \E j \in DOMAIN events : replaced[i] = events[j]
             \/ \E j \in DOMAIN new : replaced[i] = new[j]
      /\ \A j \in DOMAIN events \ first..last : \E i \in DOMAIN replaced : replaced[i] = events[j]
      /\ \A j \in DOMAIN new : \E i \in DOMAIN replaced : replaced[i] = new[j]
    BY ReplaceProperties
<1> HIDE DEF replaced
<1>2. \A i \in DOMAIN replaced : EventValid(replaced[i])
    <2>1. \A j \in DOMAIN events : EventValid(events[j])
        BY EventsType
    <2> QED  BY <1>1, <2>1
<1>3. \E i \in DOMAIN replaced : replaced[i].text # <<>>
    <2>1. PICK j \in DOMAIN events : events[j].text # <<>>
        BY EventsType DEF Valid
    <2>2. CASE j \in first..last
        BY <1>1, <2>1, <2>2
    <2>3. CASE j \notin first..last
        BY <1>1, <2>1, <2>3
    <2> QED  BY <2>2, <2>3
<1> QED  BY <1>1, <1>2, <1>3 DEF Valid, replaced

\* One event is replaced by a valid one that keeps its text, or has one.
LEMMA ExceptValid ==
    ASSUME IInv, NEW i \in DOMAIN events, NEW e \in Event, EventValid(e),
           events[i].text # <<>> => e.text # <<>>
    PROVE  /\ [events EXCEPT ![i] = e] \in Seq(Event) /\ [events EXCEPT ![i] = e] # <<>>
           /\ Valid([events EXCEPT ![i] = e])
<1> DEFINE new == [events EXCEPT ![i] = e]
<1>1. /\ new \in Seq(Event) /\ DOMAIN new = DOMAIN events
      /\ \A j \in DOMAIN events : new[j] = IF j = i THEN e ELSE events[j]
    BY EventsType, ExceptSeq
<1> HIDE DEF new
<1>2. new # <<>>
    BY <1>1, EventsType
<1>3. \A j \in DOMAIN new : EventValid(new[j])
    BY <1>1, EventsType
<1>4. \E j \in DOMAIN new : new[j].text # <<>>
    <2>1. PICK j \in DOMAIN events : events[j].text # <<>>
        BY EventsType DEF Valid
    <2> QED  BY <1>1, <2>1
<1> QED  BY <1>1, <1>2, <1>3, <1>4 DEF Valid, new

\* The history keeps entries it had, within its limit.
LEMMA KeptProperties ==
    ASSUME NEW S, NEW s \in Seq(S), Len(s) <= Limit + 1
    PROVE  /\ Kept(s) \in Seq(S) /\ Len(Kept(s)) <= Limit
           /\ \A i \in DOMAIN Kept(s) : \E j \in DOMAIN s : Kept(s)[i] = s[j]
<1> DEFINE n == Len(s)
<1>1. n \in Nat /\ DOMAIN s = 1..n /\ Limit \in Nat /\ \A i \in 1..n : s[i] \in S
    BY LenProperties, ElementOfSeq, LimitAssumption
<1>2. CASE n > Limit
    <2>1. \A i \in 2..n : s[i] \in S
        BY <1>1
    <2>2. /\ SubSeq(s, 2, n) \in Seq(S)
          /\ Len(SubSeq(s, 2, n)) = IF 2 <= n THEN n - 2 + 1 ELSE 0
          /\ \A i \in 1..(n - 2 + 1) : SubSeq(s, 2, n)[i] = s[2 + i - 1]
        BY <1>1, <2>1, SubSeqProperties
    <2>3. Kept(s) = SubSeq(s, 2, n)
        BY <1>2 DEF Kept
    <2> HIDE DEF n
    <2>4. Len(Kept(s)) = n - 1 /\ n - 1 <= Limit
        BY <1>1, <1>2, <2>2, <2>3, LimitAssumption DEF n
    <2>5. Kept(s) \in Seq(S) /\ DOMAIN Kept(s) = 1..(n - 1)
        BY <2>2, <2>3, <2>4, LenProperties
    <2>6. ASSUME NEW i \in DOMAIN Kept(s) PROVE \E j \in DOMAIN s : Kept(s)[i] = s[j]
        <3>1. i \in 1..(n - 2 + 1) /\ 2 + i - 1 \in 1..n
            BY <1>1, <2>5
        <3> QED  BY <1>1, <2>2, <2>3, <3>1
    <2> QED  BY <2>4, <2>5, <2>6, <1>1
<1>3. CASE ~(n > Limit)
    BY <1>1, <1>3 DEF Kept
<1> QED  BY <1>2, <1>3

\* Committing a valid timeline keeps the invariant.
LEMMA CommitStep ==
    ASSUME IInv, Room, NEW new \in Seq(Event), new # <<>>, Valid(new), Commit(new)
    PROVE  IInv'
<1>1. /\ revision \in 1..MaxRevision /\ revision < MaxRevision /\ events \in Seq(Event)
      /\ history \in Seq(Seq(Event)) /\ Len(history) <= Limit /\ Len(history) \in Nat
      /\ MaxRevision \in Nat /\ Limit \in Nat
    BY LenProperties, RevisionAssumption, LimitAssumption DEF IInv, TypeOK, Room
<1>2. revision' = revision + 1 /\ events' = new /\ history' = Kept(Append(history, events))
    BY DEF Commit
<1> DEFINE longer == Append(history, events)
<1>3. /\ longer \in Seq(Seq(Event)) /\ Len(longer) = Len(history) + 1
      /\ \A i \in 1..Len(history) : longer[i] = history[i]
      /\ longer[Len(history) + 1] = events
    BY <1>1, AppendProperties
<1> HIDE DEF longer
<1>4. \A i \in DOMAIN longer : Valid(longer[i])
    <2>1. DOMAIN longer = 1..(Len(history) + 1) /\ DOMAIN history = 1..Len(history)
        BY <1>1, <1>3, LenProperties
    <2>2. \A i \in DOMAIN history : Valid(history[i])
        BY DEF IInv, EventsConsistent, Valid
    <2>3. Valid(events)
        BY EventsType
    <2> QED  BY <1>1, <1>3, <2>1, <2>2, <2>3
<1>5. /\ Kept(longer) \in Seq(Seq(Event)) /\ Len(Kept(longer)) <= Limit
      /\ \A i \in DOMAIN Kept(longer) : \E j \in DOMAIN longer : Kept(longer)[i] = longer[j]
    <2>1. Len(longer) <= Limit + 1
        BY <1>1, <1>3
    <2> QED  BY <1>3, <2>1, KeptProperties
<1>6. history' = Kept(longer)
    BY <1>2 DEF longer
<1>7. TypeOK'
    BY <1>1, <1>2, <1>5, <1>6 DEF TypeOK
<1>8. Valid(events') /\ \A i \in DOMAIN history' : Valid(history'[i])
    BY <1>2, <1>4, <1>5, <1>6
<1>9. EventsConsistent'
    BY <1>8 DEF EventsConsistent, Valid
<1> QED  BY <1>7, <1>9 DEF IInv

-----------------------------------------------------------------------------
(* The mutations.                                                          *)

\* The invariant holds of the first timeline of a query.
LEMMA InitInv == Init => IInv
<1> SUFFICES ASSUME Init PROVE IInv
    OBVIOUS
<1>1. PICK spans \in Timelines, images \in SUBSET Images :
          events = [i \in DOMAIN spans |->
                       [SourceEvent(spans[i]) EXCEPT !.images = IF i = 1 THEN images ELSE {}]]
    BY DEF Init
<1>2. PICK n \in 1..MaxEvents : spans \in [1..n -> Spans]
    BY DEF Timelines
<1>3. n \in Nat \ {0} /\ DOMAIN events = 1..n
    BY <1>1, <1>2, MaxEventsAssumption
<1>4. ASSUME NEW i \in 1..n
      PROVE  events[i] \in Event /\ EventValid(events[i]) /\ events[i].text # <<>>
    <2> DEFINE span == spans[i]
               text == Slice(span.start, span.end)
               its == IF i = 1 THEN images ELSE {}
    <2>1. span \in Spans
        BY <1>2
    <2>2. /\ span.start \in 0..Size /\ span.end \in span.start..Size /\ span.start < span.end
          /\ span # None /\ Size \in Nat
        BY <2>1, SpanBounds
    <2>3. text \in Text /\ Len(text) = span.end - span.start
        BY <2>2, SliceProperties
    <2>4. text # <<>>
        BY <2>2, <2>3, EmptySeq
    <2>5. events[i] = [text |-> text, span |-> span, origin |-> "source", images |-> its]
        BY <1>1, <1>2, <1>4 DEF SourceEvent
    <2>6. its \in SUBSET Images
        OBVIOUS
    <2> HIDE DEF span, its
    <2>7. events[i].text = text /\ events[i].span = span
        BY <2>5
    <2> HIDE DEF text
    <2>8. events[i] \in Event
        BY <2>1, <2>3, <2>5, <2>6 DEF Event
    <2> QED  BY <2>2, <2>4, <2>5, <2>7, <2>8 DEF EventValid, text
<1>5. events \in [1..n -> Event]
    BY <1>1, <1>2, <1>3, <1>4
<1>6. events \in Seq(Event) /\ events # <<>>
    <2>1. events \in Seq(Event)
        BY <1>3, <1>5, SeqDef
    <2> QED  BY <1>3, <2>1
<1>7. 1 \in 1..n
    BY <1>3
<1>8. Valid(events)
    BY <1>3, <1>4, <1>7 DEF Valid
<1>9. history = <<>> /\ revision = 1
    BY DEF Init
<1>10. TypeOK
    BY <1>6, <1>9, EmptySeq, LimitAssumption, RevisionAssumption DEF TypeOK
<1> QED  BY <1>8, <1>9, <1>10 DEF IInv, EventsConsistent, Valid

\* Splitting an event keeps the invariant.
LEMMA SplitStep == IInv /\ Split => IInv'
<1> SUFFICES ASSUME IInv, Split PROVE IInv'
    OBVIOUS
<1>1. PICK i \in DOMAIN events :
          \E at \in 1..(Len(events[i].text) - 1), left, right \in SUBSET events[i].images :
              Commit(Replace(i, i, Halves(events[i], at, left, right)))
    BY DEF Split
<1>2. PICK at \in 1..(Len(events[i].text) - 1), left \in SUBSET events[i].images,
           right \in SUBSET events[i].images :
               Commit(Replace(i, i, Halves(events[i], at, left, right)))
    BY <1>1
<1> DEFINE e == events[i]
           halves == Halves(e, at, left, right)
<1>3. /\ i \in 1..Len(events) /\ Len(events) \in Nat /\ e \in Event /\ EventValid(e)
    BY EventsType
<1>4. left \in SUBSET Images /\ right \in SUBSET Images
    BY <1>3 DEF Event
<1>5. /\ halves \in Seq(Event) /\ Len(halves) = 2
      /\ \A j \in 1..2 : EventValid(halves[j]) /\ halves[j].text # <<>>
    BY <1>2, <1>3, <1>4, HalvesProperties
<1>6. Commit(Replace(i, i, halves)) /\ Room
    BY <1>2 DEF Split
<1> HIDE DEF halves, e
<1>7. halves # <<>> /\ DOMAIN halves = 1..2
    BY <1>5, EmptySeq, LenProperties
<1>8. i \in 1..(Len(events) + 1) /\ i \in (i - 1)..Len(events)
    BY <1>3
<1>9. /\ Replace(i, i, halves) \in Seq(Event) /\ Replace(i, i, halves) # <<>>
      /\ Valid(Replace(i, i, halves))
    BY <1>5, <1>7, <1>8, ReplaceValid
<1> QED  BY <1>6, <1>9, CommitStep

\* Merging two events keeps the invariant.
LEMMA MergeStep == IInv /\ Merge => IInv'
<1> SUFFICES ASSUME IInv, Merge PROVE IInv'
    OBVIOUS
<1>1. PICK i \in 1..(Len(events) - 1) : Commit(Replace(i, i + 1, <<Merged(events[i], events[i + 1])>>))
    BY DEF Merge
<1>2. Room
    BY DEF Merge
<1>3. i \in 1..Len(events) /\ i + 1 \in 1..Len(events) /\ Len(events) \in Nat
    BY EventsType
<1> DEFINE merged == Merged(events[i], events[i + 1])
<1>4. /\ merged \in Event /\ EventValid(merged)
      /\ events[i].text # <<>> \/ events[i + 1].text # <<>> => merged.text # <<>>
    BY <1>3, EventsType, MergedProperties
<1>5. Commit(Replace(i, i + 1, <<merged>>))
    BY <1>1
<1> HIDE DEF merged
<1>6. i..(i + 1) = {i, i + 1} /\ i \in 1..(Len(events) + 1) /\ i + 1 \in (i - 1)..Len(events)
    BY <1>3
<1>7. (\E j \in i..(i + 1) : events[j].text # <<>>) => merged.text # <<>>
    BY <1>4, <1>6
<1>8. /\ <<merged>> \in Seq(Event) /\ <<merged>> # <<>> /\ DOMAIN <<merged>> = {1}
      /\ <<merged>>[1] = merged
    BY <1>4
<1>9. /\ Replace(i, i + 1, <<merged>>) \in Seq(Event) /\ Replace(i, i + 1, <<merged>>) # <<>>
      /\ Valid(Replace(i, i + 1, <<merged>>))
    BY <1>4, <1>6, <1>7, <1>8, ReplaceValid
<1> QED  BY <1>2, <1>5, <1>9, CommitStep

\* A permutation of the events leaves none out.
LEMMA ReorderStep == IInv /\ Reorder => IInv'
<1> SUFFICES ASSUME IInv, Reorder PROVE IInv'
    OBVIOUS
<1>1. PICK order \in Orders : Commit([i \in DOMAIN events |-> events[order[i]]])
    BY DEF Reorder
<1>2. Room
    BY DEF Reorder
<1> DEFINE new == [i \in DOMAIN events |-> events[order[i]]]
           n == Len(events)
<1>3. n \in Nat /\ 1..n = DOMAIN events /\ n # 0
    BY EventsType
<1>4. order \in Injection(1..n, 1..n)
    BY <1>1, <1>3 DEF Orders, Injection, IsInjective
<1>5. order \in Surjection(1..n, 1..n)
    <2>1. IsFiniteSet(1..n)
        BY <1>3, FS_Interval
    <2> QED  BY <1>4, <2>1, FS_Injection
<1>6. \A j \in 1..n : \E i \in 1..n : order[i] = j
    BY <1>5, Fun_SurjectionProperties
<1>7. order \in [1..n -> 1..n]
    BY <1>1, <1>3 DEF Orders
<1>8. new \in [1..n -> Event]
    BY <1>3, <1>7, EventsType
<1>9. new \in Seq(Event)
    BY <1>3, <1>8, SeqDef
<1>10. new # <<>>
    BY <1>3
<1>11. \A i \in DOMAIN new : EventValid(new[i])
    BY <1>3, <1>7, EventsType
<1>12. \E i \in DOMAIN new : new[i].text # <<>>
    <2>1. PICK j \in 1..n : events[j].text # <<>>
        BY <1>3, EventsType DEF Valid
    <2>2. PICK i \in 1..n : order[i] = j
        BY <1>6
    <2> QED  BY <1>3, <2>1, <2>2
<1>13. Commit(new)
    BY <1>1
<1> HIDE DEF new
<1> QED  BY <1>2, <1>9, <1>10, <1>11, <1>12, <1>13, CommitStep DEF Valid

\* Editing a text keeps the invariant.
LEMMA EditStep == IInv /\ Edit => IInv'
<1> SUFFICES ASSUME IInv, Edit PROVE IInv'
    OBVIOUS
<1>1. PICK i \in DOMAIN events, text \in Typed :
          Commit([events EXCEPT ![i] = [@ EXCEPT !.text = text, !.origin = "user_override"]])
    BY DEF Edit
<1>2. Room
    BY DEF Edit
<1> DEFINE e == [events[i] EXCEPT !.text = text, !.origin = "user_override"]
<1>3. e \in Event /\ e.text = text /\ text # <<>> /\ e.origin = "user_override"
    BY EventsType, TypedAssumption DEF Event, Text
<1>4. Commit([events EXCEPT ![i] = e])
    BY <1>1
<1> HIDE DEF e
<1>5. EventValid(e)
    BY <1>3 DEF EventValid
<1>6. /\ [events EXCEPT ![i] = e] \in Seq(Event) /\ [events EXCEPT ![i] = e] # <<>>
      /\ Valid([events EXCEPT ![i] = e])
    BY <1>3, <1>5, ExceptValid
<1> QED  BY <1>2, <1>4, <1>6, CommitStep

\* Adding an event keeps the invariant.
LEMMA AddStep == IInv /\ Add => IInv'
<1> SUFFICES ASSUME IInv, Add PROVE IInv'
    OBVIOUS
<1>1. PICK position \in 0..Len(events), text \in Typed \cup {<<>>}, images \in SUBSET Images :
          /\ text # <<>> \/ images # {}
          /\ Commit(Replace(position + 1, position,
                 <<[text |-> text, span |-> None, origin |-> "user_added", images |-> images]>>))
    BY DEF Add
<1>2. Room
    BY DEF Add
<1> DEFINE e == [text |-> text, span |-> None, origin |-> "user_added", images |-> images]
<1>3. e \in Event
    BY TypedAssumption, EmptySeq DEF Event, Text
<1>4. EventValid(e)
    BY <1>1 DEF EventValid
<1>5. Commit(Replace(position + 1, position, <<e>>))
    BY <1>1
<1> HIDE DEF e
<1>6. /\ Len(events) \in Nat /\ position + 1 \in 1..(Len(events) + 1)
      /\ position \in ((position + 1) - 1)..Len(events) /\ (position + 1)..position = {}
    BY EventsType
<1>7. <<e>> \in Seq(Event) /\ <<e>> # <<>> /\ DOMAIN <<e>> = {1} /\ <<e>>[1] = e
    BY <1>3
<1>8. /\ Replace(position + 1, position, <<e>>) \in Seq(Event)
      /\ Replace(position + 1, position, <<e>>) # <<>>
      /\ Valid(Replace(position + 1, position, <<e>>))
    BY <1>4, <1>6, <1>7, ReplaceValid
<1> QED  BY <1>2, <1>5, <1>8, CommitStep

\* Attaching and detaching images keep the invariant.
LEMMA ImageStep == IInv /\ (AttachImage \/ DetachImage) => IInv'
<1> SUFFICES ASSUME IInv, AttachImage \/ DetachImage PROVE IInv'
    OBVIOUS
<1>1. PICK i \in DOMAIN events : \E images \in SUBSET Images :
          /\ events[i].text # <<>> \/ images # {}
          /\ Commit([events EXCEPT ![i].images = images])
    <2>1. \A i \in DOMAIN events : events[i].images \in SUBSET Images
        BY EventsType DEF Event
    <2>2. CASE AttachImage
        <3>1. PICK i \in DOMAIN events, image \in Images :
                  Commit([events EXCEPT ![i].images = @ \cup {image}])
            BY <2>2 DEF AttachImage
        <3>2. /\ events[i].images \cup {image} \in SUBSET Images
              /\ events[i].images \cup {image} # {}
              /\ Commit([events EXCEPT ![i].images = events[i].images \cup {image}])
            BY <2>1, <3>1
        <3> QED  BY <3>2
    <2>3. CASE DetachImage
        <3>1. PICK i \in DOMAIN events : \E image \in events[i].images :
                  /\ events[i].text # <<>> \/ events[i].images # {image}
                  /\ Commit([events EXCEPT ![i].images = @ \ {image}])
            BY <2>3 DEF DetachImage
        <3>2. PICK image \in events[i].images :
                  /\ events[i].text # <<>> \/ events[i].images # {image}
                  /\ Commit([events EXCEPT ![i].images = @ \ {image}])
            BY <3>1
        <3>3. /\ events[i].images \ {image} \in SUBSET Images
              /\ events[i].text # <<>> \/ events[i].images \ {image} # {}
              /\ Commit([events EXCEPT ![i].images = events[i].images \ {image}])
            BY <2>1, <3>2
        <3> QED  BY <3>3
    <2> QED  BY <2>2, <2>3
<1>2. PICK images \in SUBSET Images :
          /\ events[i].text # <<>> \/ images # {}
          /\ Commit([events EXCEPT ![i].images = images])
    BY <1>1
<1>3. Room
    BY DEF AttachImage, DetachImage
<1>4. events[i] \in Event /\ EventValid(events[i])
    BY EventsType
<1> DEFINE e == [events[i] EXCEPT !.images = images]
<1>5. /\ e \in Event /\ e.text = events[i].text /\ e.span = events[i].span
      /\ e.origin = events[i].origin /\ e.images = images
    BY <1>4 DEF Event
<1>6. Commit([events EXCEPT ![i] = e])
    BY <1>2
<1> HIDE DEF e
<1>7. EventValid(e)
    BY <1>2, <1>4, <1>5 DEF EventValid
<1>8. /\ [events EXCEPT ![i] = e] \in Seq(Event) /\ [events EXCEPT ![i] = e] # <<>>
      /\ Valid([events EXCEPT ![i] = e])
    BY <1>5, <1>7, ExceptValid
<1> QED  BY <1>3, <1>6, <1>8, CommitStep

\* Undo keeps the invariant.
LEMMA UndoStep == IInv /\ Undo => IInv'
<1> SUFFICES ASSUME IInv, Undo PROVE IInv'
    OBVIOUS
<1> DEFINE n == Len(history)
<1>1. /\ history # <<>> /\ revision' = revision + 1 /\ events' = history[n]
      /\ history' = SubSeq(history, 1, n - 1) /\ revision < MaxRevision
    BY DEF Undo, Room
<1>2. /\ history \in Seq(Seq(Event)) /\ n \in Nat \ {0} /\ n <= Limit /\ DOMAIN history = 1..n
      /\ \A i \in 1..n : history[i] \in Seq(Event)
      /\ revision \in 1..MaxRevision /\ MaxRevision \in Nat /\ Limit \in Nat
    BY <1>1, LenProperties, EmptySeq, ElementOfSeq, RevisionAssumption, LimitAssumption
       DEF IInv, TypeOK
<1>3. \A i \in 1..n : Valid(history[i])
    BY <1>2 DEF IInv, EventsConsistent, Valid
<1> HIDE DEF n
<1>4. /\ history' \in Seq(Seq(Event)) /\ Len(history') = n - 1
      /\ \A i \in 1..(n - 1) : history'[i] = history[i]
    <2>1. \A i \in 1..(n - 1) : history[i] \in Seq(Event)
        BY <1>2
    <2>2. /\ SubSeq(history, 1, n - 1) \in Seq(Seq(Event))
          /\ Len(SubSeq(history, 1, n - 1)) = IF 1 <= n - 1 THEN (n - 1) - 1 + 1 ELSE 0
          /\ \A i \in 1..((n - 1) - 1 + 1) : SubSeq(history, 1, n - 1)[i] = history[1 + i - 1]
        BY <1>2, <2>1, SubSeqProperties
    <2> QED  BY <1>1, <1>2, <2>2
<1>5. Valid(events') /\ events' \in Seq(Event)
    BY <1>1, <1>2, <1>3
<1>6. events' # <<>>
    BY <1>5 DEF Valid
<1>7. TypeOK'
    BY <1>1, <1>2, <1>4, <1>5, <1>6 DEF TypeOK
<1>8. \A i \in DOMAIN history' : Valid(history'[i])
    <2>1. DOMAIN history' = 1..(n - 1)
        BY <1>4, LenProperties
    <2> QED  BY <1>2, <1>3, <1>4, <2>1
<1>9. EventsConsistent'
    BY <1>5, <1>8 DEF EventsConsistent, Valid
<1> QED  BY <1>7, <1>9 DEF IInv

\* The invariant is inductive.
LEMMA StepInv == IInv /\ [Next]_vars => IInv'
<1> SUFFICES ASSUME IInv, [Next]_vars PROVE IInv'
    OBVIOUS
<1>1. CASE Split \/ Merge \/ Reorder
    BY <1>1, SplitStep, MergeStep, ReorderStep
<1>2. CASE Edit \/ Add \/ AttachImage \/ DetachImage
    BY <1>2, EditStep, AddStep, ImageStep
<1>3. CASE Undo
    BY <1>3, UndoStep
<1>4. CASE UNCHANGED vars
    BY <1>4 DEF vars, IInv, TypeOK, EventsConsistent
<1> QED  BY <1>1, <1>2, <1>3, <1>4 DEF Next

-----------------------------------------------------------------------------
(* Theorems.                                                               *)

\* Types and valid timelines are inductive together.
THEOREM InvHolds == Spec => []IInv
BY InitInv, StepInv, PTL DEF Spec

\* Every timeline keeps its type and at least one event, the history its limit.
THEOREM TypeCorrect == Spec => []TypeOK
<1>1. IInv => TypeOK
    BY DEF IInv
<1> QED  BY <1>1, InvHolds, PTL

\* Every event the session may show or restore has evidence, and agrees with the part
\* of the query it claims, for every query, whatever is typed and however many events
\* there come to be, although no mutation runs the validators.
THEOREM EventsStayConsistent == Spec => []EventsConsistent
<1>1. IInv => EventsConsistent
    BY DEF IInv
<1> QED  BY <1>1, InvHolds, PTL

\* Merging the halves of a source event gives it back, for every query.
THEOREM MergeAlwaysUndoesSplit == Spec => []MergeUndoesSplit
<1>1. IInv => MergeUndoesSplit
    <2> SUFFICES ASSUME IInv, NEW i \in DOMAIN events, events[i].origin = "source",
                        NEW at \in 1..(Len(events[i].text) - 1),
                        NEW left \in SUBSET events[i].images, NEW right \in SUBSET events[i].images,
                        left \cup right = events[i].images
                 PROVE  LET halves == Halves(events[i], at, left, right)
                        IN  Merged(halves[1], halves[2]) = events[i]
        BY DEF MergeUndoesSplit
    <2>1. events[i] \in Event /\ EventValid(events[i])
        BY EventsType
    <2> QED  BY <2>1, MergeOfHalves
<1> QED  BY <1>1, InvHolds, PTL

\* Both the session and the log cut their history in the same way.
LEMMA SameKept ==
    ASSUME NEW s \in Seq(Seq(Event))
    PROVE  Kept(s) = Log!Kept(s)
<1>1. CASE Len(s) > Limit
    <2>1. s # <<>>
        BY <1>1, EmptySeq, LimitAssumption
    <2>2. Tail(s) = SubSeq(s, 2, Len(s))
        BY <2>1, TailIsSubSeq
    <2> QED  BY <1>1, <2>2 DEF Kept, Log!Kept
<1>2. CASE ~(Len(s) > Limit)
    BY <1>2 DEF Kept, Log!Kept
<1> QED  BY <1>1, <1>2

\* Every step is a step of the revision log or leaves it alone.
LEMMA StepLog == IInv /\ IInv' /\ [Next]_vars => [Log!Next]_Log!logVars
<1> SUFFICES ASSUME IInv, IInv', [Next]_vars PROVE [Log!Next]_Log!logVars
    OBVIOUS
<1>1. history \in Seq(Seq(Event)) /\ events \in Seq(Event) /\ events' \in Seq(Event)
    BY DEF IInv, TypeOK
<1>2. ASSUME NEW new, Commit(new) PROVE Log!Next
    <2>1. Append(history, events) \in Seq(Seq(Event))
        BY <1>1
    <2>2. history' = Log!Kept(Append(history, events)) /\ revision' = revision + 1
        BY <1>2, <2>1, SameKept DEF Commit
    <2> QED  BY <1>1, <2>2 DEF Log!Next, Log!Commit
<1>3. CASE Split \/ Merge \/ Reorder \/ Edit \/ Add \/ AttachImage \/ DetachImage
    BY <1>2, <1>3 DEF Split, Merge, Reorder, Edit, Add, AttachImage, DetachImage
<1>4. CASE Undo
    BY <1>4 DEF Undo, Log!Next, Log!Undo
<1>5. CASE UNCHANGED vars
    BY <1>5 DEF vars, Log!logVars
<1> QED  BY <1>3, <1>4, <1>5 DEF Next

\* The editing session implements the abstract revision log.
THEOREM SessionIsRevisionLog == Spec => LogSpec
<1>1. Init => Log!Init
    <2> SUFFICES ASSUME Init PROVE Log!Init
        OBVIOUS
    <2>1. events \in Seq(Event)
        BY InitInv DEF IInv, TypeOK
    <2> QED  BY <2>1 DEF Init, Log!Init
<1>2. IInv /\ IInv' /\ [Next]_vars => [Log!Next]_Log!logVars
    BY StepLog
<1> QED  BY <1>1, <1>2, InvHolds, PTL DEF Spec, LogSpec, Log!Spec
=============================================================================
