------------------------- MODULE HypothesisStoreProofs -------------------------
(***************************************************************************)
(* What the store of Query Hypothesis sessions keeps for any number of     *)
(* clients, sessions and requests: a session that is used stays, and of    *)
(* two mutations of the same revision at most one is accepted.             *)
(***************************************************************************)
EXTENDS HypothesisStore, SequenceTheorems, FiniteSetTheorems, WellFoundedInduction, TLAPS

-----------------------------------------------------------------------------
(* The keys of the OrderedDict in their order: a sequence without          *)
(* repetition.                                                             *)

\* A set of natural numbers that is not empty has a least member.
LEMMA LeastNatural ==
    ASSUME NEW I, I \subseteq Nat, I # {}
    PROVE  \E x \in I : \A y \in I : x <= y
<1>1. PICK x \in I : \A y \in I : <<y, x>> \notin OpToRel(<, Nat)
    BY WFMin, NatLessThanWellFounded
<1>2. ASSUME NEW y \in I
      PROVE  x <= y
    <2>1. x \in Nat /\ y \in Nat
        OBVIOUS
    <2>2. y < x => <<y, x>> \in OpToRel(<, Nat)
        BY <2>1 DEF OpToRel
    <2>3. <<y, x>> \notin OpToRel(<, Nat)
        BY <1>1
    <2>4. ~(y < x)
        BY <2>2, <2>3
    <2> QED  BY <2>1, <2>4
<1> QED
    BY <1>2

\* Removing a key removes one of its places.
LEMMA RemoveFirstIndex ==
    ASSUME NEW S, NEW q \in Seq(S), NEW s, \E i \in 1..Len(q) : q[i] = s
    PROVE  \E i \in 1..Len(q) : q[i] = s /\ RemoveFirst(q, s) = RemoveAt(q, i)
<1> DEFINE I == {i \in 1..Len(q) : q[i] = s}
<1>1. I \subseteq Nat /\ I # {}
    OBVIOUS
<1>2. \E x \in I : \A y \in I : x <= y
    <2> HIDE DEF I
    <2> QED  BY <1>1, LeastNatural
<1>3. Min(I) \in I
    BY <1>2 DEF Min
<1>4. SelectInSeq(q, LAMBDA v : v = s) = Min(I)
    BY <1>1 DEF SelectInSeq
<1>5. RemoveFirst(q, s) = RemoveAt(q, Min(I))
    BY <1>4 DEF RemoveFirst
<1> QED
    BY <1>3, <1>5

\* Removing a place closes the gap and leaves the order.
LEMMA RemoveAtProperties ==
    ASSUME NEW S, NEW q \in Seq(S), NEW i \in 1..Len(q)
    PROVE  /\ RemoveAt(q, i) \in Seq(S)
           /\ Len(RemoveAt(q, i)) = Len(q) - 1
           /\ \A j \in 1..(Len(q) - 1) :
                  RemoveAt(q, i)[j] = IF j < i THEN q[j] ELSE q[j + 1]
<1> DEFINE n == Len(q)
           before == SubSeq(q, 1, i - 1)
           after == SubSeq(q, i + 1, n)
<1>1. n \in Nat /\ i \in Nat /\ \A j \in 1..n : q[j] \in S
    BY ElementOfSeq, LenProperties
<1>2. /\ before \in Seq(S) /\ Len(before) = i - 1
      /\ \A j \in 1..(i - 1) : before[j] = q[j]
    <2>1. \A j \in 1..(i - 1) : q[j] \in S
        BY <1>1
    <2>2. /\ before \in Seq(S)
          /\ Len(before) = IF 1 <= i - 1 THEN i - 1 - 1 + 1 ELSE 0
          /\ \A j \in 1..(i - 1 - 1 + 1) : before[j] = q[1 + j - 1]
        BY <2>1, SubSeqProperties
    <2>3. i - 1 - 1 + 1 = i - 1 /\ \A j \in 1..(i - 1) : 1 + j - 1 = j
        OBVIOUS
    <2> HIDE DEF before
    <2>4. \A j \in 1..(i - 1) : before[j] = q[j]
        BY <2>2, <2>3
    <2> QED  BY <2>2, <2>4
<1>3. /\ after \in Seq(S) /\ Len(after) = n - i
      /\ \A j \in 1..(n - i) : after[j] = q[j + i]
    <2>1. \A j \in (i + 1)..n : q[j] \in S
        BY <1>1
    <2>2. /\ after \in Seq(S)
          /\ Len(after) = IF i + 1 <= n THEN n - (i + 1) + 1 ELSE 0
          /\ \A j \in 1..(n - (i + 1) + 1) : after[j] = q[(i + 1) + j - 1]
        BY <1>1, <2>1, SubSeqProperties
    <2> HIDE DEF after, n
    <2>3. n - (i + 1) + 1 = n - i /\ \A j \in 1..(n - i) : (i + 1) + j - 1 = j + i
        BY <1>1
    <2>4. \A j \in 1..(n - i) : after[j] = q[j + i]
        BY <2>2, <2>3
    <2>5. i <= n
        BY DEF n
    <2> QED  BY <1>1, <2>2, <2>4, <2>5
<1>4. RemoveAt(q, i) = before \o after
    BY DEF RemoveAt
<1> HIDE DEF before, after, n
<1>5. /\ before \o after \in Seq(S) /\ Len(before \o after) = Len(before) + Len(after)
      /\ \A j \in 1..(Len(before) + Len(after)) :
             (before \o after)[j] = IF j <= Len(before) THEN before[j] ELSE after[j - Len(before)]
    BY <1>2, <1>3, ConcatProperties
<1>6. Len(before) + Len(after) = n - 1
    BY <1>1, <1>2, <1>3
<1>7. ASSUME NEW j \in 1..(n - 1)
      PROVE  (before \o after)[j] = IF j < i THEN q[j] ELSE q[j + 1]
    <2>1. (before \o after)[j] = IF j <= i - 1 THEN before[j] ELSE after[j - (i - 1)]
        BY <1>2, <1>5, <1>6
    <2>2. CASE j < i
        BY <1>1, <1>2, <2>1, <2>2
    <2>3. CASE j >= i
        <3>1. j - (i - 1) \in 1..(n - i) /\ (j - (i - 1)) + i = j + 1
            BY <1>1, <2>3
        <3>2. after[j - (i - 1)] = q[j + 1]
            BY <1>3, <3>1
        <3> QED  BY <2>1, <2>3, <3>2
    <2>4. j < i \/ j >= i
        BY <1>1
    <2> QED  BY <2>2, <2>3, <2>4
<1> QED
    BY <1>4, <1>5, <1>6, <1>7 DEF n

\* Removing a key removes that key only.
LEMMA RemoveFirstProperties ==
    ASSUME NEW S, NEW q \in Seq(S), IsInjective(q), NEW s
    PROVE  /\ RemoveFirst(q, s) \in Seq(S)
           /\ IsInjective(RemoveFirst(q, s))
           /\ ToSet(RemoveFirst(q, s)) = ToSet(q) \ {s}
           /\ Len(RemoveFirst(q, s)) <= Len(q)
           /\ s \in ToSet(q) => Len(RemoveFirst(q, s)) = Len(q) - 1
<1>1. Len(q) \in Nat /\ DOMAIN q = 1..Len(q)
    BY LenProperties
<1>2. CASE \E i \in 1..Len(q) : q[i] = s
    <2>1. PICK i \in 1..Len(q) : q[i] = s /\ RemoveFirst(q, s) = RemoveAt(q, i)
        BY <1>2, RemoveFirstIndex
    <2> DEFINE r == RemoveAt(q, i)
    <2>2. /\ r \in Seq(S) /\ Len(r) = Len(q) - 1
          /\ \A j \in 1..(Len(q) - 1) : r[j] = IF j < i THEN q[j] ELSE q[j + 1]
        BY RemoveAtProperties
    <2>3. DOMAIN r = 1..(Len(q) - 1)
        BY <2>2, LenProperties
    <2> HIDE DEF r
    <2>4. IsInjective(r)
        BY <1>1, <2>2, <2>3, SMTT(40) DEF IsInjective
    <2>5. ASSUME NEW x \in ToSet(q), x # s
          PROVE  x \in ToSet(r)
        <3>1. PICK j \in 1..Len(q) : q[j] = x
            BY <1>1 DEF ToSet
        <3>2. j # i
            BY <2>1, <2>5, <3>1
        <3>3. CASE j < i
            BY <1>1, <2>2, <2>3, <3>1, <3>3 DEF ToSet
        <3>4. CASE j > i
            <4>1. j - 1 \in 1..(Len(q) - 1) /\ ~(j - 1 < i) /\ (j - 1) + 1 = j
                BY <1>1, <3>4
            <4>2. r[j - 1] = x
                BY <2>2, <3>1, <4>1
            <4> QED  BY <2>3, <4>1, <4>2 DEF ToSet
        <3> QED  BY <1>1, <3>2, <3>3, <3>4
    <2>6. ASSUME NEW x \in ToSet(r)
          PROVE  x \in ToSet(q) \ {s}
        <3>1. PICK j \in 1..(Len(q) - 1) : r[j] = x
            BY <2>3 DEF ToSet
        <3>2. PICK k \in 1..Len(q) : k # i /\ q[k] = x
            <4>1. CASE j < i
                BY <1>1, <2>2, <3>1, <4>1
            <4>2. CASE j >= i
                BY <1>1, <2>2, <3>1, <4>2
            <4> QED  BY <1>1, <4>1, <4>2
        <3>3. x # s
            BY <1>1, <2>1, <3>2 DEF IsInjective
        <3> QED  BY <1>1, <3>2, <3>3 DEF ToSet
    <2>7. RemoveFirst(q, s) = r
        BY <2>1 DEF r
    <2>8. s \notin ToSet(r) /\ ToSet(r) = ToSet(q) \ {s}
        BY <2>5, <2>6
    <2>9. Len(q) - 1 <= Len(q)
        BY <1>1
    <2> QED  BY <2>2, <2>4, <2>7, <2>8, <2>9
<1>3. CASE ~\E i \in 1..Len(q) : q[i] = s
    <2>1. RemoveFirst(q, s) = q /\ s \notin ToSet(q)
        BY <1>1, <1>3 DEF RemoveFirst, ToSet
    <2>2. ToSet(q) = ToSet(q) \ {s} /\ Len(q) <= Len(q)
        BY <1>1, <2>1
    <2> QED  BY <2>1, <2>2
<1> QED
    BY <1>2, <1>3

\* A key that is new may be appended to distinct ones.
LEMMA AppendFresh ==
    ASSUME NEW S, NEW q \in Seq(S), IsInjective(q), NEW s \in S, s \notin ToSet(q)
    PROVE  /\ Append(q, s) \in Seq(S)
           /\ IsInjective(Append(q, s))
           /\ ToSet(Append(q, s)) = ToSet(q) \cup {s}
           /\ Len(Append(q, s)) = Len(q) + 1
<1> DEFINE r == Append(q, s)
<1>1. Len(q) \in Nat /\ DOMAIN q = 1..Len(q)
    BY LenProperties
<1>2. /\ r \in Seq(S) /\ Len(r) = Len(q) + 1
      /\ \A i \in 1..Len(q) : r[i] = q[i]
      /\ r[Len(q) + 1] = s
    BY AppendProperties
<1>3. DOMAIN r = 1..(Len(q) + 1)
    BY <1>2, LenProperties
<1> HIDE DEF r
<1>4. \A i \in 1..Len(q) : q[i] # s
    BY <1>1 DEF ToSet
<1>5. IsInjective(r)
    BY <1>1, <1>2, <1>3, <1>4 DEF IsInjective
<1>6. ToSet(r) = ToSet(q) \cup {s}
    <2>1. \A i \in 1..(Len(q) + 1) : i \in 1..Len(q) \/ i = Len(q) + 1
        BY <1>1
    <2>2. 1..Len(q) \subseteq 1..(Len(q) + 1) /\ Len(q) + 1 \in 1..(Len(q) + 1)
        BY <1>1
    <2> QED  BY <1>1, <1>2, <1>3, <2>1, <2>2 DEF ToSet
<1> QED
    BY <1>2, <1>5, <1>6 DEF r

-----------------------------------------------------------------------------
(* The inductive invariant.                                                *)

Call == [kind : Kinds, session : Sessions \cup {None}, expected : Nat \cup {None},
         late : BOOLEAN, view : View \cup {None}, answer : Answers]

\* The types; the bound of inUse follows from the counts.
Typing ==
    /\ entries \in Seq(Sessions) /\ Len(entries) <= MaxEntries /\ IsInjective(entries)
    /\ tombstones \subseteq created /\ created \subseteq Sessions /\ outlived \subseteq created
    /\ intent \in [Sessions -> Nat] /\ depth \in [Sessions -> 0..Limit]
    /\ inUse \in [Sessions -> Int]
    /\ lockedBy \in [Sessions -> Clients \cup {None}]
    /\ pc \in [Clients -> Labels]
    /\ call \in [Clients -> Call]
    /\ shown \in [Clients -> View \cup {None}]
    /\ requests \in 0..MaxRequests

Busy == {"waiting", "locked", "writing", "leaving"}
Using(s) == {c \in Clients : pc[c] \in Busy /\ Session(c) = s}

\* inUse counts the calls that await or hold the slot.
Counts == \A s \in Sessions : inUse[s] = Cardinality(Using(s))

\* What a client's call knows: its session exists unless it is being opened, its lock is
\* the slot's, a write still sees the revision it was sent for, and an accepted mutation
\* has a revision that the session has reached.
Local(c) ==
    /\ pc[c] # "idle" => Session(c) \in Sessions
    /\ pc[c] \notin {"idle", "putting"} => Session(c) \in created
    /\ pc[c] = "putting" => Session(c) \notin created
    /\ pc[c] \in {"putting", "entering", "waiting", "locked", "writing"} => call[c].answer = "none"
    /\ pc[c] \in {"locked", "writing"} => lockedBy[Session(c)] = c
    /\ pc[c] = "writing" => /\ call[c].kind \in {"commit", "undo"}
                            /\ call[c].expected = intent[Session(c)]
    /\ pc[c] \in {"view_revision", "view_history"} =>
          call[c].kind = "get" /\ call[c].view \in View /\ call[c].view.session = Session(c)
    /\ pc[c] = "putting" => call[c].kind = "open"
    /\ Accepted(c) => /\ Session(c) \in created /\ call[c].view \in View
                      /\ call[c].view.revision = call[c].expected + 1
                      /\ call[c].view.revision <= intent[Session(c)]
    /\ shown[c] # None => shown[c].session \in created

\* An id that is being opened is nobody else's.
FreshIds == \A c \in Clients : pc[c] = "putting" =>
                \A d \in Clients \ {c} : Session(d) # Session(c)

IInv ==
    /\ Typing /\ Counts /\ Stored \subseteq created /\ FreshIds
    /\ \A c \in Clients : Local(c)
    /\ BusySessionsStay /\ UpdatesNotLost

-----------------------------------------------------------------------------
\* The invariant holds of an empty store.
LEMMA InitInv == Init => IInv
<1> SUFFICES ASSUME Init PROVE IInv
    OBVIOUS
<1>1. Typing
    <2>1. NoCall \in Call
        BY DEF NoCall, Call, Kinds, Answers
    <2>2. entries \in Seq(Sessions) /\ Len(entries) <= MaxEntries /\ IsInjective(entries)
        BY HypothesisAssumption DEF Init, IsInjective
    <2> QED  BY <2>1, <2>2, HypothesisAssumption DEF Init, Typing, Labels
<1>2. Counts
    <2>1. \A s \in Sessions : Using(s) = {}
        BY DEF Init, Using, Busy
    <2> QED  BY <2>1, FS_EmptySet DEF Init, Counts
<1>3. Stored \subseteq created
    BY DEF Init, Stored, ToSet
<1>4. \A c \in Clients : pc[c] = "idle" /\ call[c] = NoCall /\ shown[c] = None
    BY DEF Init
<1>5. FreshIds /\ BusySessionsStay /\ UpdatesNotLost
    BY <1>4 DEF FreshIds, BusySessionsStay, UpdatesNotLost, Accepted, NoCall
<1>6. \A c \in Clients : Local(c)
    BY <1>4 DEF Local, Accepted, NoCall
<1> QED  BY <1>1, <1>2, <1>3, <1>5, <1>6 DEF IInv

-----------------------------------------------------------------------------
(* One client's step.                                                      *)

Alone(c) == \A d \in Clients \ {c} :
                pc'[d] = pc[d] /\ call'[d] = call[d] /\ shown'[d] = shown[d]

\* The step of c leaves to the others the slots that they have locked, and takes no
\* session back.
Respects(c) ==
    /\ created \subseteq created'
    /\ \A s \in created : intent[s] <= intent'[s]
    /\ \A d \in Clients \ {c} : pc[d] = "putting" => Session(d) \notin created'
    /\ \A d \in Clients \ {c}, s \in created :
          lockedBy[s] = d => lockedBy'[s] = d /\ intent'[s] = intent[s]

\* What other calls know stays true when one call respects their locks and slots.
LEMMA OthersLocal ==
    ASSUME IInv, NEW c \in Clients, Alone(c), Respects(c), Typing', NEW d \in Clients \ {c}
    PROVE  Local(d)'
<1>1. Local(d) /\ pc'[d] = pc[d] /\ call'[d] = call[d] /\ shown'[d] = shown[d]
    BY DEF IInv, Alone
<1>2. pc[d] \in {"locked", "writing"} =>
          /\ lockedBy'[Session(d)] = d /\ intent'[Session(d)] = intent[Session(d)]
    BY <1>1 DEF Respects, Local
<1>3. Accepted(d) => call[d].view.revision <= intent'[Session(d)]
    <2>1. ASSUME Accepted(d) PROVE call[d].view.revision <= intent'[Session(d)]
        <3>1. /\ Session(d) \in created /\ call[d].view \in View
              /\ call[d].view.revision <= intent[Session(d)]
            BY <1>1, <2>1 DEF Local
        <3>2. /\ call[d].view.revision \in Nat
              /\ intent[Session(d)] \in Nat /\ intent'[Session(d)] \in Nat
              /\ intent[Session(d)] <= intent'[Session(d)]
            BY <3>1 DEF View, IInv, Typing, Respects
        <3> QED  BY <3>1, <3>2
    <2> QED  BY <2>1
<1> QED  BY <1>1, <1>2, <1>3 DEF Local, Respects, Session, Accepted

\* What the steps of a client have in common.
LEMMA StepClosed ==
    ASSUME IInv, NEW c \in Clients, Alone(c), Respects(c), Typing', Counts',
           Stored' \subseteq created', FreshIds', BusySessionsStay', UpdatesNotLost', Local(c)'
    PROVE  IInv'
BY OthersLocal DEF IInv

\* Finitely many calls use a session.
LEMMA UsingFinite == \A s : IsFiniteSet(Using(s)) /\ Cardinality(Using(s)) \in Nat
<1> TAKE s
<1>1. Using(s) \subseteq Clients
    BY DEF Using
<1>2. IsFiniteSet(Using(s))
    BY <1>1, FS_Subset, HypothesisAssumption
<1> QED  BY <1>2, FS_CardinalityType

\* A client that stays outside the slots, or inside one, changes no count.
LEMMA CountsKept ==
    ASSUME IInv, NEW c \in Clients, Alone(c), UNCHANGED inUse,
           pc[c] \in Busy <=> pc'[c] \in Busy,
           pc[c] \in Busy => call'[c].session = call[c].session
    PROVE  Counts'
<1>1. \A s \in Sessions : Using(s)' = Using(s)
    BY DEF Using, Alone, Session
<1> QED  BY <1>1 DEF IInv, Counts

\* A mutation that was accepted before, and no other, is accepted after the step.
LEMMA UpdatesKept ==
    ASSUME IInv, NEW c \in Clients, Alone(c), Accepted(c)' => FALSE
    PROVE  UpdatesNotLost'
BY DEF IInv, UpdatesNotLost, Alone, Accepted, Session

\* A session in use has been counted.
LEMMA UsedIsCounted ==
    ASSUME IInv, NEW c \in Clients, pc[c] \in Busy
    PROVE  Session(c) \in Sessions /\ inUse[Session(c)] # 0
<1>1. Session(c) \in Sessions /\ c \in Using(Session(c))
    BY DEF IInv, Local, Using, Busy
<1>2. Cardinality(Using(Session(c))) # 0
    BY <1>1, UsingFinite, FS_EmptySet
<1> QED  BY <1>1, <1>2 DEF IInv, Counts

\* Sessions in use stay when only unused ones are removed.
LEMMA BusyKept ==
    ASSUME IInv, NEW c \in Clients, Alone(c),
           \A s \in Stored : inUse[s] # 0 => s \in Stored',
           pc'[c] \in Busy => call'[c].session \in Stored'
    PROVE  BusySessionsStay'
<1> SUFFICES ASSUME NEW d \in Clients, pc'[d] \in Busy
             PROVE  call'[d].session \in Stored'
    BY DEF BusySessionsStay, Session, Busy
<1>1. CASE d # c
    <2>1. pc[d] \in Busy /\ call'[d] = call[d]
        BY <1>1 DEF Alone
    <2>2. Session(d) \in Stored
        BY <2>1 DEF IInv, BusySessionsStay, Busy
    <2> QED  BY <2>1, <2>2, UsedIsCounted DEF Session
<1> QED  BY <1>1

\* A call that does not open a session disturbs no id that is being opened.
LEMMA FreshKept ==
    ASSUME IInv, NEW c \in Clients, Alone(c), pc'[c] # "putting",
           call'[c].session = call[c].session \/ call'[c].session \in created
    PROVE  FreshIds'
<1> SUFFICES ASSUME NEW d \in Clients, pc'[d] = "putting", NEW e \in Clients \ {d}
             PROVE  call'[e].session # call'[d].session
    BY DEF FreshIds, Session
<1>1. /\ d # c /\ pc[d] = "putting" /\ call'[d] = call[d]
      /\ call[d].session \notin created /\ call[e].session # call[d].session
    BY DEF Alone, IInv, FreshIds, Local, Session
<1>2. e # c => call'[e] = call[e]
    BY DEF Alone
<1> QED  BY <1>1, <1>2

\* A step that leaves the slots and the store alone.
LEMMA QuietStep ==
    ASSUME IInv, NEW c \in Clients, Alone(c), Typing', Local(c)', FreshIds', UpdatesNotLost',
           UNCHANGED <<entries, created, intent, inUse, lockedBy>>,
           pc[c] \in Busy <=> pc'[c] \in Busy,
           pc[c] \in Busy => call'[c].session = call[c].session
    PROVE  IInv'
<1>1. Respects(c)
    <2>1. \A s \in created : intent[s] \in Nat
        BY DEF IInv, Typing
    <2> QED  BY <2>1 DEF Respects, IInv, Local
<1>2. Stored' = Stored /\ Stored' \subseteq created'
    BY DEF Stored, IInv
<1>3. BusySessionsStay'
    BY <1>2, BusyKept DEF IInv, BusySessionsStay, Busy, Session
<1> QED  BY <1>1, <1>2, <1>3, CountsKept, StepClosed

-----------------------------------------------------------------------------
(* Requests.                                                               *)

\* A call that begins.
LEMMA BeginStep ==
    ASSUME IInv, NEW c \in Clients, NEW kind \in Kinds, NEW s \in Sessions,
           NEW expected \in Nat \cup {None}, NEW label \in {"putting", "entering"},
           Begin(c, kind, s, expected, label),
           label = "putting" => kind = "open",
           IF label = "putting" THEN s \notin created /\ \A d \in Clients : call[d].session # s
                                ELSE s \in created
    PROVE  IInv'
<1> DEFINE late == s \in outlived
           new == [NoCall EXCEPT !.kind = kind, !.session = s, !.expected = expected,
                                 !.late = late]
<1>1. /\ new \in Call /\ new.session = s /\ new.answer = "none" /\ new.kind = kind
    <2>1. "none" \in Answers
        BY DEF Answers
    <2>2. late \in BOOLEAN
        OBVIOUS
    <2> HIDE DEF late
    <2> QED  BY <2>1, <2>2 DEF NoCall, Call
<1> HIDE DEF new
<1>2. /\ pc[c] = "idle" /\ requests < MaxRequests /\ requests' = requests + 1
      /\ pc' = [pc EXCEPT ![c] = label] /\ call' = [call EXCEPT ![c] = new]
      /\ UNCHANGED <<storeVars, outlived, slotVars, shown>>
    BY DEF Begin, Goto, new
<1>3. pc'[c] = label /\ call'[c] = new /\ Alone(c)
    BY <1>2 DEF IInv, Typing, Alone
<1>4. Typing'
    <2>1. requests' \in 0..MaxRequests
        BY <1>2, HypothesisAssumption DEF IInv, Typing
    <2> QED  BY <1>1, <1>2, <2>1 DEF IInv, Typing, storeVars, slotVars, Labels
<1>5. Local(c)'
    BY <1>1, <1>2, <1>3 DEF IInv, Local, Session, Accepted, storeVars, slotVars
<1>6. FreshIds'
    <2>1. CASE label = "entering"
        BY <1>1, <1>3, <2>1, FreshKept
    <2>2. CASE label = "putting"
        BY <1>1, <1>3, <2>2 DEF IInv, FreshIds, Session, Alone
    <2> QED  BY <2>1, <2>2
<1>7. UpdatesNotLost'
    BY <1>1, <1>3, UpdatesKept DEF Accepted
<1> QED  BY <1>2, <1>3, <1>4, <1>5, <1>6, <1>7, QuietStep DEF storeVars, slotVars, Busy

\* A new call keeps the invariant.
LEMMA BeginsStep ==
    ASSUME IInv, NEW c \in Clients,
           \/ \E s \in Sessions : BeginOpen(c, s) \/ BeginGet(c, s)
           \/ \E kind \in Kinds : BeginMutation(c, kind)
    PROVE  IInv'
<1>1. ASSUME NEW s \in Sessions, BeginOpen(c, s) PROVE IInv'
    BY <1>1, BeginStep DEF BeginOpen, Kinds
<1>2. ASSUME NEW s \in Sessions, BeginGet(c, s) PROVE IInv'
    BY <1>2, BeginStep DEF BeginGet, Kinds
<1>3. ASSUME NEW kind \in Kinds, BeginMutation(c, kind) PROVE IInv'
    <2>1. shown[c] \in View /\ shown[c].session \in created
        BY <1>3 DEF BeginMutation, IInv, Local, Typing
    <2>2. shown[c].session \in Sessions /\ shown[c].revision \in Nat
        BY <2>1 DEF View
    <2> QED  BY <1>3, <2>1, <2>2, BeginStep DEF BeginMutation
<1> QED  BY <1>1, <1>2, <1>3

\* A session that grows old keeps the invariant.
LEMMA AgeStep ==
    ASSUME IInv, NEW s \in Sessions, Age(s)
    PROVE  IInv'
<1>1. UNCHANGED <<storeVars, slotVars, pc, call, shown, requests>>
    BY DEF Age
<1>2. Typing'
    BY <1>1 DEF Age, IInv, Typing, storeVars, slotVars
<1>3. \A c \in Clients : Local(c)'
    BY <1>1 DEF IInv, Local, Session, Accepted, storeVars, slotVars
<1>4. Counts' /\ FreshIds' /\ BusySessionsStay' /\ UpdatesNotLost' /\ Stored' \subseteq created'
    BY <1>1 DEF IInv, Counts, Using, FreshIds, BusySessionsStay, UpdatesNotLost, Accepted, Session,
                Stored, storeVars, slotVars
<1> QED  BY <1>2, <1>3, <1>4 DEF IInv

-----------------------------------------------------------------------------
(* The service's calls under the slot's lock.                              *)

\* The call gives its lock back; it is not an accepted mutation.
LEMMA UnlockStep ==
    ASSUME IInv, NEW c \in Clients, pc[c] = "locked", Unlock(c),
           NEW reply \in Answers, call' = [call EXCEPT ![c].answer = reply],
           reply = "ok" => call[c].kind \notin {"commit", "undo"},
           UNCHANGED <<storeVars, outlived, intent, depth, inUse, shown, requests>>
    PROVE  IInv'
<1> DEFINE s == Session(c)
<1>1. /\ s \in Sessions /\ s \in created /\ lockedBy[s] = c /\ call[c] \in Call
      /\ c # None
    BY HypothesisNoneAssumption DEF IInv, Local, Typing
<1>2. /\ pc'[c] = "leaving" /\ Alone(c) /\ call' \in [Clients -> Call]
      /\ call'[c].answer = reply /\ call'[c].kind = call[c].kind
      /\ call'[c].session = call[c].session
    BY <1>1 DEF Unlock, Goto, IInv, Typing, Alone, Call
<1>3. Typing'
    BY <1>1, <1>2 DEF Unlock, Goto, IInv, Typing, storeVars, Labels
<1>4. Local(c)'
    BY <1>1, <1>2 DEF IInv, Local, Accepted, Session, storeVars
<1>5. FreshIds'
    BY <1>2, FreshKept
<1>6. UpdatesNotLost'
    BY <1>2, UpdatesKept DEF Accepted
<1>7. Respects(c)
    <2>1. \A t \in Sessions : t # s => lockedBy'[t] = lockedBy[t]
        BY <1>1 DEF Unlock, IInv, Typing
    <2>2. \A t \in created : t \in Sessions /\ intent[t] \in Nat
        BY DEF IInv, Typing
    <2> QED  BY <1>1, <2>1, <2>2 DEF Respects, IInv, Local, storeVars
<1>8. Stored' = Stored /\ Stored' \subseteq created'
    BY DEF Stored, IInv, storeVars
<1>9. BusySessionsStay'
    BY <1>2, <1>8, BusyKept DEF IInv, BusySessionsStay, Busy, Session
<1>10. Counts'
    BY <1>2, CountsKept DEF Busy
<1> QED  BY <1>2, <1>3, <1>4, <1>5, <1>6, <1>7, <1>8, <1>9, <1>10, StepClosed

\* A read, a refusal and a preview keep the invariant.
LEMMA ReadStep ==
    ASSUME IInv, NEW c \in Clients, Get(c) \/ Refuse(c) \/ Preview(c)
    PROVE  IInv'
<1>1. call \in [Clients -> Call]
    BY DEF IInv, Typing
<1>2. CASE Get(c)
    <2>1. call[c].answer = "none" /\ call[c].answer \in Answers
        BY <1>2 DEF Get, IInv, Local, Answers
    <2>2. call' = [call EXCEPT ![c].answer = "none"]
        BY <1>1, <1>2, <2>1 DEF Get, Call
    <2> QED  BY <1>2, <2>1, <2>2, UnlockStep DEF Get
<1>3. CASE Refuse(c)
    BY <1>3, UnlockStep DEF Refuse, Answer, Answers
<1>4. CASE Preview(c)
    BY <1>4, UnlockStep DEF Preview, Answer, Answers
<1> QED  BY <1>2, <1>3, <1>4

\* The first assignment of a commit keeps the invariant.
LEMMA WriteHistoryStep ==
    ASSUME IInv, NEW c \in Clients, WriteHistory(c)
    PROVE  IInv'
<1> DEFINE s == Session(c)
<1>1. /\ pc[c] = "locked" /\ s \in Sessions /\ call[c].expected = intent[s]
      /\ call[c].kind \in {"commit", "undo"} /\ call[c].answer = "none"
      /\ pc' = [pc EXCEPT ![c] = "writing"]
      /\ UNCHANGED <<storeVars, outlived, intent, inUse, lockedBy, call, shown, requests>>
    BY DEF WriteHistory, Goto, IInv, Local
<1>2. pc'[c] = "writing" /\ Alone(c)
    BY <1>1 DEF IInv, Typing, Alone
<1>3. depth' \in [Sessions -> 0..Limit]
    <2>1. depth[s] \in 0..Limit /\ Limit \in Nat /\ depth \in [Sessions -> 0..Limit]
        BY <1>1, HypothesisAssumption DEF IInv, Typing
    <2> QED  BY <1>1, <2>1 DEF WriteHistory
<1>4. Typing'
    BY <1>1, <1>3 DEF IInv, Typing, storeVars, Labels
<1>5. Local(c)'
    BY <1>1, <1>2 DEF IInv, Local, Accepted, Session, storeVars
<1>6. FreshIds'
    BY <1>1, <1>2, FreshKept
<1>7. UpdatesNotLost'
    BY <1>1, <1>2, UpdatesKept DEF Accepted
<1> QED  BY <1>1, <1>2, <1>4, <1>5, <1>6, <1>7, QuietStep DEF Busy, storeVars

\* The client shows the view that it is answered.
LEMMA ShowStep ==
    ASSUME NEW c \in Clients, NEW view \in View, Typing, Show(c, view)
    PROVE  /\ call' \in [Clients -> Call] /\ shown' \in [Clients -> View \cup {None}]
           /\ call'[c].answer = "ok" /\ call'[c].view = view
           /\ call'[c].kind = call[c].kind /\ call'[c].session = call[c].session
           /\ call'[c].expected = call[c].expected /\ shown'[c] = view
           /\ \A d \in Clients \ {c} : call'[d] = call[d] /\ shown'[d] = shown[d]
<1>1. call' = [call EXCEPT ![c].answer = "ok", ![c].view = view]
    BY DEF Show
<1>2. call \in [Clients -> Call] /\ "ok" \in Answers
    BY DEF Typing, Answers
<1>3. call' \in [Clients -> Call]
    BY <1>1, <1>2 DEF Call
<1>4. /\ call'[c].answer = "ok" /\ call'[c].view = view
      /\ call'[c].kind = call[c].kind /\ call'[c].session = call[c].session
      /\ call'[c].expected = call[c].expected
      /\ \A d \in Clients \ {c} : call'[d] = call[d]
    BY <1>1, <1>2 DEF Call
<1> QED  BY <1>3, <1>4 DEF Show, Typing

\* The second assignment of a commit keeps the invariant.
LEMMA WriteIntentStep ==
    ASSUME IInv, NEW c \in Clients, WriteIntent(c)
    PROVE  IInv'
<1> DEFINE s == Session(c)
           view == ViewOf(s, intent[s] + 1, depth[s])
<1>1. /\ pc[c] = "writing" /\ s \in Sessions /\ s \in created /\ lockedBy[s] = c
      /\ call[c].expected = intent[s] /\ call[c].kind \in {"commit", "undo"}
      /\ intent[s] \in Nat /\ depth[s] \in 0..Limit /\ c # None
      /\ intent' = [intent EXCEPT ![s] = @ + 1] /\ Show(c, view)
      /\ pc' = [pc EXCEPT ![c] = "leaving"] /\ lockedBy' = [lockedBy EXCEPT ![s] = None]
      /\ UNCHANGED <<storeVars, outlived, depth, inUse, requests>>
    BY HypothesisNoneAssumption DEF WriteIntent, Unlock, Goto, IInv, Local, Typing
<1>2. view \in View /\ view.revision = intent[s] + 1 /\ view.session = s
    BY <1>1 DEF ViewOf, View
<1> HIDE DEF view
<1>3. /\ call' \in [Clients -> Call] /\ shown' \in [Clients -> View \cup {None}]
      /\ call'[c].answer = "ok" /\ call'[c].view = view
      /\ call'[c].kind = call[c].kind /\ call'[c].session = s
      /\ call'[c].expected = call[c].expected /\ shown'[c] = view
      /\ \A d \in Clients \ {c} : call'[d] = call[d] /\ shown'[d] = shown[d]
    BY <1>1, <1>2, ShowStep DEF IInv, Session
<1>4. pc'[c] = "leaving" /\ Alone(c)
    BY <1>1, <1>3 DEF IInv, Typing, Alone
<1>5. intent' \in [Sessions -> Nat] /\ intent'[s] = intent[s] + 1
    BY <1>1 DEF IInv, Typing
<1>6. Typing'
    BY <1>1, <1>3, <1>5 DEF IInv, Typing, storeVars, Labels
<1>7. Local(c)'
    <2>1. intent'[s] \in Nat /\ intent[s] + 1 <= intent'[s]
        BY <1>1, <1>5
    <2> QED  BY <1>1, <1>2, <1>3, <1>4, <1>5, <2>1 DEF Local, Accepted, Session, storeVars
<1>8. FreshIds'
    BY <1>3, <1>4, FreshKept DEF Session
<1>9. UpdatesNotLost'
    <2>1. ASSUME NEW d \in Clients \ {c}, Accepted(d), Session(d) = s
          PROVE  call[d].view.revision # view.revision
        <3>1. call[d].view \in View /\ call[d].view.revision <= intent[s]
            BY <2>1 DEF IInv, Local
        <3>2. call[d].view.revision \in Nat
            BY <3>1 DEF View
        <3> QED  BY <1>1, <1>2, <3>1, <3>2
    <2>2. \A d \in Clients \ {c} : Accepted(d)' => Accepted(d) /\ Session(d)' = Session(d)
                                                   /\ call'[d] = call[d]
        BY <1>3 DEF Accepted, Session
    <2>3. call'[c].view.revision = call'[c].expected + 1
        BY <1>1, <1>2, <1>3
    <2>4. Session(c)' = s
        BY <1>3 DEF Session
    <2> QED  BY <1>3, <2>1, <2>2, <2>3, <2>4 DEF IInv, UpdatesNotLost
<1>10. Respects(c)
    <2>1. \A t \in Sessions : t # s => lockedBy'[t] = lockedBy[t] /\ intent'[t] = intent[t]
        BY <1>1 DEF IInv, Typing
    <2>2. \A t \in created : t \in Sessions /\ intent[t] \in Nat
        BY DEF IInv, Typing
    <2> QED  BY <1>1, <1>5, <2>1, <2>2 DEF Respects, IInv, Local, storeVars
<1>11. Stored' = Stored /\ Stored' \subseteq created'
    BY <1>1 DEF Stored, IInv, storeVars
<1>12. BusySessionsStay'
    BY <1>1, <1>3, <1>4, <1>11, BusyKept DEF IInv, BusySessionsStay, Busy, Session
<1>13. Counts'
    BY <1>1, <1>3, <1>4, CountsKept DEF Busy, Session
<1> QED  BY <1>4, <1>6, <1>7, <1>8, <1>9, <1>10, <1>11, <1>12, <1>13, StepClosed

\* The reads of a view after the lock was released.
LEMMA ViewStep ==
    ASSUME IInv, NEW c \in Clients, ViewRevision(c) \/ ViewHistory(c)
    PROVE  IInv'
<1> DEFINE s == Session(c)
<1>1. /\ pc[c] \in {"view_revision", "view_history"} /\ s \in Sessions /\ s \in created
      /\ call[c] \in Call /\ call[c].kind = "get" /\ call[c].view \in View
    BY DEF ViewRevision, ViewHistory, IInv, Local, Typing
<1>2. CASE ViewRevision(c)
    <2> DEFINE view == [call[c].view EXCEPT !.revision = intent[s]]
    <2>1. view \in View /\ view.session = s
        BY <1>1 DEF View, IInv, Typing, Local, ViewRevision
    <2>2. call' = [call EXCEPT ![c].view = view]
        BY <1>2 DEF ViewRevision
    <2> HIDE DEF view
    <2>3. /\ call' \in [Clients -> Call] /\ pc'[c] = "view_history" /\ Alone(c)
          /\ call'[c].view = view /\ call'[c].kind = "get"
          /\ call'[c].session = call[c].session
        <3>1. call \in [Clients -> Call] /\ pc \in [Clients -> Labels]
            BY DEF IInv, Typing
        <3>2. call' \in [Clients -> Call]
            BY <2>1, <2>2, <3>1 DEF Call
        <3>3. call'[c].view = view /\ call'[c].kind = "get" /\ call'[c].session = call[c].session
            BY <1>1, <2>2, <3>1 DEF Call
        <3>4. pc'[c] = "view_history" /\ Alone(c)
            BY <1>2, <2>2, <3>1 DEF ViewRevision, Goto, Alone
        <3> QED  BY <3>2, <3>3, <3>4
    <2>4. Typing'
        BY <1>2, <2>3 DEF ViewRevision, Goto, IInv, Typing, storeVars, slotVars, Labels
    <2>5. Local(c)'
        BY <1>1, <1>2, <2>1, <2>3 DEF ViewRevision, IInv, Local, Accepted, Session, storeVars
    <2>6. FreshIds' /\ UpdatesNotLost'
        BY <2>3, FreshKept, UpdatesKept DEF Accepted
    <2> QED  BY <1>1, <1>2, <2>3, <2>4, <2>5, <2>6, QuietStep
             DEF ViewRevision, storeVars, slotVars, Busy
<1>3. CASE ViewHistory(c)
    <2> DEFINE view == [call[c].view EXCEPT !.canUndo = depth[s] > 0]
    <2>1. view \in View
        <3>1. (depth[s] > 0) \in BOOLEAN
            OBVIOUS
        <3> QED  BY <1>1, <3>1 DEF View
    <2>2. view.session = call[c].view.session /\ Show(c, view)
        BY <1>1, <1>3 DEF ViewHistory, View
    <2> HIDE DEF view
    <2>3. /\ call' \in [Clients -> Call] /\ shown' \in [Clients -> View \cup {None}]
          /\ call'[c].kind = call[c].kind /\ call'[c].session = call[c].session
          /\ shown'[c] = view
          /\ \A d \in Clients \ {c} : call'[d] = call[d] /\ shown'[d] = shown[d]
        BY <2>1, <2>2, ShowStep DEF IInv
    <2>4. pc'[c] = "idle" /\ Alone(c)
        BY <1>3, <2>3 DEF ViewHistory, Goto, IInv, Typing, Alone
    <2>5. Typing'
        BY <1>3, <2>3 DEF ViewHistory, Goto, IInv, Typing, storeVars, slotVars, Labels
    <2>6. view.session \in created
        BY <1>1, <2>2 DEF IInv, Local, ViewHistory
    <2>7. Local(c)'
        BY <1>1, <1>3, <2>2, <2>3, <2>4, <2>6 DEF ViewHistory, IInv, Local, Accepted, Session, storeVars
    <2>8. FreshIds' /\ UpdatesNotLost'
        BY <1>1, <2>3, <2>4, FreshKept, UpdatesKept DEF Accepted
    <2> QED  BY <1>1, <1>3, <2>3, <2>4, <2>5, <2>7, <2>8, QuietStep
             DEF ViewHistory, storeVars, slotVars, Busy
<1> QED  BY <1>2, <1>3

-----------------------------------------------------------------------------
(* The store.                                                              *)

\* Looking a session up keeps the invariant.
LEMMA AcquireStep ==
    ASSUME IInv, NEW c \in Clients, Acquire(c)
    PROVE  IInv'
<1> DEFINE s == Session(c)
<1>1. /\ pc[c] = "waiting" /\ s \in Sessions /\ s \in created /\ lockedBy[s] = None
      /\ call[c].answer = "none"
      /\ lockedBy' = [lockedBy EXCEPT ![s] = c] /\ pc' = [pc EXCEPT ![c] = "locked"]
      /\ UNCHANGED <<storeVars, outlived, intent, depth, inUse, call, shown, requests>>
    BY DEF Acquire, Goto, IInv, Local
<1>2. pc'[c] = "locked" /\ Alone(c) /\ lockedBy'[s] = c
    BY <1>1 DEF IInv, Typing, Alone
<1>3. Typing'
    BY <1>1 DEF IInv, Typing, storeVars, Labels
<1>4. Local(c)'
    BY <1>1, <1>2 DEF IInv, Local, Accepted, Session, storeVars
<1>5. FreshIds'
    BY <1>1, <1>2, FreshKept
<1>6. UpdatesNotLost'
    BY <1>1, <1>2, UpdatesKept DEF Accepted
<1>7. Respects(c)
    <2>1. \A t \in Sessions : t # s => lockedBy'[t] = lockedBy[t]
        BY <1>1 DEF IInv, Typing
    <2>2. \A t \in created : t \in Sessions /\ intent[t] \in Nat
        BY DEF IInv, Typing
    <2>3. \A d \in Clients : lockedBy[s] # d
        BY <1>1, HypothesisNoneAssumption
    <2> QED  BY <1>1, <2>1, <2>2, <2>3 DEF Respects, IInv, Local, storeVars
<1>8. Stored' = Stored /\ Stored' \subseteq created'
    BY <1>1 DEF Stored, IInv, storeVars
<1>9. BusySessionsStay'
    BY <1>1, <1>2, <1>8, BusyKept DEF IInv, BusySessionsStay, Busy, Session
<1>10. Counts'
    BY <1>1, <1>2, CountsKept DEF Busy
<1> QED  BY <1>2, <1>3, <1>4, <1>5, <1>6, <1>7, <1>8, <1>9, <1>10, StepClosed

\* A session joins the users of a slot, or leaves them.
LEMMA EnterCounts ==
    ASSUME IInv, NEW c \in Clients, Alone(c), NEW s \in Sessions, Session(c) = s,
           call'[c].session = s, pc[c] \notin Busy, pc'[c] \in Busy,
           inUse' = [inUse EXCEPT ![s] = @ + 1]
    PROVE  Counts'
<1>1. Using(s)' = Using(s) \cup {c} /\ c \notin Using(s)
    BY DEF Using, Alone, Session
<1>2. \A t \in Sessions \ {s} : Using(t)' = Using(t)
    BY DEF Using, Alone, Session
<1>3. Cardinality(Using(s)') = Cardinality(Using(s)) + 1
    BY <1>1, UsingFinite, FS_AddElement
<1> QED  BY <1>2, <1>3 DEF IInv, Counts, Typing

\* A call that leaves its slot is no longer counted.
LEMMA LeaveCounts ==
    ASSUME IInv, NEW c \in Clients, Alone(c), NEW s \in Sessions, Session(c) = s,
           pc[c] \in Busy, pc'[c] \notin Busy,
           inUse' = [inUse EXCEPT ![s] = @ - 1]
    PROVE  Counts'
<1>1. Using(s)' = Using(s) \ {c} /\ c \in Using(s)
    BY DEF Using, Alone, Session
<1>2. \A t \in Sessions \ {s} : Using(t)' = Using(t)
    BY DEF Using, Alone, Session
<1>3. Cardinality(Using(s) \ {c}) = Cardinality(Using(s)) - 1
    BY <1>1, UsingFinite, FS_RemoveElement
<1> QED  BY <1>1, <1>2, <1>3 DEF IInv, Counts, Typing

\* The stored ids, least recently used first.
LEMMA StoredOrder ==
    ASSUME IInv
    PROVE  /\ entries \in Seq(Sessions) /\ IsInjective(entries) /\ Len(entries) \in Nat
           /\ Len(entries) <= MaxEntries /\ MaxEntries \in Nat \ {0}
           /\ DOMAIN entries = 1..Len(entries)
BY HypothesisAssumption, LenProperties DEF IInv, Typing

\* Taking the lock of a session keeps the invariant.
LEMMA EnterStep ==
    ASSUME IInv, NEW c \in Clients, Enter(c)
    PROVE  IInv'
<1> DEFINE s == Session(c)
           rest == RemoveFirst(entries, s)
<1>1. /\ pc[c] = "entering" /\ s \in Sessions /\ s \in created /\ s \in Stored
      /\ call[c].answer = "none" /\ entries' = Append(rest, s)
      /\ inUse' = [inUse EXCEPT ![s] = @ + 1] /\ pc' = [pc EXCEPT ![c] = "waiting"]
      /\ UNCHANGED <<tombstones, created, outlived, intent, depth, lockedBy, call, shown, requests>>
    BY DEF Enter, Goto, IInv, Local
<1>2. pc'[c] = "waiting" /\ Alone(c)
    BY <1>1 DEF IInv, Typing, Alone
<1>3. /\ rest \in Seq(Sessions) /\ IsInjective(rest) /\ ToSet(rest) = Stored \ {s}
      /\ Len(rest) = Len(entries) - 1
    BY <1>1, StoredOrder, RemoveFirstProperties DEF Stored
<1> HIDE DEF rest
<1>4. /\ entries' \in Seq(Sessions) /\ IsInjective(entries') /\ ToSet(entries') = Stored
      /\ Len(entries') = Len(entries)
    <2>1. /\ Append(rest, s) \in Seq(Sessions) /\ IsInjective(Append(rest, s))
          /\ ToSet(Append(rest, s)) = ToSet(rest) \cup {s} /\ Len(Append(rest, s)) = Len(rest) + 1
        BY <1>1, <1>3, AppendFresh
    <2> QED  BY <1>1, <1>3, <2>1, StoredOrder
<1>5. Typing'
    <2>1. inUse' \in [Sessions -> Int] /\ pc' \in [Clients -> Labels]
        BY <1>1 DEF IInv, Typing, Labels
    <2>2. Len(entries') <= MaxEntries
        BY <1>4, StoredOrder
    <2> QED  BY <1>1, <1>4, <2>1, <2>2 DEF IInv, Typing
<1>6. Local(c)'
    BY <1>1, <1>2 DEF IInv, Local, Accepted, Session
<1>7. FreshIds'
    BY <1>1, <1>2, FreshKept
<1>8. UpdatesNotLost'
    BY <1>1, <1>2, UpdatesKept DEF Accepted
<1>9. Respects(c)
    <2>1. \A t \in created : intent[t] \in Nat
        BY DEF IInv, Typing
    <2> QED  BY <1>1, <2>1 DEF Respects, IInv, Local
<1>10. Stored' = Stored /\ Stored' \subseteq created'
    BY <1>1, <1>4 DEF Stored, IInv
<1>11. BusySessionsStay'
    BY <1>1, <1>2, <1>10, BusyKept DEF Session
<1>12. Counts'
    BY <1>1, <1>2, EnterCounts DEF Busy, Session
<1> QED  BY <1>2, <1>5, <1>6, <1>7, <1>8, <1>9, <1>10, <1>11, <1>12, StepClosed

\* Releasing a session keeps the invariant.
LEMMA LeaveStep ==
    ASSUME IInv, NEW c \in Clients, Leave(c)
    PROVE  IInv'
<1> DEFINE s == Session(c)
<1>1. /\ pc[c] = "leaving" /\ s \in Sessions /\ s \in created /\ call[c] \in Call
      /\ inUse' = [inUse EXCEPT ![s] = @ - 1]
      /\ UNCHANGED <<storeVars, outlived, intent, depth, lockedBy, shown, requests>>
    BY DEF Leave, IInv, Local, Typing
<1>2. /\ call' \in [Clients -> Call] /\ pc' \in [Clients -> Labels] /\ Alone(c)
      /\ call'[c].kind = call[c].kind /\ call'[c].session = s
      /\ call'[c].answer = call[c].answer
      /\ call'[c].expected = call[c].expected
      /\ \/ /\ pc'[c] = "view_revision" /\ call'[c].kind = "get" /\ call'[c].view \in View
            /\ call'[c].view.session = s
         \/ pc'[c] = "idle" /\ call' = call
    <2>1. CASE /\ call[c].kind = "get" /\ call' = [call EXCEPT ![c].view = ViewOf(s, intent[s], 0)]
               /\ Goto(c, "view_revision")
        <3>1. ViewOf(s, intent[s], 0) \in View /\ ViewOf(s, intent[s], 0).session = s
            BY <1>1 DEF ViewOf, View, IInv, Typing
        <3>2. call \in [Clients -> Call] /\ pc \in [Clients -> Labels]
            BY DEF IInv, Typing
        <3> DEFINE view == ViewOf(s, intent[s], 0)
        <3> HIDE DEF view
        <3>3. call' = [call EXCEPT ![c].view = view] /\ view \in View /\ view.session = s
            BY <2>1, <3>1 DEF view
        <3>4. /\ call' \in [Clients -> Call] /\ call'[c].view = view
              /\ call'[c].kind = call[c].kind /\ call'[c].session = call[c].session
              /\ call'[c].answer = call[c].answer /\ call'[c].expected = call[c].expected
            BY <3>2, <3>3 DEF Call
        <3>5. pc' \in [Clients -> Labels] /\ pc'[c] = "view_revision" /\ Alone(c)
            BY <1>1, <2>1, <3>2, <3>3 DEF Goto, Labels, Alone
        <3> QED  BY <2>1, <3>3, <3>4, <3>5 DEF Session
    <2>2. CASE Goto(c, "idle") /\ UNCHANGED call
        BY <1>1, <2>2 DEF Goto, IInv, Typing, Labels, Alone, Session
    <2> QED  BY <2>1, <2>2 DEF Leave
<1>3. Typing'
    BY <1>1, <1>2 DEF IInv, Typing, storeVars
<1>4. Local(c)'
    BY <1>1, <1>2 DEF IInv, Local, Accepted, Session, storeVars
<1>5. FreshIds'
    BY <1>2, FreshKept DEF Session
<1>6. UpdatesNotLost'
    <2>1. CASE call' = call
        BY <2>1 DEF IInv, UpdatesNotLost, Accepted, Session
    <2>2. CASE call'[c].kind = "get"
        BY <1>2, <2>2, UpdatesKept DEF Accepted
    <2> QED  BY <1>2, <2>1, <2>2
<1>7. Respects(c)
    <2>1. \A t \in created : intent[t] \in Nat
        BY DEF IInv, Typing
    <2> QED  BY <1>1, <2>1 DEF Respects, IInv, Local, storeVars
<1>8. Stored' = Stored /\ Stored' \subseteq created'
    BY <1>1 DEF Stored, IInv, storeVars
<1>9. BusySessionsStay'
    BY <1>2, <1>8, BusyKept DEF Busy
<1>10. Counts'
    BY <1>1, <1>2, LeaveCounts DEF Busy
<1> QED  BY <1>2, <1>3, <1>4, <1>5, <1>6, <1>7, <1>8, <1>9, <1>10, StepClosed

\* A call that ends with an error, or finds no session.
LEMMA LookupFailsStep ==
    ASSUME IInv, NEW c \in Clients, LookupFails(c)
    PROVE  IInv'
<1> DEFINE s == Session(c)
<1>1. /\ pc[c] = "entering" /\ s \in Sessions /\ s \in created /\ call[c] \in Call
      /\ pc' = [pc EXCEPT ![c] = "idle"]
      /\ UNCHANGED <<created, outlived, slotVars, shown, requests>>
    BY DEF LookupFails, Goto, IInv, Local, Typing
<1>2. PICK reply \in {"expired", "missing"} : call' = [call EXCEPT ![c].answer = reply]
    BY DEF LookupFails, Answer
<1>3. /\ call' \in [Clients -> Call] /\ pc'[c] = "idle" /\ Alone(c)
      /\ call'[c].answer = reply /\ call'[c].session = call[c].session
    BY <1>1, <1>2 DEF IInv, Typing, Alone, Call, Answers
<1>4. /\ entries' \in Seq(Sessions) /\ IsInjective(entries') /\ Len(entries') <= MaxEntries
      /\ Stored' \subseteq Stored /\ tombstones' \subseteq created
      /\ \A t \in Stored : inUse[t] # 0 => t \in Stored'
    <2>1. CASE UNCHANGED <<entries, tombstones>>
        BY <2>1 DEF IInv, Typing, Stored
    <2>2. CASE /\ inUse[s] = 0 /\ entries' = RemoveFirst(entries, s)
               /\ tombstones' = tombstones \cup {s}
        <3>1. /\ entries' \in Seq(Sessions) /\ IsInjective(entries')
              /\ ToSet(entries') = Stored \ {s} /\ Len(entries') <= Len(entries)
              /\ Len(entries') \in Nat
            BY <1>1, <2>2, StoredOrder, RemoveFirstProperties, LenProperties DEF Stored
        <3> QED  BY <1>1, <2>2, <3>1, StoredOrder DEF IInv, Typing, Stored
    <2> QED  BY <2>1, <2>2 DEF LookupFails
<1>5. Typing'
    BY <1>1, <1>3, <1>4 DEF IInv, Typing, slotVars, Labels
<1>6. Local(c)'
    BY <1>1, <1>3 DEF IInv, Local, Accepted, Session, slotVars
<1>7. FreshIds' /\ UpdatesNotLost'
    BY <1>3, FreshKept, UpdatesKept DEF Accepted
<1>8. Respects(c)
    <2>1. \A t \in created : intent[t] \in Nat
        BY DEF IInv, Typing
    <2> QED  BY <1>1, <2>1 DEF Respects, IInv, Local, slotVars
<1>9. Stored' \subseteq created'
    BY <1>1, <1>4 DEF IInv
<1>10. BusySessionsStay'
    BY <1>3, <1>4, BusyKept DEF Busy
<1>11. Counts'
    BY <1>1, <1>3, CountsKept DEF Busy, slotVars
<1> QED  BY <1>3, <1>5, <1>6, <1>7, <1>8, <1>9, <1>10, <1>11, StepClosed

\* put() keeps the invariant, its expiries and evictions included.
LEMMA PutStep ==
    ASSUME IInv, NEW c \in Clients, Put(c)
    PROVE  IInv'
<1> DEFINE s == Session(c)
           idle == {i \in DOMAIN entries : inUse[entries[i]] = 0}
           victim == CHOOSE i \in idle : \A j \in idle : i <= j
           full == Len(entries) >= MaxEntries
<1>1. /\ pc[c] = "putting" /\ s \in Sessions /\ s \notin created /\ call[c] \in Call
      /\ call[c].answer = "none" /\ pc' = [pc EXCEPT ![c] = "idle"]
      /\ UNCHANGED <<tombstones, outlived, depth, inUse, lockedBy, requests>>
    BY DEF Put, Goto, IInv, Local, Typing
<1>2. CASE Answer(c, "busy") /\ UNCHANGED <<entries, created, intent, shown>>
    <2>1. /\ call' \in [Clients -> Call] /\ pc'[c] = "idle" /\ Alone(c)
          /\ call'[c].answer = "busy" /\ call'[c].session = call[c].session
        BY <1>1, <1>2 DEF IInv, Typing, Alone, Call, Answers, Answer
    <2>2. Typing'
        BY <1>1, <1>2, <2>1 DEF IInv, Typing, Labels
    <2>3. Local(c)'
        BY <1>1, <1>2, <2>1 DEF IInv, Local, Accepted, Session
    <2>4. FreshIds' /\ UpdatesNotLost'
        BY <2>1, FreshKept, UpdatesKept DEF Accepted
    <2> QED  BY <1>1, <1>2, <2>1, <2>2, <2>3, <2>4, QuietStep DEF Busy
<1>3. CASE /\ full => idle # {}
           /\ entries' = Append(IF full THEN RemoveFirst(entries, entries[victim]) ELSE entries, s)
           /\ created' = created \cup {s} /\ intent' = [intent EXCEPT ![s] = 1]
           /\ Show(c, ViewOf(s, 1, 0))
    <2>1. \E rest \in Seq(Sessions) :
              /\ entries' = Append(rest, s) /\ IsInjective(rest) /\ Len(rest) < MaxEntries
              /\ ToSet(rest) \subseteq Stored /\ \A t \in Stored : inUse[t] # 0 => t \in ToSet(rest)
        <3>1. CASE full
            <4>1. idle \subseteq Nat /\ idle # {} /\ DOMAIN entries = 1..Len(entries)
                BY <1>3, <3>1, StoredOrder
            <4>2. \E i \in idle : \A j \in idle : i <= j
                <5> HIDE DEF idle
                <5> QED  BY <4>1, LeastNatural
            <4>3. victim \in idle
                <5> HIDE DEF idle
                <5> QED  BY <4>2
            <4>4. entries[victim] \in Stored /\ inUse[entries[victim]] = 0
                BY <4>3 DEF Stored, ToSet
            <4> HIDE DEF victim, idle
            <4> DEFINE rest == RemoveFirst(entries, entries[victim])
            <4>5. /\ rest \in Seq(Sessions) /\ IsInjective(rest)
                  /\ ToSet(rest) = Stored \ {entries[victim]} /\ Len(rest) = Len(entries) - 1
                BY <4>4, StoredOrder, RemoveFirstProperties DEF Stored
            <4>6. entries' = Append(rest, s)
                BY <1>3, <3>1
            <4> HIDE DEF rest
            <4>7. Len(rest) < MaxEntries
                BY <4>5, StoredOrder
            <4> QED  BY <4>4, <4>5, <4>6, <4>7
        <3>2. CASE ~full
            BY <1>3, <3>2, StoredOrder DEF Stored
        <3> QED  BY <3>1, <3>2
    <2>2. PICK rest \in Seq(Sessions) :
              /\ entries' = Append(rest, s) /\ IsInjective(rest) /\ Len(rest) < MaxEntries
              /\ ToSet(rest) \subseteq Stored /\ \A t \in Stored : inUse[t] # 0 => t \in ToSet(rest)
        BY <2>1
    <2>3. /\ entries' \in Seq(Sessions) /\ IsInjective(entries') /\ Stored' = ToSet(rest) \cup {s}
          /\ Len(entries') <= MaxEntries
        <3>1. s \notin ToSet(rest)
            BY <1>1, <2>2 DEF IInv
        <3>2. /\ Append(rest, s) \in Seq(Sessions) /\ IsInjective(Append(rest, s))
              /\ ToSet(Append(rest, s)) = ToSet(rest) \cup {s}
              /\ Len(Append(rest, s)) = Len(rest) + 1
            BY <1>1, <2>2, <3>1, AppendFresh
        <3>3. Len(rest) \in Nat /\ MaxEntries \in Nat
            BY <2>2, LenProperties, HypothesisAssumption
        <3> QED  BY <2>2, <3>2, <3>3 DEF Stored
    <2> DEFINE view == ViewOf(s, 1, 0)
    <2>4. view \in View /\ view.session = s
        BY <1>1 DEF ViewOf, View
    <2>5. Show(c, view)
        BY <1>3
    <2> HIDE DEF view
    <2>6. /\ call' \in [Clients -> Call] /\ shown' \in [Clients -> View \cup {None}]
          /\ call'[c].kind = call[c].kind /\ call'[c].session = s /\ shown'[c] = view
          /\ \A d \in Clients \ {c} : call'[d] = call[d] /\ shown'[d] = shown[d]
        BY <2>4, <2>5, ShowStep DEF IInv, Session
    <2>7. pc'[c] = "idle" /\ Alone(c)
        BY <1>1, <2>6 DEF IInv, Typing, Alone
    <2>8. Typing'
        BY <1>1, <1>3, <2>3, <2>6 DEF IInv, Typing, Labels
    <2>9. Local(c)'
        BY <1>1, <1>3, <2>4, <2>6, <2>7 DEF IInv, Local, Accepted, Session
    <2>10. FreshIds'
        BY <2>6, <2>7, FreshKept DEF Session
    <2>11. UpdatesNotLost'
        BY <1>1, <2>6, <2>7, UpdatesKept DEF IInv, Local, Accepted
    <2>12. Respects(c)
        <3>1. \A t \in created : t # s /\ intent[t] \in Nat /\ intent'[t] = intent[t]
            BY <1>1, <1>3 DEF IInv, Typing
        <3>2. \A d \in Clients \ {c} : Session(d) # s
            BY <1>1 DEF IInv, FreshIds
        <3> QED  BY <1>1, <1>3, <3>1, <3>2 DEF Respects, IInv, Local
    <2>13. Stored' \subseteq created'
        BY <1>3, <2>2, <2>3 DEF IInv
    <2>14. BusySessionsStay'
        BY <2>2, <2>3, <2>7, BusyKept DEF Busy
    <2>15. Counts'
        BY <1>1, <2>7, CountsKept DEF Busy
    <2> QED  BY <2>7, <2>8, <2>9, <2>10, <2>11, <2>12, <2>13, <2>14, <2>15, StepClosed
<1> QED  BY <1>2, <1>3 DEF Put

-----------------------------------------------------------------------------
(* The invariant of the store.                                             *)

\* Whatever a call does next keeps the invariant.
LEMMA ProceedStep ==
    ASSUME IInv, NEW c \in Clients, Proceed(c)
    PROVE  IInv'
<1>1. CASE Put(c) \/ LookupFails(c) \/ Enter(c) \/ Leave(c)
    BY <1>1, PutStep, LookupFailsStep, EnterStep, LeaveStep
<1>2. CASE Acquire(c)
    BY <1>2, AcquireStep
<1>3. CASE Get(c) \/ Refuse(c) \/ Preview(c)
    BY <1>3, ReadStep
<1>4. CASE WriteHistory(c) \/ WriteIntent(c)
    BY <1>4, WriteHistoryStep, WriteIntentStep
<1>5. CASE ViewRevision(c) \/ ViewHistory(c)
    BY <1>5, ViewStep
<1> QED  BY <1>1, <1>2, <1>3, <1>4, <1>5 DEF Proceed

\* Nothing happening keeps the invariant.
LEMMA StutterStep ==
    ASSUME IInv, UNCHANGED vars
    PROVE  IInv'
<1>1. UNCHANGED <<entries, tombstones, created, outlived, intent, depth, inUse, lockedBy,
                  pc, call, shown, requests>>
    BY DEF vars, storeVars, slotVars
<1>2. Typing' /\ \A c \in Clients : Local(c)'
    BY <1>1 DEF IInv, Typing, Local, Session, Accepted
<1> QED  BY <1>1, <1>2 DEF IInv, Counts, Using, FreshIds, BusySessionsStay, UpdatesNotLost,
                           Accepted, Session, Stored

\* The invariant is inductive.
LEMMA StepInv == IInv /\ [Next]_vars => IInv'
<1> SUFFICES ASSUME IInv, [Next]_vars PROVE IInv'
    OBVIOUS
<1>1. CASE \E s \in Sessions : Age(s)
    BY <1>1, AgeStep
<1>2. CASE \/ \E c \in Clients, s \in Sessions : BeginOpen(c, s) \/ BeginGet(c, s)
           \/ \E c \in Clients, kind \in Kinds : BeginMutation(c, kind)
    BY <1>2, BeginsStep
<1>3. CASE \E c \in Clients : Proceed(c)
    BY <1>3, ProceedStep
<1>4. CASE UNCHANGED vars
    BY <1>4, StutterStep
<1> QED  BY <1>1, <1>2, <1>3, <1>4 DEF Next

\* No slot has more users than there are clients.
LEMMA InvTypes == IInv => TypeOK
<1> SUFFICES ASSUME IInv PROVE TypeOK
    OBVIOUS
<1>1. inUse \in [Sessions -> 0..Cardinality(Clients)]
    <2>1. ASSUME NEW s \in Sessions PROVE inUse[s] \in 0..Cardinality(Clients)
        <3>1. Using(s) \subseteq Clients
            BY DEF Using
        <3>2. Cardinality(Using(s)) <= Cardinality(Clients)
            BY <3>1, FS_Subset, HypothesisAssumption
        <3>3. Cardinality(Using(s)) \in Nat /\ Cardinality(Clients) \in Nat
            BY UsingFinite, FS_CardinalityType, HypothesisAssumption
        <3>4. inUse[s] = Cardinality(Using(s))
            BY DEF IInv, Counts
        <3> QED  BY <3>2, <3>3, <3>4
    <2> QED  BY <2>1 DEF IInv, Typing
<1> QED  BY <1>1 DEF IInv, Typing, TypeOK, Call

\* The strengthened invariant: what each call knows, and the counts of the slots.
THEOREM InvHolds == Spec => []IInv
BY InitInv, StepInv, PTL DEF Spec

\* Every variable keeps its type; in_use never passes the number of clients.
THEOREM TypeCorrect == Spec => []TypeOK
BY InvHolds, InvTypes, PTL

\* A session that a call waits for or changes is neither evicted nor expired.
THEOREM BusyStays == Spec => []BusySessionsStay
<1>1. IInv => BusySessionsStay
    BY DEF IInv
<1> QED  BY <1>1, InvHolds, PTL

\* Of two mutations of the same revision one is refused, for any number of clients.
THEOREM UpdatesAreNotLost == Spec => []UpdatesNotLost
<1>1. IInv => UpdatesNotLost
    BY DEF IInv
<1> QED  BY <1>1, InvHolds, PTL

-----------------------------------------------------------------------------
(* Refinement.  A call takes effect when it is answered: when it is put,   *)
(* fails its lookup, is refused, previews, writes the intent or has read   *)
(* its view.  Its other steps are invisible.                               *)

Request(kind, s, expected) ==
    IF s = None THEN None
    ELSE [writes |-> kind \in {"open", "commit", "undo"}, session |-> s, expected |-> expected]
Requested == [c \in Clients |-> Request(call[c].kind, call[c].session, call[c].expected)]

Told(reply) == IF reply = "cannot_undo" THEN "refused" ELSE reply
Answered == [c \in Clients |-> Told(call[c].answer)]

\* Only mutations name a revision; a get is answered by its last step; opening is one
\* step; the intent of a session that nobody opened is at its start.
Expecting(c) ==
    /\ call[c].kind \in {"open", "get"} => call[c].expected = None
    /\ call[c].kind \notin {"open", "get"} => call[c].expected \in Nat
    /\ pc[c] # "idle" /\ call[c].kind = "get" => call[c].answer = "none"
    /\ pc[c] \notin {"idle", "putting"} => call[c].kind # "open"
Unopened == \A s \in Sessions \ created : intent[s] = 0
Expectations == Unopened /\ \A c \in Clients : Expecting(c)

\* The step of a call changes its answer and its view only.
LEMMA SameRequest ==
    ASSUME IInv, NEW c \in Clients, NEW r \in Call, call' = [call EXCEPT ![c] = r],
           r.kind = call[c].kind, r.session = call[c].session, r.expected = call[c].expected
    PROVE  /\ Requested' = Requested
           /\ Answered' = [Answered EXCEPT ![c] = Told(r.answer)]
<1>1. call \in [Clients -> Call]
    BY DEF IInv, Typing
<1>2. \A d \in Clients : call'[d] = IF d = c THEN r ELSE call[d]
    BY <1>1
<1>3. \A d \in Clients : /\ call'[d].kind = call[d].kind /\ call'[d].session = call[d].session
                         /\ call'[d].expected = call[d].expected
    BY <1>2
<1>4. Requested' = Requested
    BY <1>3 DEF Requested
<1>5. Answered' = [Answered EXCEPT ![c] = Told(r.answer)]
    <2>1. \A d \in Clients : Told(call'[d].answer) =
                              IF d = c THEN Told(r.answer) ELSE Told(call[d].answer)
        BY <1>2
    <2>2. Answered' = [d \in Clients |-> Told(call'[d].answer)]
        BY DEF Answered, Told
    <2> QED  BY <2>1, <2>2 DEF Answered
<1> QED  BY <1>4, <1>5

\* What a call asks of the register.
LEMMA RequestOf ==
    ASSUME IInv, NEW c \in Clients, pc[c] # "idle"
    PROVE  /\ Requested[c] = [writes   |-> call[c].kind \in {"open", "commit", "undo"},
                              session  |-> call[c].session,
                              expected |-> call[c].expected]
           /\ Requested[c] \in Register!Requests
<1>1. /\ call[c].session \in Sessions /\ call[c].session # None
      /\ call[c].expected \in Nat \cup {None}
    BY HypothesisNoneAssumption DEF IInv, Local, Session, Typing, Call
<1> QED  BY <1>1 DEF Requested, Request, Register!Requests

\* A request that arrives.
LEMMA BeginInvokes ==
    ASSUME IInv, NEW c \in Clients, NEW kind \in Kinds, NEW s \in Sessions,
           NEW expected \in Nat \cup {None}, NEW label \in {"putting", "entering"},
           Begin(c, kind, s, expected, label)
    PROVE  /\ Register!Invoke(c)
           /\ call'[c].kind = kind /\ call'[c].expected = expected /\ call'[c].answer = "none"
           /\ \A d \in Clients \ {c} : call'[d] = call[d] /\ pc'[d] = pc[d]
           /\ UNCHANGED <<intent, created>>
<1> DEFINE r == [NoCall EXCEPT !.kind = kind, !.session = s, !.expected = expected,
                               !.late = s \in outlived]
<1>1. r.kind = kind /\ r.session = s /\ r.expected = expected /\ r.answer = "none"
    BY DEF NoCall
<1> HIDE DEF r
<1>2. /\ call' = [call EXCEPT ![c] = r] /\ pc' = [pc EXCEPT ![c] = label]
      /\ UNCHANGED <<intent, created>>
    BY DEF Begin, Goto, storeVars, slotVars, r
<1>3. call \in [Clients -> Call] /\ pc \in [Clients -> Labels]
    BY DEF IInv, Typing
<1>4. \A d \in Clients : call'[d] = IF d = c THEN r ELSE call[d]
    BY <1>2, <1>3
<1>5. Requested'[c] = [writes |-> kind \in {"open", "commit", "undo"}, session |-> s,
                       expected |-> expected]
    BY <1>1, <1>4, HypothesisNoneAssumption DEF Requested, Request
<1>6. Requested'[c] \in Register!Requests
    BY <1>5 DEF Register!Requests
<1>7. Requested' = [Requested EXCEPT ![c] = Requested'[c]]
    BY <1>4 DEF Requested
<1>8. Answered' = [Answered EXCEPT ![c] = "none"]
    BY <1>1, <1>4 DEF Answered, Told
<1>9. Register!Invoke(c)
    BY <1>2, <1>6, <1>7, <1>8 DEF Register!Invoke, Requested, Request, Answered, Told
<1> QED  BY <1>1, <1>2, <1>3, <1>4, <1>9

\* One that names no revision.
LEMMA ReadInvokes ==
    ASSUME IInv, NEW c \in Clients, NEW s \in Sessions, BeginOpen(c, s) \/ BeginGet(c, s)
    PROVE  /\ Register!Invoke(c)
           /\ call'[c].kind \in {"open", "get"} /\ call'[c].expected = None
           /\ call'[c].answer = "none" /\ (call'[c].kind = "open" => pc'[c] = "putting")
           /\ \A d \in Clients \ {c} : call'[d] = call[d] /\ pc'[d] = pc[d]
           /\ UNCHANGED <<intent, created>>
<1>1. None \in Nat \cup {None} /\ "open" \in Kinds /\ "get" \in Kinds
    BY DEF Kinds
<1>2. CASE BeginOpen(c, s)
    <2>1. Begin(c, "open", s, None, "putting")
        BY <1>2 DEF BeginOpen
    <2>2. pc'[c] = "putting"
        BY <2>1 DEF Begin, Goto, IInv, Typing
    <2> QED  BY <1>1, <2>1, <2>2, BeginInvokes
<1>3. CASE BeginGet(c, s)
    <2>1. Begin(c, "get", s, None, "entering")
        BY <1>3 DEF BeginGet
    <2> QED  BY <1>1, <2>1, BeginInvokes
<1> QED  BY <1>2, <1>3

\* A call that takes effect as it is answered, and one that is answered only.
LEMMA AcceptIs ==
    ASSUME IInv, NEW c \in Clients, pc[c] # "idle", call[c].answer = "none",
           call[c].expected \in {None, intent[Session(c)]},
           intent' = IF call[c].kind \in {"open", "commit", "undo"}
                     THEN [intent EXCEPT ![Session(c)] = @ + 1] ELSE intent,
           Requested' = Requested, Answered' = [Answered EXCEPT ![c] = "ok"]
    PROVE  Register!Accept(c)
<1> DEFINE r == Requested[c]
<1>1. r = [writes |-> call[c].kind \in {"open", "commit", "undo"}, session |-> call[c].session,
           expected |-> call[c].expected]
    BY RequestOf, Zenon
<1>2. r \in Register!Requests /\ Answered[c] = "none"
    BY RequestOf DEF Answered, Told
<1> HIDE DEF r
<1>3. r.session = Session(c) /\ r.expected = call[c].expected
    BY <1>1 DEF Session
<1>4. r.writes = (call[c].kind \in {"open", "commit", "undo"})
    BY <1>1, Zenon
<1>5. r.expected \in {None, intent[r.session]}
    BY <1>3
<1>6. intent' = IF r.writes THEN [intent EXCEPT ![r.session] = @ + 1] ELSE intent
    BY <1>3, <1>4, Zenon
<1> QED  BY <1>2, <1>5, <1>6 DEF Register!Accept, r, Requested, Request, Answered, Told

\* Answering a stale request with a conflict is a conflict of the register.
LEMMA ConflictIs ==
    ASSUME IInv, NEW c \in Clients, pc[c] # "idle", call[c].answer = "none",
           call[c].expected \notin {None, intent[Session(c)]}, intent' = intent,
           Requested' = Requested, Answered' = [Answered EXCEPT ![c] = "conflict"]
    PROVE  Register!Conflict(c)
<1>1. PICK r : /\ r = Requested[c]
               /\ r = [writes |-> call[c].kind \in {"open", "commit", "undo"},
                       session |-> call[c].session, expected |-> call[c].expected]
    BY RequestOf, Zenon
<1>3. r.session = Session(c) /\ r.expected = call[c].expected
    BY <1>1 DEF Session
<1>2. Requested[c] \in Register!Requests /\ Answered[c] = "none"
    BY RequestOf DEF Answered, Told
<1> QED  BY <1>1, <1>2, <1>3 DEF Register!Conflict, Requested, Request, Answered, Told

\* Refusing a request is a refusal of the register.
LEMMA RefuseIs ==
    ASSUME IInv, NEW c \in Clients, call[c].answer = "none",
           NEW reason \in {"expired", "missing", "busy", "refused"}, intent' = intent,
           Requested' = Requested, Answered' = [Answered EXCEPT ![c] = reason]
    PROVE  Register!Refuse(c)
<1>1. Answered[c] = "none"
    BY DEF Answered, Told
<1> QED  BY <1>1 DEF Register!Refuse, Requested, Request, Answered, Told

\* The register does not see what changes neither revisions, requests nor answers.
LEMMA InvisibleIs ==
    ASSUME intent' = intent, Requested' = Requested, Answered' = Answered
    PROVE  UNCHANGED Register!registerVars
BY DEF Register!registerVars, Requested, Request, Answered, Told

\* What a step of a client leaves of its call.
LEMMA ProceedCall ==
    ASSUME IInv, NEW c \in Clients, Proceed(c)
    PROVE  /\ pc[c] # "idle"
           /\ \A d \in Clients \ {c} : call'[d] = call[d] /\ pc'[d] = pc[d]
           /\ call'[c].kind = call[c].kind /\ call'[c].expected = call[c].expected
           /\ pc'[c] # "idle" /\ call[c].kind = "get" => call'[c].answer = call[c].answer
           /\ pc[c] = "putting" => pc'[c] = "idle"
<1>1. call \in [Clients -> Call] /\ pc \in [Clients -> Labels]
    BY DEF IInv, Typing
<1>2. CASE Put(c)
    BY <1>1, <1>2 DEF Put, Answer, Show, Goto, Call
<1>3. CASE LookupFails(c)
    BY <1>1, <1>3 DEF LookupFails, Answer, Goto, Call
<1>4. CASE Enter(c) \/ Acquire(c)
    BY <1>1, <1>4 DEF Enter, Acquire, Goto
<1>5. CASE Leave(c)
    BY <1>1, <1>5 DEF Leave, Goto, Call
<1>6. CASE Get(c)
    BY <1>1, <1>6 DEF Get, Unlock, Goto
<1>7. CASE Refuse(c)
    BY <1>1, <1>7 DEF Refuse, Unlock, Answer, Goto, Call
<1>8. CASE Preview(c)
    BY <1>1, <1>8 DEF Preview, Unlock, Answer, Goto, Call
<1>9. CASE WriteHistory(c)
    BY <1>1, <1>9 DEF WriteHistory, Goto
<1>10. CASE WriteIntent(c)
    <2>1. pc[c] = "writing" /\ call[c].kind \in {"commit", "undo"}
        BY <1>10 DEF WriteIntent, IInv, Local
    <2> QED  BY <1>1, <1>10, <2>1 DEF WriteIntent, Unlock, Show, Goto, Call
<1>11. CASE ViewRevision(c)
    BY <1>1, <1>11 DEF ViewRevision, Goto, Call
<1>12. CASE ViewHistory(c)
    BY <1>1, <1>12 DEF ViewHistory, Show, Goto, Call
<1> QED  BY <1>2, <1>3, <1>4, <1>5, <1>6, <1>7, <1>8, <1>9, <1>10, <1>11, <1>12 DEF Proceed

\* Intents change only in sessions that were created before the step or are by it.
LEMMA UnopenedKept ==
    ASSUME IInv, Unopened, NEW c \in Clients, Proceed(c)
    PROVE  Unopened'
<1>1. /\ intent \in [Sessions -> Nat] /\ created \subseteq Sessions
      /\ pc[c] # "idle" => Session(c) \in Sessions
      /\ pc[c] \notin {"idle", "putting"} => Session(c) \in created
    BY DEF IInv, Typing, Local
<1>2. CASE Put(c)
    BY <1>1, <1>2 DEF Put, Unopened
<1>3. CASE WriteIntent(c)
    BY <1>1, <1>3 DEF WriteIntent, Unopened, storeVars
<1>4. CASE ~Put(c) /\ ~WriteIntent(c)
    <2>1. UNCHANGED <<created, intent>>
        BY <1>4 DEF Proceed, LookupFails, Enter, Acquire, Leave, Get, Refuse, Preview,
                    WriteHistory, ViewRevision, ViewHistory, storeVars, slotVars
    <2> QED  BY <2>1 DEF Unopened
<1> QED  BY <1>2, <1>3, <1>4

\* What calls expect stays as the register assumes.
LEMMA ExpectationsStep ==
    ASSUME IInv, Expectations, [Next]_vars
    PROVE  Expectations'
<1>1. CASE (\E s \in Sessions : Age(s)) \/ UNCHANGED vars
    <2>1. UNCHANGED <<created, intent, pc, call>>
        BY <1>1 DEF Age, vars, storeVars, slotVars
    <2> QED  BY <2>1 DEF Expectations, Expecting, Unopened
<1>2. ASSUME NEW c \in Clients, NEW s \in Sessions, BeginOpen(c, s) \/ BeginGet(c, s)
      PROVE  Expectations'
    <2>1. /\ call'[c].kind \in {"open", "get"} /\ call'[c].expected = None
          /\ call'[c].answer = "none" /\ (call'[c].kind = "open" => pc'[c] = "putting")
          /\ \A d \in Clients \ {c} : call'[d] = call[d] /\ pc'[d] = pc[d]
          /\ UNCHANGED <<intent, created>>
        BY <1>2, ReadInvokes
    <2> QED  BY <2>1 DEF Expectations, Expecting, Unopened
<1>3. ASSUME NEW c \in Clients, NEW kind \in Kinds, BeginMutation(c, kind)
      PROVE  Expectations'
    <2>1. /\ kind \in {"preview", "commit", "undo"}
          /\ shown[c].session \in Sessions /\ shown[c].revision \in Nat
          /\ Begin(c, kind, shown[c].session, shown[c].revision, "entering")
        BY <1>3 DEF BeginMutation, IInv, Typing, View
    <2>2. /\ call'[c].kind = kind /\ call'[c].expected = shown[c].revision
          /\ \A d \in Clients \ {c} : call'[d] = call[d] /\ pc'[d] = pc[d]
          /\ UNCHANGED <<intent, created>>
        BY <2>1, BeginInvokes
    <2> QED  BY <2>1, <2>2 DEF Expectations, Expecting, Unopened
<1>4. ASSUME NEW c \in Clients, Proceed(c)
      PROVE  Expectations'
    <2>1. \A d \in Clients : Expecting(d)'
        BY <1>4, ProceedCall DEF Expectations, Expecting
    <2> QED  BY <1>4, <2>1, UnopenedKept DEF Expectations
<1> QED  BY <1>1, <1>2, <1>3, <1>4 DEF Next

\* Whatever a call does next is a step of the register or invisible to it.
LEMMA ProceedIsRegister ==
    ASSUME IInv, Expectations, NEW c \in Clients, Proceed(c)
    PROVE  \/ Register!Accept(c) \/ Register!Conflict(c) \/ Register!Refuse(c)
           \/ UNCHANGED Register!registerVars
<1>1. /\ pc[c] # "idle" /\ Session(c) \in Sessions /\ call[c] \in Call /\ Local(c)
      /\ call \in [Clients -> Call] /\ intent \in [Sessions -> Nat] /\ Expecting(c)
    BY ProceedCall DEF IInv, Typing, Local, Expectations
\* An answer alone, and an answer with its view.
<1>2. ASSUME NEW reply \in Answers, Answer(c, reply)
      PROVE  Requested' = Requested /\ Answered' = [Answered EXCEPT ![c] = Told(reply)]
    <2> DEFINE r == [call[c] EXCEPT !.answer = reply]
    <2>1. /\ r \in Call /\ r.kind = call[c].kind /\ r.session = call[c].session
          /\ r.expected = call[c].expected /\ r.answer = reply
        BY <1>1 DEF Call
    <2>2. call' = [call EXCEPT ![c] = r]
        BY <1>2 DEF Answer
    <2> HIDE DEF r
    <2> QED  BY <2>1, <2>2, SameRequest
<1>3. ASSUME NEW view \in View, Show(c, view)
      PROVE  Requested' = Requested /\ Answered' = [Answered EXCEPT ![c] = "ok"]
    <2> DEFINE r == [call[c] EXCEPT !.answer = "ok", !.view = view]
    <2>1. /\ r \in Call /\ r.kind = call[c].kind /\ r.session = call[c].session
          /\ r.expected = call[c].expected /\ r.answer = "ok"
        BY <1>1 DEF Call, Answers
    <2>2. call' = [call EXCEPT ![c] = r]
        BY <1>3 DEF Show
    <2> HIDE DEF r
    <2>3. Told("ok") = "ok"
        BY DEF Told
    <2> QED  BY <2>1, <2>2, <2>3, SameRequest
<1>4. Told("ok") = "ok" /\ Told("conflict") = "conflict" /\ Told("refused") = "refused"
      /\ Told("cannot_undo") = "refused" /\ Told("expired") = "expired"
      /\ Told("missing") = "missing" /\ Told("busy") = "busy"
    BY DEF Told
<1>5. {"ok", "conflict", "refused", "cannot_undo", "expired", "missing", "busy"} \subseteq Answers
    BY DEF Answers
<1>6. CASE Put(c)
    <2>1. pc[c] = "putting" /\ call[c].kind = "open" /\ call[c].answer = "none"
          /\ call[c].expected = None /\ Session(c) \notin created
        BY <1>1, <1>6 DEF Put, Local, Expecting
    <2>2. CASE Answer(c, "busy") /\ UNCHANGED intent
        BY <1>2, <1>4, <1>5, <2>1, <2>2, RefuseIs
    <2>3. CASE intent' = [intent EXCEPT ![Session(c)] = 1] /\ Show(c, ViewOf(Session(c), 1, 0))
        <3>1. ViewOf(Session(c), 1, 0) \in View
            BY <1>1 DEF ViewOf, View
        <3>2. intent[Session(c)] = 0
            BY <1>1, <2>1 DEF Expectations, Unopened
        <3>3. intent' = [intent EXCEPT ![Session(c)] = @ + 1]
            BY <2>3, <3>2
        <3> QED  BY <1>1, <1>3, <2>1, <2>3, <3>1, <3>3, AcceptIs
    <2> QED  BY <1>6, <2>2, <2>3 DEF Put
<1>7. CASE LookupFails(c)
    <2>1. pc[c] = "entering" /\ intent' = intent /\ call[c].answer = "none"
        BY <1>1, <1>7 DEF LookupFails, slotVars, Local
    <2>2. CASE Answer(c, "expired")
        BY <1>2, <1>4, <1>5, <2>1, <2>2, RefuseIs
    <2>3. CASE Answer(c, "missing")
        BY <1>2, <1>4, <1>5, <2>1, <2>3, RefuseIs
    <2> QED  BY <1>7, <2>2, <2>3 DEF LookupFails
<1>8. CASE Enter(c) \/ Acquire(c) \/ Get(c) \/ WriteHistory(c)
    <2>1. intent' = intent /\ call' = call
        BY <1>8 DEF Enter, Acquire, Get, WriteHistory
    <2> QED  BY <2>1, InvisibleIs DEF Requested, Answered, Request, Told
<1>9. ASSUME intent' = intent, NEW view \in View, call' = [call EXCEPT ![c].view = view]
      PROVE  UNCHANGED Register!registerVars
    <2> DEFINE r == [call[c] EXCEPT !.view = view]
    <2>1. /\ r \in Call /\ r.kind = call[c].kind /\ r.session = call[c].session
          /\ r.expected = call[c].expected /\ r.answer = call[c].answer
        BY <1>1 DEF Call
    <2>2. call' = [call EXCEPT ![c] = r]
        BY <1>9
    <2> HIDE DEF r
    <2>3. Requested' = Requested /\ Answered' = [Answered EXCEPT ![c] = Told(call[c].answer)]
        BY <2>1, <2>2, SameRequest
    <2>4. Answered' = Answered
        BY <2>3 DEF Answered
    <2> QED  BY <1>9, <2>3, <2>4, InvisibleIs
<1>10. CASE Leave(c)
    <2>1. intent' = intent
        BY <1>10 DEF Leave
    <2>2. CASE call' = [call EXCEPT ![c].view = ViewOf(Session(c), intent[Session(c)], 0)]
        <3>1. ViewOf(Session(c), intent[Session(c)], 0) \in View
            BY <1>1 DEF ViewOf, View
        <3> QED  BY <1>9, <2>1, <2>2, <3>1
    <2>3. CASE UNCHANGED call
        BY <2>1, <2>3, InvisibleIs DEF Requested, Answered, Request, Told
    <2> QED  BY <1>10, <2>2, <2>3 DEF Leave
<1>11. CASE ViewRevision(c)
    <2> DEFINE view == [call[c].view EXCEPT !.revision = intent[Session(c)]]
    <2>1. intent' = intent /\ call[c].view \in View
        BY <1>1, <1>11 DEF ViewRevision, slotVars, Local
    <2>2. view \in View
        BY <1>1, <2>1 DEF View
    <2>3. call' = [call EXCEPT ![c].view = view]
        BY <1>11 DEF ViewRevision
    <2> HIDE DEF view
    <2> QED  BY <1>9, <2>1, <2>2, <2>3
<1>12. CASE ViewHistory(c)
    <2> DEFINE view == [call[c].view EXCEPT !.canUndo = depth[Session(c)] > 0]
    <2>1. /\ intent' = intent /\ call[c].view \in View /\ Show(c, view)
          /\ call[c].kind = "get" /\ call[c].answer = "none" /\ call[c].expected = None
        BY <1>1, <1>12 DEF ViewHistory, slotVars, Local, Expecting
    <2>2. view \in View
        <3>1. (depth[Session(c)] > 0) \in BOOLEAN
            OBVIOUS
        <3> QED  BY <2>1, <3>1 DEF View
    <2> HIDE DEF view
    <2> QED  BY <1>1, <1>3, <2>1, <2>2, AcceptIs
<1>13. CASE Refuse(c)
    <2>1. /\ pc[c] = "locked" /\ intent' = intent /\ call[c].answer = "none"
          /\ call[c].kind # "get"
        BY <1>1, <1>13 DEF Refuse, Local
    <2>2. CASE call[c].expected # intent[Session(c)] /\ Answer(c, "conflict")
        <3>1. call[c].expected # None
            BY <1>1, <2>1, HypothesisNoneAssumption DEF Expecting
        <3> QED  BY <1>1, <1>2, <1>4, <1>5, <2>1, <2>2, <3>1, ConflictIs
    <2>3. CASE Answer(c, "refused") \/ Answer(c, "cannot_undo")
        BY <1>2, <1>4, <1>5, <2>1, <2>3, RefuseIs
    <2> QED  BY <1>13, <2>2, <2>3 DEF Refuse
<1>14. CASE Preview(c)
    <2>1. /\ pc[c] = "locked" /\ intent' = intent /\ call[c].answer = "none"
          /\ call[c].kind = "preview" /\ call[c].expected = intent[Session(c)] /\ Answer(c, "ok")
        BY <1>1, <1>14 DEF Preview, Local
    <2> QED  BY <1>1, <1>2, <1>4, <1>5, <2>1, AcceptIs
<1>15. CASE WriteIntent(c)
    <2>1. /\ pc[c] = "writing" /\ call[c].answer = "none"
          /\ call[c].kind \in {"commit", "undo"} /\ call[c].expected = intent[Session(c)]
          /\ intent' = [intent EXCEPT ![Session(c)] = @ + 1]
          /\ Show(c, ViewOf(Session(c), intent[Session(c)] + 1, depth[Session(c)]))
        BY <1>1, <1>15 DEF WriteIntent, Local
    <2>2. ViewOf(Session(c), intent[Session(c)] + 1, depth[Session(c)]) \in View
        <3>1. intent[Session(c)] + 1 \in Nat /\ (depth[Session(c)] > 0) \in BOOLEAN
            BY <1>1
        <3> QED  BY <1>1, <3>1 DEF ViewOf, View
    <2> QED  BY <1>1, <1>3, <2>1, <2>2, AcceptIs
<1> QED  BY <1>6, <1>7, <1>8, <1>10, <1>11, <1>12, <1>13, <1>14, <1>15 DEF Proceed

\* Concurrent calls are answered as by an atomic register of revisions: whatever the
\* interleaving of lookups, locks and the two assignments of a commit, a mutation is
\* accepted at one moment, when the revision its client was shown is the current one.
THEOREM StoreIsRegister == Spec => RegisterSpec
<1>1. Init => Register!Init /\ Expectations
    BY DEF Init, Register!Init, Expectations, Expecting, Unopened, NoCall
<1>2. IInv /\ Expectations /\ [Next]_vars => Expectations'
    BY ExpectationsStep
<1>3. ASSUME IInv, Expectations, [Next]_vars
      PROVE  [Register!Next]_(Register!registerVars)
    <2>1. CASE (\E s \in Sessions : Age(s)) \/ UNCHANGED vars
        <3>1. intent' = intent /\ call' = call
            BY <2>1 DEF Age, vars, slotVars
        <3> QED  BY <3>1, InvisibleIs DEF Requested, Answered, Request, Told
    <2>2. ASSUME NEW c \in Clients, NEW s \in Sessions, BeginOpen(c, s) \/ BeginGet(c, s)
          PROVE  Register!Next
        BY <1>3, <2>2, ReadInvokes DEF Register!Next
    <2>3. ASSUME NEW c \in Clients, NEW kind \in Kinds, BeginMutation(c, kind)
          PROVE  Register!Next
        <3>1. /\ shown[c].session \in Sessions /\ shown[c].revision \in Nat
              /\ Begin(c, kind, shown[c].session, shown[c].revision, "entering")
            BY <1>3, <2>3 DEF BeginMutation, IInv, Typing, View
        <3> QED  BY <1>3, <3>1, BeginInvokes DEF Register!Next
    <2>4. ASSUME NEW c \in Clients, Proceed(c)
          PROVE  [Register!Next]_(Register!registerVars)
        BY <1>3, <2>4, ProceedIsRegister DEF Register!Next
    <2> QED  BY <1>3, <2>1, <2>2, <2>3, <2>4 DEF Next
<1>4. IInv /\ Expectations /\ [Next]_vars => [Register!Next]_(Register!registerVars)
    BY <1>3
<1> QED  BY <1>1, <1>2, <1>4, InvHolds, PTL DEF Spec, RegisterSpec, Register!Spec
=============================================================================
