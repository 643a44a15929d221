-------------------------- MODULE SessionStoreProofs --------------------------
(***************************************************************************)
(* The invariants of the session store for any number of threads, sessions *)
(* and requests, any capacity and TTL, and the proof that it answers its   *)
(* concurrent callers like an atomic register of revisions.                *)
(***************************************************************************)
EXTENDS SessionStore, SequenceTheorems, FiniteSetTheorems, WellFoundedInduction, TLAPS

-----------------------------------------------------------------------------
(* The keys of the OrderedDict in their order: a sequence without          *)
(* repetition.                                                             *)

\* A set of natural numbers that is not empty has a least member.
LEMMA LeastNatural ==
    ASSUME NEW I, I \subseteq Nat, I # {}
    PROVE  \E x \in I : \A y \in I : x <= y
<1>1. PICK x \in I : \A y \in I : <<y, x>> \notin OpToRel(<, Nat)
    BY WFMin, NatLessThanWellFounded
<1>2. ASSUME NEW y \in I
      PROVE  x <= y
    <2>1. x \in Nat /\ y \in Nat
        OBVIOUS
    <2>2. y < x => <<y, x>> \in OpToRel(<, Nat)
        BY <2>1 DEF OpToRel
    <2>3. <<y, x>> \notin OpToRel(<, Nat)
        BY <1>1
    <2>4. ~(y < x)
        BY <2>2, <2>3
    <2> QED  BY <2>1, <2>4
<1> QED
    BY <1>2

\* Removing a key removes one of its places.
LEMMA RemoveFirstIndex ==
    ASSUME NEW S, NEW q \in Seq(S), NEW s, \E i \in 1..Len(q) : q[i] = s
    PROVE  \E i \in 1..Len(q) : q[i] = s /\ RemoveFirst(q, s) = RemoveAt(q, i)
<1> DEFINE I == {i \in 1..Len(q) : q[i] = s}
<1>1. I \subseteq Nat /\ I # {}
    OBVIOUS
<1>2. \E x \in I : \A y \in I : x <= y
    <2> HIDE DEF I
    <2> QED  BY <1>1, LeastNatural
<1>3. Min(I) \in I
    BY <1>2 DEF Min
<1>4. SelectInSeq(q, LAMBDA v : v = s) = Min(I)
    BY <1>1 DEF SelectInSeq
<1>5. RemoveFirst(q, s) = RemoveAt(q, Min(I))
    BY <1>4 DEF RemoveFirst
<1> QED
    BY <1>3, <1>5

\* Removing a place closes the gap and leaves the order.
LEMMA RemoveAtProperties ==
    ASSUME NEW S, NEW q \in Seq(S), NEW i \in 1..Len(q)
    PROVE  /\ RemoveAt(q, i) \in Seq(S)
           /\ Len(RemoveAt(q, i)) = Len(q) - 1
           /\ \A j \in 1..(Len(q) - 1) :
                  RemoveAt(q, i)[j] = IF j < i THEN q[j] ELSE q[j + 1]
<1> DEFINE n == Len(q)
           before == SubSeq(q, 1, i - 1)
           after == SubSeq(q, i + 1, n)
<1>1. n \in Nat /\ i \in Nat /\ \A j \in 1..n : q[j] \in S
    BY ElementOfSeq, LenProperties
<1>2. /\ before \in Seq(S) /\ Len(before) = i - 1
      /\ \A j \in 1..(i - 1) : before[j] = q[j]
    <2>1. \A j \in 1..(i - 1) : q[j] \in S
        BY <1>1
    <2>2. /\ before \in Seq(S)
          /\ Len(before) = IF 1 <= i - 1 THEN i - 1 - 1 + 1 ELSE 0
          /\ \A j \in 1..(i - 1 - 1 + 1) : before[j] = q[1 + j - 1]
        BY <2>1, SubSeqProperties
    <2>3. i - 1 - 1 + 1 = i - 1 /\ \A j \in 1..(i - 1) : 1 + j - 1 = j
        OBVIOUS
    <2> HIDE DEF before
    <2>4. \A j \in 1..(i - 1) : before[j] = q[j]
        BY <2>2, <2>3
    <2> QED  BY <2>2, <2>4
<1>3. /\ after \in Seq(S) /\ Len(after) = n - i
      /\ \A j \in 1..(n - i) : after[j] = q[j + i]
    <2>1. \A j \in (i + 1)..n : q[j] \in S
        BY <1>1
    <2>2. /\ after \in Seq(S)
          /\ Len(after) = IF i + 1 <= n THEN n - (i + 1) + 1 ELSE 0
          /\ \A j \in 1..(n - (i + 1) + 1) : after[j] = q[(i + 1) + j - 1]
        BY <1>1, <2>1, SubSeqProperties
    <2> HIDE DEF after, n
    <2>3. n - (i + 1) + 1 = n - i /\ \A j \in 1..(n - i) : (i + 1) + j - 1 = j + i
        BY <1>1
    <2>4. \A j \in 1..(n - i) : after[j] = q[j + i]
        BY <2>2, <2>3
    <2>5. i <= n
        BY DEF n
    <2> QED  BY <1>1, <2>2, <2>4, <2>5
<1>4. RemoveAt(q, i) = before \o after
    BY DEF RemoveAt
<1> HIDE DEF before, after, n
<1>5. /\ before \o after \in Seq(S) /\ Len(before \o after) = Len(before) + Len(after)
      /\ \A j \in 1..(Len(before) + Len(after)) :
             (before \o after)[j] = IF j <= Len(before) THEN before[j] ELSE after[j - Len(before)]
    BY <1>2, <1>3, ConcatProperties
<1>6. Len(before) + Len(after) = n - 1
    BY <1>1, <1>2, <1>3
<1>7. ASSUME NEW j \in 1..(n - 1)
      PROVE  (before \o after)[j] = IF j < i THEN q[j] ELSE q[j + 1]
    <2>1. (before \o after)[j] = IF j <= i - 1 THEN before[j] ELSE after[j - (i - 1)]
        BY <1>2, <1>5, <1>6
    <2>2. CASE j < i
        BY <1>1, <1>2, <2>1, <2>2
    <2>3. CASE j >= i
        <3>1. j - (i - 1) \in 1..(n - i) /\ (j - (i - 1)) + i = j + 1
            BY <1>1, <2>3
        <3>2. after[j - (i - 1)] = q[j + 1]
            BY <1>3, <3>1
        <3> QED  BY <2>1, <2>3, <3>2
    <2>4. j < i \/ j >= i
        BY <1>1
    <2> QED  BY <2>2, <2>3, <2>4
<1> QED
    BY <1>4, <1>5, <1>6, <1>7 DEF n

\* Removing a key removes that key only.
LEMMA RemoveFirstProperties ==
    ASSUME NEW S, NEW q \in Seq(S), IsInjective(q), NEW s
    PROVE  /\ RemoveFirst(q, s) \in Seq(S)
           /\ IsInjective(RemoveFirst(q, s))
           /\ ToSet(RemoveFirst(q, s)) = ToSet(q) \ {s}
           /\ Len(RemoveFirst(q, s)) <= Len(q)
           /\ s \in ToSet(q) => Len(RemoveFirst(q, s)) = Len(q) - 1
<1>1. Len(q) \in Nat /\ DOMAIN q = 1..Len(q)
    BY LenProperties
<1>2. CASE \E i \in 1..Len(q) : q[i] = s
    <2>1. PICK i \in 1..Len(q) : q[i] = s /\ RemoveFirst(q, s) = RemoveAt(q, i)
        BY <1>2, RemoveFirstIndex
    <2> DEFINE r == RemoveAt(q, i)
    <2>2. /\ r \in Seq(S) /\ Len(r) = Len(q) - 1
          /\ \A j \in 1..(Len(q) - 1) : r[j] = IF j < i THEN q[j] ELSE q[j + 1]
        BY RemoveAtProperties
    <2>3. DOMAIN r = 1..(Len(q) - 1)
        BY <2>2, LenProperties
    <2> HIDE DEF r
    <2>4. IsInjective(r)
        BY <1>1, <2>2, <2>3, SMTT(40) DEF IsInjective
    <2>5. ASSUME NEW x \in ToSet(q), x # s
          PROVE  x \in ToSet(r)
        <3>1. PICK j \in 1..Len(q) : q[j] = x
            BY <1>1 DEF ToSet
        <3>2. j # i
            BY <2>1, <2>5, <3>1
        <3>3. CASE j < i
            BY <1>1, <2>2, <2>3, <3>1, <3>3 DEF ToSet
        <3>4. CASE j > i
            <4>1. j - 1 \in 1..(Len(q) - 1) /\ ~(j - 1 < i) /\ (j - 1) + 1 = j
                BY <1>1, <3>4
            <4>2. r[j - 1] = x
                BY <2>2, <3>1, <4>1
            <4> QED  BY <2>3, <4>1, <4>2 DEF ToSet
        <3> QED  BY <1>1, <3>2, <3>3, <3>4
    <2>6. ASSUME NEW x \in ToSet(r)
          PROVE  x \in ToSet(q) \ {s}
        <3>1. PICK j \in 1..(Len(q) - 1) : r[j] = x
            BY <2>3 DEF ToSet
        <3>2. PICK k \in 1..Len(q) : k # i /\ q[k] = x
            <4>1. CASE j < i
                BY <1>1, <2>2, <3>1, <4>1
            <4>2. CASE j >= i
                BY <1>1, <2>2, <3>1, <4>2
            <4> QED  BY <1>1, <4>1, <4>2
        <3>3. x # s
            BY <1>1, <2>1, <3>2 DEF IsInjective
        <3> QED  BY <1>1, <3>2, <3>3 DEF ToSet
    <2>7. RemoveFirst(q, s) = r
        BY <2>1 DEF r
    <2>8. s \notin ToSet(r) /\ ToSet(r) = ToSet(q) \ {s}
        BY <2>5, <2>6
    <2>9. Len(q) - 1 <= Len(q)
        BY <1>1
    <2> QED  BY <2>2, <2>4, <2>7, <2>8, <2>9
<1>3. CASE ~\E i \in 1..Len(q) : q[i] = s
    <2>1. RemoveFirst(q, s) = q /\ s \notin ToSet(q)
        BY <1>1, <1>3 DEF RemoveFirst, ToSet
    <2>2. ToSet(q) = ToSet(q) \ {s} /\ Len(q) <= Len(q)
        BY <1>1, <2>1
    <2> QED  BY <2>1, <2>2
<1> QED
    BY <1>2, <1>3

\* A key that is new may be appended to distinct ones.
LEMMA AppendFresh ==
    ASSUME NEW S, NEW q \in Seq(S), IsInjective(q), NEW s \in S, s \notin ToSet(q)
    PROVE  /\ Append(q, s) \in Seq(S)
           /\ IsInjective(Append(q, s))
           /\ ToSet(Append(q, s)) = ToSet(q) \cup {s}
           /\ Len(Append(q, s)) = Len(q) + 1
<1> DEFINE r == Append(q, s)
<1>1. Len(q) \in Nat /\ DOMAIN q = 1..Len(q)
    BY LenProperties
<1>2. /\ r \in Seq(S) /\ Len(r) = Len(q) + 1
      /\ \A i \in 1..Len(q) : r[i] = q[i]
      /\ r[Len(q) + 1] = s
    BY AppendProperties
<1>3. DOMAIN r = 1..(Len(q) + 1)
    BY <1>2, LenProperties
<1> HIDE DEF r
<1>4. \A i \in 1..Len(q) : q[i] # s
    BY <1>1 DEF ToSet
<1>5. IsInjective(r)
    BY <1>1, <1>2, <1>3, <1>4 DEF IsInjective
<1>6. ToSet(r) = ToSet(q) \cup {s}
    <2>1. \A i \in 1..(Len(q) + 1) : i \in 1..Len(q) \/ i = Len(q) + 1
        BY <1>1
    <2>2. 1..Len(q) \subseteq 1..(Len(q) + 1) /\ Len(q) + 1 \in 1..(Len(q) + 1)
        BY <1>1
    <2> QED  BY <1>1, <1>2, <1>3, <2>1, <2>2 DEF ToSet
<1> QED
    BY <1>2, <1>5, <1>6 DEF r

\* Distinct keys stay distinct without the first.
LEMMA TailOfDistinct ==
    ASSUME NEW S, NEW q \in Seq(S), IsInjective(q), q # <<>>
    PROVE  /\ Tail(q) \in Seq(S)
           /\ IsInjective(Tail(q))
           /\ ToSet(Tail(q)) \subseteq ToSet(q)
           /\ Len(Tail(q)) = Len(q) - 1
<1>1. Len(q) \in Nat \ {0} /\ DOMAIN q = 1..Len(q)
    BY EmptySeq, LenProperties
<1>2. /\ Tail(q) \in Seq(S) /\ Len(Tail(q)) = Len(q) - 1
      /\ \A i \in 1..Len(Tail(q)) : Tail(q)[i] = q[i + 1]
    BY HeadTailProperties
<1>3. DOMAIN Tail(q) = 1..(Len(q) - 1)
    BY <1>2, LenProperties
<1> QED
    BY <1>1, <1>2, <1>3 DEF IsInjective, ToSet

-----------------------------------------------------------------------------
(* The inductive invariant.                                                *)

\* Ids of pending opens are fresh; every other call names a session that was
\* stored once.
FreshIds ==
    /\ Stored \cup Expired \cup closed \subseteq Created
    /\ \A t \in Threads : pc[t] \notin {"idle", "entering"} =>
           call[t].kind \in {"act", "alternatives", "close"}
    /\ \A t \in Threads : pc[t] # "idle" =>
           IF call[t].kind = "open"
           THEN /\ call[t].session \notin Created
                /\ \A u \in Threads \ {t} : pc[u] # "idle" =>
                       call[u].session # call[t].session
           ELSE call[t].session \in Created

\* A thread between acquiring and releasing is the one the slot names, and the
\* session it read is still the one in the slot when it writes.
Inside(t) == pc[t] \in {"reading", "writing", "releasing"}

LockOK(t) ==
    /\ Inside(t) => lockedBy[call[t].session] = t
    /\ pc[t] = "writing" =>
           /\ call[t].seen = revision[call[t].session]
           /\ call[t].expected \in {None, revision[call[t].session]}
    /\ pc[t] \in {"entering", "waiting", "reading", "writing"} => call[t].answer = "none"

LockInv == \A t \in Threads : LockOK(t)

Inv ==
    /\ TypeOK
    /\ StoreBounded
    /\ ClosedForgotten
    /\ FreshIds
    /\ InUseCounts
    /\ LockInv

\* What the two maps may become in one step.
MapsOK ==
    /\ entries \in Seq(Sessions) /\ tombstones \in Seq(Sessions)
    /\ StoreBounded
    /\ ClosedForgotten

\* The invariant holds of an empty store.
LEMMA InitInv ==
    ASSUME Init
    PROVE  Inv
<1> USE DEF Init
<1>1. entries = <<>> /\ tombstones = <<>> /\ Stored = {} /\ Expired = {} /\ closed = {}
    BY DEF Stored, Expired, ToSet
<1>2. TypeOK
    BY <1>1, BoundAssumption DEF TypeOK
<1>3. StoreBounded
    BY <1>1, StoreAssumption DEF StoreBounded, IsInjective
<1>4. ClosedForgotten /\ FreshIds /\ LockInv
    BY <1>1 DEF ClosedForgotten, FreshIds, LockInv, LockOK, Inside
<1>5. InUseCounts
    <2>1. \A s \in Sessions : Using(s) = {}
        BY DEF Using
    <2> QED  BY <2>1, FS_EmptySet DEF InUseCounts
<1> QED
    BY <1>2, <1>3, <1>4, <1>5 DEF Inv

\* Expiring a stored session moves it from one map to the other.
LEMMA ExpireMaps ==
    ASSUME MapsOK, NEW s \in Stored, Expire(s), UNCHANGED closed
    PROVE  /\ MapsOK'
           /\ Stored' = Stored \ {s}
           /\ Stored' \cup Expired' \subseteq Stored \cup Expired
<1> USE DEF MapsOK, StoreBounded
<1>1. s \in Sessions /\ s \notin Expired /\ s \notin closed
    BY ElementOfSeq DEF Stored, ToSet, ClosedForgotten
<1>2. /\ entries' \in Seq(Sessions) /\ IsInjective(entries')
      /\ Stored' = Stored \ {s} /\ Len(entries') <= Len(entries)
    BY RemoveFirstProperties DEF Expire, Stored
<1> DEFINE rest == IF Len(tombstones) >= MaxEntries THEN Tail(tombstones) ELSE tombstones
<1>3. Len(tombstones) \in Nat /\ Len(entries) \in Nat /\ Len(entries') \in Nat
    BY <1>2, LenProperties
<1>4. /\ rest \in Seq(Sessions) /\ IsInjective(rest) /\ ToSet(rest) \subseteq Expired
      /\ Len(rest) + 1 <= MaxEntries
    <2>1. CASE Len(tombstones) >= MaxEntries
        <3>1. tombstones # <<>>
            BY <1>3, <2>1, StoreAssumption
        <3>2. /\ Tail(tombstones) \in Seq(Sessions) /\ IsInjective(Tail(tombstones))
              /\ ToSet(Tail(tombstones)) \subseteq ToSet(tombstones)
              /\ Len(Tail(tombstones)) = Len(tombstones) - 1
            BY <3>1, TailOfDistinct
        <3> QED  BY <1>3, <2>1, <3>2, StoreAssumption DEF Expired
    <2>2. CASE ~(Len(tombstones) >= MaxEntries)
        BY <1>3, <2>2, StoreAssumption DEF Expired
    <2> QED  BY <2>1, <2>2
<1>5. tombstones' = Append(rest, s)
    BY DEF Expire, AddTombstone
<1> HIDE DEF rest
<1>6. s \notin ToSet(rest)
    BY <1>1, <1>4
<1>7. /\ tombstones' \in Seq(Sessions) /\ IsInjective(tombstones')
      /\ Expired' = ToSet(rest) \cup {s} /\ Len(tombstones') = Len(rest) + 1
    BY <1>1, <1>4, <1>5, <1>6, AppendFresh DEF Expired
<1>8. StoreBounded'
    <2>1. Len(entries') <= MaxEntries /\ Len(tombstones') <= MaxEntries
        BY <1>2, <1>3, <1>4, <1>7, StoreAssumption
    <2>2. Stored' \cap Expired' = {}
        BY <1>2, <1>4, <1>7
    <2> QED  BY <1>2, <1>7, <2>1, <2>2
<1>9. Stored' \cup Expired' \subseteq Stored \cup Expired
    BY <1>2, <1>4, <1>7
<1>10. ClosedForgotten'
    BY <1>9 DEF ClosedForgotten
<1> QED
    BY <1>2, <1>7, <1>8, <1>9, <1>10

\* Moving a key to the end changes the order only.
LEMMA TouchMaps ==
    ASSUME NEW q \in Seq(Sessions), IsInjective(q), NEW s \in ToSet(q)
    PROVE  /\ Touch(q, s) \in Seq(Sessions) /\ IsInjective(Touch(q, s))
           /\ ToSet(Touch(q, s)) = ToSet(q)
           /\ Len(Touch(q, s)) = Len(q)
<1>1. s \in Sessions
    BY ElementOfSeq DEF ToSet
<1> DEFINE r == RemoveFirst(q, s)
<1>2. /\ r \in Seq(Sessions) /\ IsInjective(r)
      /\ ToSet(r) = ToSet(q) \ {s} /\ Len(r) = Len(q) - 1
    BY RemoveFirstProperties
<1>3. Touch(q, s) = Append(r, s)
    BY DEF Touch
<1> HIDE DEF r
<1>4. /\ Append(r, s) \in Seq(Sessions) /\ IsInjective(Append(r, s))
      /\ ToSet(Append(r, s)) = ToSet(r) \cup {s} /\ Len(Append(r, s)) = Len(r) + 1
    BY <1>1, <1>2, AppendFresh
<1>5. Len(q) \in Nat
    BY LenProperties
<1> QED
    BY <1>2, <1>3, <1>4, <1>5

\* What a step may do to the maps: a session enters them once, when put.
MapsStep ==
    /\ MapsOK'
    /\ Created \subseteq Created'
    /\ Stored' \cup Expired' \cup closed' \subseteq Created'
    /\ Stored' \subseteq Stored \cup (Created' \ Created)

\* A step that leaves the maps alone keeps what is said of them.
LEMMA UnchangedMaps ==
    ASSUME Inv, UNCHANGED <<entries, tombstones, insertedAt, closed>>
    PROVE  MapsStep
BY DEF Inv, TypeOK, MapsStep, MapsOK, StoreBounded, ClosedForgotten, FreshIds,
       Stored, Expired, Created

\* An expiry keeps the maps in order.
LEMMA ExpireStep ==
    ASSUME Inv, NEW s \in Stored, Expire(s), UNCHANGED <<insertedAt, closed>>
    PROVE  MapsStep
<1>1. MapsOK
    BY DEF Inv, TypeOK, MapsOK
<1>2. Created' = Created
    BY DEF Created
<1> QED
    BY <1>1, <1>2, ExpireMaps DEF MapsStep, Inv, FreshIds

\* put() keeps the maps in order, its expiries and evictions included.
LEMMA PutStep ==
    ASSUME Inv, NEW t \in Threads, Put(t)
    PROVE  MapsStep
<1> DEFINE s == call[t].session
           idle == {i \in DOMAIN entries : inUse[entries[i]] = 0}
           victim == CHOOSE i \in idle : \A j \in idle : i <= j
           full == Len(entries) >= MaxEntries
           kept == IF full THEN RemoveFirst(entries, entries[victim]) ELSE entries
<1> USE DEF Inv, TypeOK
<1>1. CASE full /\ idle = {}
    <2>1. UNCHANGED <<entries, tombstones, insertedAt, closed>>
        BY <1>1 DEF Put
    <2> QED  BY <2>1, UnchangedMaps
<1>2. CASE ~(full /\ idle = {})
    <2>1. /\ entries' = Append(kept, s)
          /\ insertedAt' = [insertedAt EXCEPT ![s] = call[t].read]
          /\ UNCHANGED <<tombstones, closed>>
        BY <1>2 DEF Put
    <2>2. s \in Sessions /\ call[t].read \in Nat /\ s \notin Created
        BY DEF Put, Calls, FreshIds
    <2>3. Created' = Created \cup {s}
        BY <2>1, <2>2, NoneAssumption, SMTT(40) DEF Created
    <2>4. s \notin Stored /\ s \notin Expired /\ s \notin closed
        BY <2>2 DEF FreshIds
    <2>5. Len(entries) \in Nat /\ IsInjective(entries) /\ Len(entries) <= MaxEntries
        BY LenProperties DEF StoreBounded
    <2>6. /\ kept \in Seq(Sessions) /\ IsInjective(kept) /\ ToSet(kept) \subseteq Stored
          /\ Len(kept) + 1 <= MaxEntries
        <3>1. CASE full
            <4>1. PICK i \in idle : TRUE
                BY <1>2, <3>1
            <4>2. idle \subseteq 1..Len(entries)
                BY LenProperties
            <4>3. \E i0 \in idle : \A j \in idle : i0 <= j
                <5>1. idle \subseteq Nat /\ idle # {}
                    BY <4>1, <4>2
                <5> HIDE DEF idle
                <5> QED  BY <5>1, LeastNatural
            <4>4. victim \in idle
                BY <4>3
            <4>5. entries[victim] \in Stored
                BY <4>4 DEF Stored, ToSet
            <4>6. kept = RemoveFirst(entries, entries[victim])
                BY <3>1
            <4>7. ASSUME NEW v \in Stored
                  PROVE  /\ RemoveFirst(entries, v) \in Seq(Sessions)
                         /\ IsInjective(RemoveFirst(entries, v))
                         /\ ToSet(RemoveFirst(entries, v)) \subseteq Stored
                         /\ Len(RemoveFirst(entries, v)) = Len(entries) - 1
                BY <2>5, RemoveFirstProperties DEF Stored
            <4> HIDE DEF kept, victim, idle
            <4>8. /\ kept \in Seq(Sessions) /\ IsInjective(kept)
                  /\ ToSet(kept) \subseteq Stored /\ Len(kept) = Len(entries) - 1
                BY <4>5, <4>6, <4>7
            <4> QED  BY <2>5, <4>8, StoreAssumption
        <3>2. CASE ~full
            BY <2>5, <3>2, StoreAssumption DEF Stored
        <3> QED  BY <3>1, <3>2
    <2> HIDE DEF kept
    <2>7. /\ entries' \in Seq(Sessions) /\ IsInjective(entries')
          /\ Stored' = ToSet(kept) \cup {s} /\ Len(entries') = Len(kept) + 1
        BY <2>1, <2>2, <2>4, <2>6, AppendFresh DEF Stored
    <2>8. Expired' = Expired
        BY <2>1 DEF Expired
    <2>9. StoreBounded'
        BY <2>1, <2>4, <2>6, <2>7, <2>8 DEF StoreBounded
    <2>10. ClosedForgotten'
        BY <2>1, <2>4, <2>6, <2>7, <2>8 DEF ClosedForgotten
    <2> QED
        BY <2>1, <2>2, <2>3, <2>6, <2>7, <2>8, <2>9, <2>10 DEF MapsStep, MapsOK, FreshIds
<1> QED
    BY <1>1, <1>2

\* A lookup that fails keeps the maps in order.
LEMMA LookupFailsStep ==
    ASSUME Inv, NEW t \in Threads, LookupFails(t)
    PROVE  MapsStep
<1> DEFINE s == call[t].session
<1> USE DEF Inv, TypeOK
<1>0. UNCHANGED <<insertedAt, closed>>
    BY DEF LookupFails, slotVars
<1>1. CASE s \in Stored
    BY <1>0, <1>1, ExpireStep, UnchangedMaps DEF LookupFails
<1>2. CASE s \notin Stored /\ s \in Expired
    <2>1. tombstones' = Touch(tombstones, s) /\ entries' = entries
        BY <1>2 DEF LookupFails
    <2>2. IsInjective(tombstones) /\ s \in ToSet(tombstones)
        BY <1>2 DEF StoreBounded, Expired
    <2>3. /\ tombstones' \in Seq(Sessions) /\ IsInjective(tombstones')
          /\ Expired' = Expired /\ Len(tombstones') = Len(tombstones)
        BY <2>1, <2>2, TouchMaps DEF Expired
    <2>4. Stored' = Stored /\ Created' = Created
        BY <1>0, <2>1 DEF Stored, Created
    <2> QED  BY <1>0, <2>1, <2>3, <2>4 DEF MapsStep, MapsOK, StoreBounded, ClosedForgotten, FreshIds
<1>3. CASE s \notin Stored /\ s \notin Expired
    BY <1>0, <1>3, UnchangedMaps DEF LookupFails
<1> QED
    BY <1>1, <1>2, <1>3

\* A lookup that succeeds keeps the maps in order.
LEMMA LookupSucceedsStep ==
    ASSUME Inv, NEW t \in Threads, LookupSucceeds(t), UNCHANGED <<tombstones, insertedAt, closed>>
    PROVE  MapsStep
<1> USE DEF Inv, TypeOK
<1>1. IsInjective(entries) /\ call[t].session \in ToSet(entries)
    BY DEF LookupSucceeds, StoreBounded, Stored
<1>2. /\ entries' \in Seq(Sessions) /\ IsInjective(entries')
      /\ Stored' = Stored /\ Len(entries') = Len(entries)
    BY <1>1, TouchMaps DEF LookupSucceeds, Stored
<1>3. Expired' = Expired /\ Created' = Created
    BY DEF Expired, Created
<1> QED
    BY <1>2, <1>3 DEF MapsStep, MapsOK, StoreBounded, ClosedForgotten, FreshIds

\* Closing a session keeps the maps in order.
LEMMA RemoveSessionStep ==
    ASSUME Inv, NEW t \in Threads, RemoveSession(t)
    PROVE  MapsStep
<1> DEFINE s == call[t].session
<1> USE DEF Inv, TypeOK
<1>1. /\ entries' = RemoveFirst(entries, s) /\ tombstones' = RemoveFirst(tombstones, s)
      /\ closed' = closed \cup {s} /\ UNCHANGED insertedAt
    BY DEF RemoveSession, slotVars
<1>2. s \in Created /\ Created' = Created
    BY <1>1 DEF RemoveSession, FreshIds, Created
<1>3. IsInjective(entries) /\ IsInjective(tombstones)
    BY DEF StoreBounded
<1>4. /\ entries' \in Seq(Sessions) /\ IsInjective(entries')
      /\ Stored' = Stored \ {s} /\ Len(entries') <= Len(entries)
    BY <1>1, <1>3, RemoveFirstProperties DEF Stored
<1>5. /\ tombstones' \in Seq(Sessions) /\ IsInjective(tombstones')
      /\ Expired' = Expired \ {s} /\ Len(tombstones') <= Len(tombstones)
    BY <1>1, <1>3, RemoveFirstProperties DEF Expired
<1>6. /\ Len(entries) \in Nat /\ Len(entries') \in Nat
      /\ Len(tombstones) \in Nat /\ Len(tombstones') \in Nat
    BY <1>4, <1>5, LenProperties
<1>7. Len(entries') <= MaxEntries /\ Len(tombstones') <= MaxEntries
    BY <1>4, <1>5, <1>6, StoreAssumption DEF StoreBounded
<1>8. StoreBounded'
    BY <1>4, <1>5, <1>7 DEF StoreBounded
<1> QED
    BY <1>1, <1>2, <1>4, <1>5, <1>8 DEF MapsStep, MapsOK, ClosedForgotten, FreshIds

\* Releasing a session keeps the maps in order.
LEMMA LeaveStep ==
    ASSUME Inv, NEW t \in Threads, Leave(t)
    PROVE  MapsStep
<1>1. UNCHANGED <<insertedAt, closed>>
    BY DEF Leave
<1>2. \/ call[t].session \in Stored /\ Expire(call[t].session)
      \/ UNCHANGED <<entries, tombstones>>
    BY DEF Leave
<1> QED
    BY <1>1, <1>2, ExpireStep, UnchangedMaps

\* Every step keeps the maps in order.
LEMMA NextMaps ==
    ASSUME Inv, [Next]_vars
    PROVE  MapsStep
<1>1. CASE Tick \/ UNCHANGED vars
    BY <1>1, UnchangedMaps DEF Tick, vars, slotVars
<1>2. ASSUME NEW t \in Threads, Arrive(t)
      PROVE  MapsStep
    BY <1>2, UnchangedMaps DEF Arrive, BeginOpen, BeginGet, BeginLocked, Begin, slotVars
<1>3. ASSUME NEW t \in Threads, Proceed(t)
      PROVE  MapsStep
    <2>1. CASE Put(t)
        BY <2>1, PutStep
    <2>2. CASE LookupFails(t)
        BY <2>2, LookupFailsStep
    <2>3. CASE Get(t) \/ Enter(t)
        BY <2>3, LookupSucceedsStep DEF Get, Enter, slotVars
    <2>4. CASE Acquire(t) \/ ReadSession(t) \/ RefuseAction(t) \/ WriteSession(t) \/ Release(t)
        BY <2>4, UnchangedMaps
        DEF Acquire, ReadSession, RefuseAction, WriteSession, Release, slotVars
    <2>5. CASE RemoveSession(t)
        BY <2>5, RemoveSessionStep
    <2>6. CASE Leave(t)
        BY <2>6, LeaveStep
    <2> QED  BY <1>3, <2>1, <2>2, <2>3, <2>4, <2>5, <2>6 DEF Proceed
<1> QED
    BY <1>1, <1>2, <1>3 DEF Next

-----------------------------------------------------------------------------
(* The other conjuncts.                                                    *)

\* Finitely many threads use a session.
LEMMA UsingFinite == \A s : IsFiniteSet(Using(s))
<1> TAKE s
<1>1. Using(s) \in SUBSET Threads
    BY DEF Using
<1> QED
    BY <1>1, FS_Subset, ThreadsAssumption

\* A thread that stays outside the slots, or inside one, changes no count.
LEMMA CountsKept ==
    ASSUME Inv, UNCHANGED inUse, \A s \in Sessions : Using(s)' = Using(s)
    PROVE  InUseCounts'
BY DEF Inv, InUseCounts

\* Every step keeps in_use exact.
LEMMA CountsStep ==
    ASSUME Inv, [Next]_vars
    PROVE  InUseCounts'
<1> USE DEF Inv, TypeOK
<1>1. CASE Tick \/ UNCHANGED vars
    <2>1. UNCHANGED <<inUse, pc, call>>
        BY <1>1 DEF Tick, vars, slotVars
    <2> QED  BY <2>1, CountsKept DEF Using
<1>2. ASSUME NEW t \in Threads, Arrive(t)
      PROVE  InUseCounts'
    <2>1. /\ pc[t] = "idle" /\ pc' = [pc EXCEPT ![t] = "entering"]
          /\ \E c : call' = [call EXCEPT ![t] = c]
          /\ UNCHANGED inUse
        BY <1>2 DEF Arrive, BeginOpen, BeginGet, BeginLocked, Begin, Goto, slotVars
    <2> QED  BY <2>1, CountsKept DEF Using
<1>3. ASSUME NEW t \in Threads, Proceed(t)
      PROVE  InUseCounts'
    <2> DEFINE s == call[t].session
    <2>1. s \in Sessions
        BY <1>3 DEF Proceed, Put, LookupFails, Get, Enter, LookupSucceeds, Acquire, ReadSession,
               RefuseAction, WriteSession, RemoveSession, Release, Leave, Calls
    <2>2. CASE Put(t) \/ LookupFails(t) \/ Get(t)
        <3>1. /\ pc[t] = "entering" /\ pc' = [pc EXCEPT ![t] = "idle"]
              /\ \E c : call' = [call EXCEPT ![t] = c]
              /\ UNCHANGED inUse
            BY <2>2 DEF Put, LookupFails, Get, LookupSucceeds, Reply, Goto, Answer, slotVars
        <3> QED  BY <3>1, CountsKept DEF Using
    <2>3. CASE Enter(t)
        <3>1. /\ pc[t] = "entering" /\ pc' = [pc EXCEPT ![t] = "waiting"]
              /\ inUse' = [inUse EXCEPT ![s] = @ + 1] /\ call' = call
            BY <2>3 DEF Enter, LookupSucceeds, Goto
        <3>2. t \notin Using(s) /\ Using(s)' = Using(s) \cup {t}
            BY <2>1, <3>1 DEF Using
        <3>3. \A u \in Sessions \ {s} : Using(u)' = Using(u)
            BY <3>1 DEF Using
        <3>4. Cardinality(Using(s)') = Cardinality(Using(s)) + 1
            BY <3>2, UsingFinite, FS_AddElement
        <3> QED  BY <2>1, <3>1, <3>3, <3>4 DEF InUseCounts
    <2>4. CASE Acquire(t) \/ ReadSession(t) \/ RefuseAction(t) \/ WriteSession(t)
                 \/ RemoveSession(t) \/ Release(t)
        <3>1. /\ pc[t] \in {"waiting", "reading", "writing", "releasing"}
              /\ \E l \in {"reading", "writing", "releasing", "leaving"} :
                     pc' = [pc EXCEPT ![t] = l]
              /\ UNCHANGED inUse
            BY <2>4 DEF Acquire, ReadSession, RefuseAction, WriteSession, RemoveSession,
                   Release, Goto, slotVars
        <3>2. \A u \in Threads : call'[u].session = call[u].session
            <4>1. \/ call' = call
                  \/ \E r : call' = [call EXCEPT ![t].answer = r]
                  \/ \E r : call' = [call EXCEPT ![t].seen = r]
                BY <2>4 DEF Acquire, ReadSession, RefuseAction, WriteSession, RemoveSession,
                       Release, Answer
            <4>2. call[t] \in Calls
                BY <3>1
            <4>3. call'[t].session = call[t].session
                BY <4>1, <4>2 DEF Calls
            <4>4. \A u \in Threads \ {t} : call'[u] = call[u]
                BY <4>1
            <4> QED  BY <4>3, <4>4
        <3> QED  BY <3>1, <3>2, CountsKept DEF Using
    <2>5. CASE Leave(t)
        <3>1. /\ pc[t] = "leaving" /\ pc' = [pc EXCEPT ![t] = "idle"]
              /\ inUse' = [inUse EXCEPT ![s] = @ - 1] /\ call' = call
            BY <2>5 DEF Leave, Goto
        <3>2. t \in Using(s) /\ Using(s)' = Using(s) \ {t}
            BY <2>1, <3>1 DEF Using
        <3>3. \A u \in Sessions \ {s} : Using(u)' = Using(u)
            BY <3>1 DEF Using
        <3>4. Cardinality(Using(s)') = Cardinality(Using(s)) - 1
            <4>1. IsFiniteSet(Using(s))
                BY UsingFinite
            <4>2. Cardinality(Using(s) \ {t}) = Cardinality(Using(s)) - 1
                BY <3>2, <4>1, FS_RemoveElement
            <4> QED  BY <3>2, <4>2
        <3> QED  BY <2>1, <3>1, <3>3, <3>4 DEF InUseCounts
    <2> QED  BY <1>3, <2>2, <2>3, <2>4, <2>5 DEF Proceed
<1> QED
    BY <1>1, <1>2, <1>3 DEF Next

\* A call that proceeds moves its own thread and fills in its own answer.
LEMMA ThreadStep ==
    ASSUME Inv, NEW t \in Threads, Proceed(t)
    PROVE  /\ pc[t] # "idle" /\ call[t] \in Calls
           /\ \E l \in {"idle", "waiting", "reading", "writing", "releasing", "leaving"} :
                  pc' = [pc EXCEPT ![t] = l]
           /\ UNCHANGED <<now, requests>>
           /\ call' \in [Threads -> Calls \cup {None}]
           /\ call'[t] \in Calls /\ call'[t].session = call[t].session
           /\ call'[t].kind = call[t].kind
           /\ call'[t].expected = call[t].expected
           /\ \A u \in Threads \ {t} : call'[u] = call[u] /\ pc'[u] = pc[u]
<1> USE DEF Inv, TypeOK
<1>1. pc[t] # "idle" /\ call[t] \in Calls
    BY DEF Proceed, Put, LookupFails, Get, Enter, LookupSucceeds, Acquire, ReadSession,
           RefuseAction, WriteSession, RemoveSession, Release, Leave
<1>2. /\ \E l \in {"idle", "waiting", "reading", "writing", "releasing", "leaving"} :
             pc' = [pc EXCEPT ![t] = l]
      /\ UNCHANGED <<now, requests>>
    BY DEF Proceed, Put, LookupFails, Get, Enter, LookupSucceeds, Acquire, ReadSession,
           RefuseAction, WriteSession, RemoveSession, Release, Leave, Goto, Reply, slotVars
<1>3. \/ call' = call
      \/ \E r \in Answers : call' = [call EXCEPT ![t].answer = r]
      \/ call' = [call EXCEPT ![t].seen = revision[call[t].session]]
      \/ call' = [call EXCEPT ![t].seen = revision[call[t].session], ![t].answer = "ok"]
    BY DEF Proceed, Put, LookupFails, Get, Enter, LookupSucceeds, Acquire, ReadSession,
           RefuseAction, WriteSession, RemoveSession, Release, Leave, Reply, Answer, Answers
<1>4. revision[call[t].session] \in Nat
    BY <1>1 DEF Calls
<1>5. \E c \in Calls : call' = [call EXCEPT ![t] = c] /\ c.session = call[t].session
                       /\ c.kind = call[t].kind /\ c.expected = call[t].expected
    <2>1. CASE call' = call
        BY <1>1, <2>1
    <2>2. CASE \E r \in Answers : call' = [call EXCEPT ![t].answer = r]
        <3>1. PICK r \in Answers : call' = [call EXCEPT ![t].answer = r]
            BY <2>2
        <3>2. [call[t] EXCEPT !.answer = r] \in Calls
            BY <1>1 DEF Calls
        <3>3. call' = [call EXCEPT ![t] = [call[t] EXCEPT !.answer = r]]
            BY <3>1
        <3> QED  BY <1>1, <3>2, <3>3 DEF Calls
    <2>3. CASE call' = [call EXCEPT ![t].seen = revision[call[t].session]]
        <3>1. [call[t] EXCEPT !.seen = revision[call[t].session]] \in Calls
            BY <1>1, <1>4 DEF Calls
        <3> QED  BY <1>1, <2>3, <3>1 DEF Calls
    <2>4. CASE call' = [call EXCEPT ![t].seen = revision[call[t].session], ![t].answer = "ok"]
        <3>1. [call[t] EXCEPT !.seen = revision[call[t].session], !.answer = "ok"] \in Calls
            BY <1>1, <1>4 DEF Calls, Answers
        <3>2. call' = [call EXCEPT ![t] =
                  [call[t] EXCEPT !.seen = revision[call[t].session], !.answer = "ok"]]
            BY <2>4
        <3> QED  BY <1>1, <3>1, <3>2 DEF Calls
    <2> QED  BY <1>3, <2>1, <2>2, <2>3, <2>4
<1> QED
    BY <1>1, <1>2, <1>5

\* Likewise when a request arrives.
LEMMA ArrivalStep ==
    ASSUME Inv, NEW t \in Threads, Arrive(t)
    PROVE  \E c \in Calls :
               /\ pc[t] = "idle" /\ pc' = [pc EXCEPT ![t] = "entering"]
               /\ call' = [call EXCEPT ![t] = c] /\ c.answer = "none"
               /\ requests' \in 0..MaxRequests
               /\ UNCHANGED <<now, entries, tombstones, slotVars, closed>>
               /\ c.kind \in {"open", "get"} => c.expected = None
               /\ IF c.kind = "open"
                  THEN /\ c.session \notin Created
                       /\ \A u \in Threads : call[u] # None => call[u].session # c.session
                  ELSE c.session \in Created
<1> USE DEF Inv, TypeOK
<1>1. 0..MaxRequests \cup {None} \subseteq Nat \cup {None} /\ now \in Nat
    BY BoundAssumption
<1>2. ASSUME NEW kind \in Kinds, NEW s \in Sessions, NEW expected \in Nat \cup {None},
             Begin(t, kind, s, expected),
             IF kind = "open"
             THEN /\ s \notin Created
                  /\ \A u \in Threads : call[u] # None => call[u].session # s
             ELSE s \in Created
      PROVE  \E c \in Calls :
               /\ pc[t] = "idle" /\ pc' = [pc EXCEPT ![t] = "entering"]
               /\ call' = [call EXCEPT ![t] = c] /\ c.answer = "none"
               /\ requests' \in 0..MaxRequests
               /\ UNCHANGED <<now, entries, tombstones, slotVars, closed>>
               /\ c.kind = kind /\ c.session = s /\ c.expected = expected
    <2> DEFINE c == [kind |-> kind, session |-> s, expected |-> expected,
                     read |-> now, seen |-> 0, answer |-> "none"]
    <2>1. c \in Calls /\ c.kind = kind /\ c.session = s /\ c.expected = expected /\ c.answer = "none"
        BY <1>1 DEF Calls, Answers
    <2>2. /\ pc[t] = "idle" /\ pc' = [pc EXCEPT ![t] = "entering"]
          /\ call' = [call EXCEPT ![t] = c]
          /\ UNCHANGED <<now, entries, tombstones, slotVars, closed>>
        BY <1>2 DEF Begin, Goto
    <2>3. requests' \in 0..MaxRequests
        BY <1>2, BoundAssumption DEF Begin
    <2> QED  BY <2>1, <2>2, <2>3
<1>3. PICK kind \in Kinds, s \in Sessions, expected \in Nat \cup {None} :
          /\ Begin(t, kind, s, expected)
          /\ kind \in {"open", "get"} => expected = None
          /\ IF kind = "open"
             THEN /\ s \notin Created
                  /\ \A u \in Threads : call[u] # None => call[u].session # s
             ELSE s \in Created
    <2>1. PICK s \in Sessions :
              \/ BeginOpen(t, s)
              \/ BeginGet(t, s)
              \/ \E kind \in {"act", "alternatives", "close"},
                    expected \in 0..MaxRequests \cup {None} : BeginLocked(t, kind, s, expected)
        BY DEF Arrive
    <2>2. CASE BeginOpen(t, s)
        BY <2>2 DEF BeginOpen, Kinds
    <2>3. CASE BeginGet(t, s)
        BY <2>3 DEF BeginGet, Kinds
    <2>4. ASSUME NEW kind \in {"act", "alternatives", "close"},
                 NEW expected \in 0..MaxRequests \cup {None}, BeginLocked(t, kind, s, expected)
          PROVE  /\ Begin(t, kind, s, expected) /\ s \in Created
                 /\ kind \in Kinds /\ kind \notin {"open", "get"} /\ expected \in Nat \cup {None}
        BY <1>1, <2>4 DEF BeginLocked, Kinds
    <2> QED  BY <2>1, <2>2, <2>3, <2>4
<1>4. PICK c \in Calls :
          /\ pc[t] = "idle" /\ pc' = [pc EXCEPT ![t] = "entering"]
          /\ call' = [call EXCEPT ![t] = c] /\ c.answer = "none"
          /\ requests' \in 0..MaxRequests
          /\ UNCHANGED <<now, entries, tombstones, slotVars, closed>>
          /\ c.kind = kind /\ c.session = s /\ c.expected = expected
    BY <1>2, <1>3
<1>5. /\ c.kind \in {"open", "get"} => c.expected = None
      /\ IF c.kind = "open"
         THEN /\ c.session \notin Created
              /\ \A u \in Threads : call[u] # None => call[u].session # c.session
         ELSE c.session \in Created
    BY <1>3, <1>4
<1> QED
    BY <1>4, <1>5

\* Every step keeps the types.
LEMMA TypesStep ==
    ASSUME Inv, [Next]_vars
    PROVE  TypeOK'
<1> USE DEF Inv, TypeOK
<1>1. entries' \in Seq(Sessions) /\ tombstones' \in Seq(Sessions)
    BY NextMaps DEF MapsStep, MapsOK
<1>2. CASE Tick \/ UNCHANGED vars
    BY <1>2, <1>1, BoundAssumption DEF Tick, vars, slotVars
<1>3. ASSUME NEW t \in Threads, Arrive(t)
      PROVE  TypeOK'
    <2>1. PICK c \in Calls :
              /\ pc' = [pc EXCEPT ![t] = "entering"] /\ call' = [call EXCEPT ![t] = c]
              /\ requests' \in 0..MaxRequests
              /\ UNCHANGED <<now, entries, tombstones, slotVars, closed>>
        BY <1>3, ArrivalStep
    <2>2. c # None
        BY NoneAssumption
    <2>3. \A u \in Threads : pc'[u] # "idle" => call'[u] # None
        BY <2>1, <2>2
    <2> QED  BY <1>1, <2>1, <2>3 DEF slotVars
<1>4. ASSUME NEW t \in Threads, Proceed(t)
      PROVE  TypeOK'
    <2>1. /\ call[t] \in Calls
          /\ \E l \in {"idle", "waiting", "reading", "writing", "releasing", "leaving"} :
                 pc' = [pc EXCEPT ![t] = l]
          /\ UNCHANGED <<now, requests>>
          /\ call' \in [Threads -> Calls \cup {None}] /\ call'[t] \in Calls
          /\ \A u \in Threads \ {t} : call'[u] = call[u] /\ pc'[u] = pc[u]
        BY <1>4, ThreadStep
    <2> DEFINE s == call[t].session
    <2>2. /\ s \in Sessions /\ call[t].seen \in Nat /\ call[t].read \in Nat
        BY <2>1 DEF Calls
    <2>3. \A u \in Threads : pc'[u] # "idle" => call'[u] # None
        BY <2>1, NoneAssumption
    <2>4. \/ revision' = revision
          \/ revision' = [revision EXCEPT ![s] = call[t].seen + 1]
          \/ revision' = [revision EXCEPT ![s] = call[t].seen]
        BY <1>4 DEF Proceed, Put, LookupFails, Get, Enter, Acquire, ReadSession,
               RefuseAction, WriteSession, RemoveSession, Release, Leave, slotVars
    <2>5. insertedAt' = insertedAt \/ insertedAt' = [insertedAt EXCEPT ![s] = call[t].read]
        BY <1>4 DEF Proceed, Put, LookupFails, Get, Enter, Acquire, ReadSession,
               RefuseAction, WriteSession, RemoveSession, Release, Leave, slotVars
    <2>6. \/ lockedBy' = lockedBy
          \/ lockedBy' = [lockedBy EXCEPT ![s] = t]
          \/ lockedBy' = [lockedBy EXCEPT ![s] = None]
        BY <1>4 DEF Proceed, Put, LookupFails, Get, Enter, Acquire, ReadSession,
               RefuseAction, WriteSession, RemoveSession, Release, Leave, slotVars
    <2>7. closed' = closed \/ closed' = closed \cup {s}
        BY <1>4 DEF Proceed, Put, LookupFails, Get, Enter, Acquire, ReadSession,
               RefuseAction, WriteSession, RemoveSession, Release, Leave
    <2>8. \/ inUse' = inUse
          \/ inUse' = [inUse EXCEPT ![s] = @ + 1]
          \/ inUse' = [inUse EXCEPT ![s] = @ - 1]
        BY <1>4 DEF Proceed, Put, LookupFails, Get, Enter, Acquire, ReadSession,
               RefuseAction, WriteSession, RemoveSession, Release, Leave, slotVars
    <2>9. inUse' \in [Sessions -> Nat]
        <3>1. \A u \in Sessions : inUse'[u] = Cardinality(Using(u)')
            BY CountsStep DEF InUseCounts
        <3>2. \A u \in Sessions : inUse'[u] \in Nat
            <4>1. \A u : Using(u)' \in SUBSET Threads
                BY DEF Using
            <4>2. \A u : Cardinality(Using(u)') \in Nat
                BY <4>1, FS_Subset, FS_CardinalityType, ThreadsAssumption
            <4> QED  BY <3>1, <4>2
        <3>3. inUse' = [u \in Sessions |-> inUse'[u]]
            BY <2>8
        <3> QED  BY <3>2, <3>3
    <2>10. revision' \in [Sessions -> Nat]
        <3>1. call[t].seen + 1 \in Nat /\ call[t].seen \in Nat
            BY <2>2
        <3>2. \E n \in Nat : revision' = revision \/ revision' = [revision EXCEPT ![s] = n]
            BY <2>4, <3>1
        <3> QED  BY <3>2
    <2>11. /\ insertedAt' \in [Sessions -> Nat \cup {None}]
           /\ lockedBy' \in [Sessions -> Threads \cup {None}]
        <3> HIDE DEF Inv
        <3>1. /\ insertedAt \in [Sessions -> Nat \cup {None}]
              /\ lockedBy \in [Sessions -> Threads \cup {None}]
            BY DEF Inv
        <3>2. insertedAt' \in [Sessions -> Nat \cup {None}]
            BY <2>2, <2>5, <3>1
        <3>3. lockedBy' \in [Sessions -> Threads \cup {None}]
            BY <2>6, <3>1
        <3> QED  BY <3>2, <3>3
    <2>12. pc' \in [Threads -> {"idle", "entering", "waiting", "reading", "writing",
                                "releasing", "leaving"}]
        BY <2>1
    <2> QED  BY <1>1, <2>1, <2>2, <2>3, <2>7, <2>9, <2>10, <2>11, <2>12
<1> QED
    BY <1>2, <1>3, <1>4 DEF Next

\* Every step leaves pending ids fresh.
LEMMA FreshStep ==
    ASSUME Inv, [Next]_vars
    PROVE  FreshIds'
<1> USE DEF Inv, TypeOK
<1>1. Stored' \cup Expired' \cup closed' \subseteq Created' /\ Created \subseteq Created'
    BY NextMaps DEF MapsStep
<1>2. CASE Tick \/ UNCHANGED vars
    <2>1. UNCHANGED <<pc, call, insertedAt>>
        BY <1>2 DEF Tick, vars, slotVars
    <2> QED  BY <1>1, <2>1 DEF FreshIds, Created
<1>3. ASSUME NEW t \in Threads, Arrive(t)
      PROVE  FreshIds'
    <2>1. PICK c \in Calls :
              /\ pc[t] = "idle" /\ pc' = [pc EXCEPT ![t] = "entering"]
              /\ call' = [call EXCEPT ![t] = c]
              /\ UNCHANGED <<now, entries, tombstones, slotVars, closed>>
              /\ IF c.kind = "open"
                 THEN /\ c.session \notin Created
                      /\ \A u \in Threads : call[u] # None => call[u].session # c.session
                 ELSE c.session \in Created
        BY <1>3, ArrivalStep
    <2>2. Created' = Created
        BY <2>1 DEF Created, slotVars
    <2>3. ASSUME NEW u \in Threads, pc'[u] # "idle"
          PROVE  IF call'[u].kind = "open"
                 THEN /\ call'[u].session \notin Created'
                      /\ \A v \in Threads \ {u} : pc'[v] # "idle" =>
                             call'[v].session # call'[u].session
                 ELSE call'[u].session \in Created'
        <3>1. CASE u = t
            BY <2>1, <2>2, <3>1
        <3>2. CASE u # t
            BY <2>1, <2>2, <2>3, <3>2 DEF FreshIds
        <3> QED  BY <3>1, <3>2
    <2>4. \A u \in Threads : pc'[u] \notin {"idle", "entering"} =>
              call'[u].kind \in {"act", "alternatives", "close"}
        BY <2>1 DEF FreshIds
    <2> QED  BY <1>1, <2>3, <2>4 DEF FreshIds
<1>4. ASSUME NEW t \in Threads, Proceed(t)
      PROVE  FreshIds'
    <2>1. /\ pc[t] # "idle" /\ call[t] \in Calls
          /\ call'[t].session = call[t].session /\ call'[t].kind = call[t].kind
          /\ \A u \in Threads \ {t} : call'[u] = call[u] /\ pc'[u] = pc[u]
        BY <1>4, ThreadStep
    <2>2. pc'[t] \notin {"idle", "entering"} => call[t].kind \in {"act", "alternatives", "close"}
        <3>1. CASE Put(t) \/ LookupFails(t) \/ Get(t) \/ Leave(t)
            BY <3>1 DEF Put, LookupFails, Get, Leave, Reply, Goto
        <3>2. CASE Enter(t)
            BY <2>1, <3>2 DEF Enter, LookupSucceeds, Calls, Kinds
        <3>3. CASE Acquire(t) \/ ReadSession(t) \/ RefuseAction(t) \/ WriteSession(t)
                     \/ RemoveSession(t) \/ Release(t)
            BY <3>3 DEF Acquire, ReadSession, RefuseAction, WriteSession, RemoveSession,
                   Release, FreshIds
        <3> QED  BY <1>4, <3>1, <3>2, <3>3 DEF Proceed
    <2>3. \/ Created' = Created
          \/ call[t].kind = "open" /\ pc'[t] = "idle" /\ Created' = Created \cup {call[t].session}
        <3>1. CASE Put(t)
            <4>1. /\ call[t].kind = "open" /\ pc' = [pc EXCEPT ![t] = "idle"]
                  /\ \/ insertedAt' = insertedAt
                     \/ insertedAt' = [insertedAt EXCEPT ![call[t].session] = call[t].read]
                BY <3>1 DEF Put, Reply, Goto
            <4>2. call[t].read # None /\ call[t].session \in Sessions /\ pc'[t] = "idle"
                BY <2>1, <4>1, NoneAssumption DEF Calls
            <4> QED  BY <4>1, <4>2 DEF Created
        <3>2. CASE LookupFails(t) \/ Get(t) \/ Enter(t) \/ Acquire(t) \/ ReadSession(t)
                     \/ RefuseAction(t) \/ WriteSession(t) \/ RemoveSession(t)
                     \/ Release(t) \/ Leave(t)
            BY <3>2 DEF LookupFails, Get, Enter, Acquire, ReadSession, RefuseAction,
                   WriteSession, RemoveSession, Release, Leave, Created, slotVars
        <3> QED  BY <1>4, <3>1, <3>2 DEF Proceed
    <2>4. ASSUME NEW u \in Threads, pc'[u] # "idle"
          PROVE  IF call'[u].kind = "open"
                 THEN /\ call'[u].session \notin Created'
                      /\ \A v \in Threads \ {u} : pc'[v] # "idle" =>
                             call'[v].session # call'[u].session
                 ELSE call'[u].session \in Created'
        <3>1. \A v \in Threads : /\ pc'[v] # "idle" => pc[v] # "idle"
                                 /\ call'[v].session = call[v].session
                                 /\ call'[v].kind = call[v].kind
            BY <2>1
        <3>2. IF call[u].kind = "open"
              THEN /\ call[u].session \notin Created
                   /\ \A v \in Threads \ {u} : pc[v] # "idle" => call[v].session # call[u].session
              ELSE call[u].session \in Created
            BY <2>4, <3>1 DEF FreshIds
        <3>3. CASE Created' = Created
            BY <3>1, <3>2, <3>3
        <3>4. CASE call[t].kind = "open" /\ pc'[t] = "idle"
                      /\ Created' = Created \cup {call[t].session}
            <4>1. \/ u # t /\ call[t].session # call[u].session
                  \/ call[u].kind # "open"
                BY <2>1, <2>4, <3>2, <3>4
            <4> QED  BY <3>1, <3>2, <3>4, <4>1
        <3> QED  BY <2>3, <3>3, <3>4
    <2>5. \A u \in Threads : pc'[u] \notin {"idle", "entering"} =>
              call'[u].kind \in {"act", "alternatives", "close"}
        BY <2>1, <2>2 DEF FreshIds
    <2> QED  BY <1>1, <2>4, <2>5 DEF FreshIds
<1> QED
    BY <1>2, <1>3, <1>4 DEF Next

\* Two threads are never inside the same slot.
LEMMA OneInside ==
    ASSUME Inv, NEW t \in Threads, NEW u \in Threads, Inside(t), Inside(u),
           call[t].session = call[u].session
    PROVE  t = u
BY DEF Inv, LockInv, LockOK

\* Every step keeps what the holder of a lock knows.
LEMMA LockStep ==
    ASSUME Inv, [Next]_vars
    PROVE  LockInv'
<1> USE DEF Inv, TypeOK
<1>1. CASE Tick \/ UNCHANGED vars
    <2>1. UNCHANGED <<pc, call, lockedBy, revision>>
        BY <1>1 DEF Tick, vars, slotVars
    <2> QED  BY <2>1 DEF LockInv, LockOK, Inside
<1>2. ASSUME NEW t \in Threads, Arrive(t)
      PROVE  LockInv'
    <2>1. PICK c \in Calls :
              /\ pc[t] = "idle" /\ pc' = [pc EXCEPT ![t] = "entering"]
              /\ call' = [call EXCEPT ![t] = c] /\ c.answer = "none"
              /\ UNCHANGED slotVars
        BY <1>2, ArrivalStep
    <2> QED  BY <2>1 DEF LockInv, LockOK, Inside, slotVars
<1>3. ASSUME NEW t \in Threads, Proceed(t)
      PROVE  LockInv'
    <2>1. /\ pc[t] # "idle" /\ call[t] \in Calls
          /\ call'[t] \in Calls /\ call'[t].session = call[t].session
          /\ \A u \in Threads \ {t} : call'[u] = call[u] /\ pc'[u] = pc[u]
        BY <1>3, ThreadStep
    <2> DEFINE s == call[t].session
    <2>2. s \in Sessions /\ t # None
        BY <2>1, NoneAssumption DEF Calls
    <2>3. CASE Put(t) \/ LookupFails(t) \/ Get(t) \/ Leave(t)
        <3>1. pc'[t] = "idle" /\ UNCHANGED <<revision, lockedBy>>
            BY <2>3 DEF Put, LookupFails, Get, Leave, Reply, Goto, slotVars
        <3>2. LockOK(t)'
            BY <3>1 DEF LockOK, Inside
        <3>3. \A u \in Threads \ {t} : LockOK(u)'
            BY <2>1, <3>1 DEF LockInv, LockOK, Inside
        <3> QED  BY <3>2, <3>3 DEF LockInv
    <2>4. CASE Enter(t)
        <3>1. /\ pc[t] = "entering" /\ pc'[t] = "waiting"
              /\ UNCHANGED <<revision, lockedBy, call>>
            BY <2>4 DEF Enter, LookupSucceeds, Goto
        <3> QED  BY <2>1, <3>1 DEF LockInv, LockOK, Inside
    <2>5. CASE Acquire(t)
        <3>1. /\ pc[t] = "waiting" /\ pc'[t] = "reading" /\ lockedBy[s] = None
              /\ lockedBy' = [lockedBy EXCEPT ![s] = t]
              /\ UNCHANGED <<revision, call>>
            BY <2>5 DEF Acquire, Goto
        <3>2. ASSUME NEW u \in Threads \ {t}, Inside(u)
              PROVE  lockedBy'[call[u].session] = u
            <4>1. lockedBy[call[u].session] = u /\ u # None
                BY <3>2, NoneAssumption DEF LockInv, LockOK, Inside
            <4> QED  BY <3>1, <4>1
        <3>3. \A u \in Threads : pc'[u] \in {"reading", "writing", "releasing"} =>
                  lockedBy'[call'[u].session] = u
            BY <2>1, <2>2, <3>1, <3>2 DEF Inside
        <3> QED  BY <2>1, <3>1, <3>3, SMTT(40) DEF LockInv, LockOK, Inside
    <2>6. CASE ReadSession(t)
        <3>1. /\ pc[t] = "reading" /\ UNCHANGED <<lockedBy, revision>>
              /\ \/ /\ call[t].expected \in {None, revision[s]}
                    /\ call' = [call EXCEPT ![t].seen = revision[s]]
                    /\ pc'[t] = "writing"
                 \/ pc'[t] = "releasing"
            BY <2>6 DEF ReadSession, Goto, slotVars
        <3>2. pc'[t] = "writing" =>
                  /\ call'[t].seen = revision[s] /\ call'[t].expected \in {None, revision[s]}
                  /\ call'[t].answer = "none"
            BY <2>1, <3>1 DEF LockInv, LockOK, Inside, Calls
        <3>3. LockOK(t)'
            BY <2>1, <3>1, <3>2 DEF LockInv, LockOK, Inside
        <3>4. \A u \in Threads \ {t} : LockOK(u)'
            BY <2>1, <3>1 DEF LockInv, LockOK, Inside
        <3> QED  BY <3>3, <3>4 DEF LockInv
    <2>7. CASE RefuseAction(t) \/ RemoveSession(t)
        <3>1. /\ pc[t] = "writing" /\ pc'[t] = "releasing" /\ UNCHANGED <<lockedBy, revision>>
            BY <2>7 DEF RefuseAction, RemoveSession, Goto, slotVars
        <3>2. LockOK(t)'
            BY <2>1, <3>1 DEF LockInv, LockOK, Inside
        <3>3. \A u \in Threads \ {t} : LockOK(u)'
            BY <2>1, <3>1 DEF LockInv, LockOK, Inside
        <3> QED  BY <3>2, <3>3 DEF LockInv
    <2>8. CASE WriteSession(t)
        <3>1. /\ pc[t] = "writing" /\ pc'[t] = "releasing" /\ UNCHANGED lockedBy
              /\ \A r \in Sessions \ {s} : revision'[r] = revision[r]
            BY <2>8 DEF WriteSession, Goto
        <3>2. \A u \in Threads \ {t} : pc[u] = "writing" =>
                  call[u].session \in Sessions \ {s}
            BY <3>1, OneInside DEF Inside, Calls
        <3>3. LockOK(t)'
            BY <2>1, <3>1 DEF LockInv, LockOK, Inside
        <3>4. ASSUME NEW u \in Threads \ {t}
              PROVE  LockOK(u)'
            <4>1. call'[u] = call[u] /\ pc'[u] = pc[u] /\ LockOK(u)
                BY <2>1 DEF LockInv, LockOK, Inside
            <4>2. pc[u] = "writing" => revision'[call[u].session] = revision[call[u].session]
                BY <3>1, <3>2
            <4> QED  BY <3>1, <4>1, <4>2 DEF LockOK, Inside
        <3> QED  BY <3>3, <3>4 DEF LockInv
    <2>9. CASE Release(t)
        <3>1. /\ pc[t] = "releasing" /\ pc'[t] = "leaving"
              /\ \A r \in Sessions \ {s} : lockedBy'[r] = lockedBy[r]
              /\ UNCHANGED <<revision, call>>
            BY <2>9 DEF Release, Goto
        <3>2. \A u \in Threads \ {t} : Inside(u) => call[u].session \in Sessions \ {s}
            BY <3>1, OneInside DEF Inside, Calls
        <3>3. \A u \in Threads : pc'[u] \in {"reading", "writing", "releasing"} =>
                  lockedBy'[call'[u].session] = u
            BY <2>1, <3>1, <3>2 DEF LockInv, LockOK, Inside
        <3> QED  BY <2>1, <3>1, <3>3 DEF LockInv, LockOK, Inside
    <2> QED
        BY <1>3, <2>3, <2>4, <2>5, <2>6, <2>7, <2>8, <2>9 DEF Proceed
<1> QED
    BY <1>1, <1>2, <1>3 DEF Next

\* Inv holds whatever calls race.
THEOREM InvHolds == Spec => []Inv
<1>1. Init => Inv
    BY InitInv
<1>2. Inv /\ [Next]_vars => Inv'
    <2> SUFFICES ASSUME Inv, [Next]_vars
                 PROVE  Inv'
        OBVIOUS
    <2>1. StoreBounded' /\ ClosedForgotten'
        BY NextMaps DEF MapsStep, MapsOK
    <2> QED  BY <2>1, TypesStep, FreshStep, CountsStep, LockStep DEF Inv
<1> QED
    BY <1>1, <1>2, PTL DEF Spec

\* Types are kept by every step of every call.
THEOREM TypeCorrect == Spec => []TypeOK
<1>1. Inv => TypeOK
    BY DEF Inv
<1> QED
    BY <1>1, InvHolds, PTL

\* The maps stay within their capacity and apart.
THEOREM StoreStaysBounded == Spec => []StoreBounded
<1>1. Inv => StoreBounded
    BY DEF Inv
<1> QED
    BY <1>1, InvHolds, PTL

\* in_use is the number of calls that hold or await the slot.
THEOREM CountsAreExact == Spec => []InUseCounts
<1>1. Inv => InUseCounts
    BY DEF Inv
<1> QED
    BY <1>1, InvHolds, PTL

\* A closed session leaves no trace.
THEOREM ClosedStaysForgotten == Spec => []ClosedForgotten
<1>1. Inv => ClosedForgotten
    BY DEF Inv
<1> QED
    BY <1>1, InvHolds, PTL

\* A session that left the store never returns.
THEOREM GoneStaysGone == Spec => GoneForGood
<1> DEFINE gone == \A s \in Created : s \notin Stored => s \notin Stored'
<1>1. Inv /\ [Next]_vars => gone
    BY NextMaps DEF MapsStep
<1>2. Inv /\ [Next]_vars => [gone]_vars
    BY <1>1
<1> QED
    BY <1>2, InvHolds, PTL DEF Spec, GoneForGood

\* Only its own users take a session in use out of the store.
THEOREM BusyStays == Spec => BusySessionsStay
<1> DEFINE stays ==
        \A s \in Stored \ Stored' : Using(s) # {} =>
            \E t \in Using(s) : pc'[t] # pc[t] /\ (s \in closed' \/ Using(s) = {t})
<1>1. ASSUME Inv, [Next]_vars, NEW s \in Stored \ Stored', Using(s) # {}
      PROVE  \E t \in Using(s) : pc'[t] # pc[t] /\ (s \in closed' \/ Using(s) = {t})
    <2> USE DEF Inv, TypeOK
    <2>1. s \in Sessions /\ IsInjective(entries)
        BY <1>1, ElementOfSeq DEF Stored, ToSet, StoreBounded
    <2>2. inUse[s] # 0
        BY <1>1, <2>1, UsingFinite, FS_EmptySet DEF InUseCounts
    <2>3. entries' # entries
        BY <1>1 DEF Stored
    <2>4. \A v : ToSet(RemoveFirst(entries, v)) = Stored \ {v}
        BY <2>1, <1>1, RemoveFirstProperties DEF Stored
    <2>5. PICK t \in Threads : Proceed(t)
        BY <1>1, <2>3 DEF Next, vars, Tick, Arrive, BeginOpen, BeginGet, BeginLocked, Begin
    <2>6. CASE Put(t)
        <3> DEFINE idle == {i \in DOMAIN entries : inUse[entries[i]] = 0}
                   victim == CHOOSE i \in idle : \A j \in idle : i <= j
                   full == Len(entries) >= MaxEntries
                   kept == IF full THEN RemoveFirst(entries, entries[victim]) ELSE entries
        <3>1. entries' = Append(kept, call[t].session) /\ ~(full /\ idle = {})
            BY <2>3, <2>6 DEF Put
        <3>2. s \in ToSet(kept) => s \in Stored'
            <4>1. kept \in Seq(Sessions)
                <5>1. \A v : RemoveFirst(entries, v) \in Seq(Sessions)
                    BY <1>1, <2>1, RemoveFirstProperties
                <5> QED  BY <1>1, <5>1
            <4>2. call[t].session \in Sessions
                BY <1>1, <2>6 DEF Put, Calls
            <4> HIDE DEF kept
            <4>3. /\ Append(kept, call[t].session) \in Seq(Sessions)
                  /\ Len(Append(kept, call[t].session)) = Len(kept) + 1
                  /\ \A i \in 1..Len(kept) : Append(kept, call[t].session)[i] = kept[i]
                BY <4>1, <4>2, AppendProperties
            <4>4. DOMAIN kept = 1..Len(kept) /\ Len(kept) \in Nat
                  /\ DOMAIN entries' = 1..(Len(kept) + 1)
                BY <3>1, <4>1, <4>3, LenProperties
            <4> QED  BY <3>1, <4>3, <4>4 DEF Stored, ToSet
        <3>3. full /\ s = entries[victim]
            BY <1>1, <2>4, <3>2 DEF Stored
        <3>4. victim \in idle
            <4>1. idle \subseteq Nat /\ idle # {}
                <5>1. DOMAIN entries = 1..Len(entries) /\ Len(entries) \in Nat
                    BY <1>1, LenProperties
                <5> QED  BY <3>1, <3>3, <5>1
            <4> HIDE DEF idle
            <4>2. \E i \in idle : \A j \in idle : i <= j
                BY <4>1, LeastNatural
            <4> QED  BY <4>2
        <3>5. inUse[entries[victim]] = 0
            BY <3>4
        <3> HIDE DEF victim
        <3> QED  BY <2>2, <3>3, <3>5
    <2>7. CASE LookupFails(t)
        <3>1. inUse[call[t].session] = 0 /\ entries' = RemoveFirst(entries, call[t].session)
            BY <2>3, <2>7 DEF LookupFails, Expire
        <3>2. s = call[t].session
            BY <1>1, <2>4, <3>1 DEF Stored
        <3> QED  BY <2>2, <3>1, <3>2
    <2>8. CASE Get(t) \/ Enter(t)
        <3>1. /\ entries' = Touch(entries, call[t].session) /\ call[t].session \in ToSet(entries)
            BY <2>8 DEF Get, Enter, LookupSucceeds, Stored
        <3>2. Stored' = Stored
            BY <1>1, <2>1, <3>1, TouchMaps DEF Stored
        <3> QED  BY <1>1, <3>2
    <2>9. CASE Acquire(t) \/ ReadSession(t) \/ RefuseAction(t) \/ WriteSession(t) \/ Release(t)
        BY <2>3, <2>9 DEF Acquire, ReadSession, RefuseAction, WriteSession, Release
    <2>10. CASE RemoveSession(t)
        <3>1. /\ entries' = RemoveFirst(entries, call[t].session)
              /\ closed' = closed \cup {call[t].session}
              /\ pc[t] = "writing" /\ pc'[t] # pc[t]
            BY <1>1, <2>10 DEF RemoveSession, Goto
        <3>2. s = call[t].session
            BY <1>1, <2>4, <3>1 DEF Stored
        <3>3. t \in Using(s)
            BY <3>1, <3>2 DEF Using
        <3> QED  BY <3>1, <3>2, <3>3
    <2>11. CASE Leave(t)
        <3>1. /\ entries' = RemoveFirst(entries, call[t].session)
              /\ inUse[call[t].session] = 1
              /\ pc[t] = "leaving" /\ pc'[t] # pc[t]
            BY <1>1, <2>3, <2>11 DEF Leave, Expire, Goto
        <3>2. s = call[t].session
            BY <1>1, <2>4, <3>1 DEF Stored
        <3>3. t \in Using(s)
            BY <3>1, <3>2 DEF Using
        <3>4. Cardinality(Using(s)) = 1 /\ IsFiniteSet(Using(s))
            BY <1>1, <2>1, <3>1, <3>2, UsingFinite DEF InUseCounts
        <3>5. \E x : Using(s) = {x}
            BY <3>4, FS_Singleton
        <3> QED  BY <3>1, <3>3, <3>5
    <2> QED
        BY <2>5, <2>6, <2>7, <2>8, <2>9, <2>10, <2>11 DEF Proceed
<1>2. Inv /\ [Next]_vars => [stays]_vars
    BY <1>1
<1> QED
    BY <1>2, InvHolds, PTL DEF Spec, BusySessionsStay

-----------------------------------------------------------------------------
(* Refinement.  A call takes effect when it fails its lookup or its        *)
(* comparison, or when it writes, removes, puts or reads; the rest of its  *)
(* steps are invisible.                                                    *)

Requested == [t \in Threads |->
    IF call[t] = None THEN None
    ELSE [writes   |-> call[t].kind = "act",
          session  |-> call[t].session,
          expected |-> call[t].expected]]

Answered == [t \in Threads |-> IF call[t] = None THEN "none" ELSE call[t].answer]

\* A step that only answers a call changes its answer alone.
LEMMA AnswersOnly ==
    ASSUME Inv, NEW t \in Threads, call[t] \in Calls, NEW c \in Calls,
           c.kind = call[t].kind, c.session = call[t].session, c.expected = call[t].expected,
           call' = [call EXCEPT ![t] = c]
    PROVE  /\ Requested' = Requested
           /\ Answered' = [Answered EXCEPT ![t] = c.answer]
<1>1. call \in [Threads -> Calls \cup {None}] /\ c # None /\ call[t] # None
    BY NoneAssumption DEF Inv, TypeOK
<1>2. \A u \in Threads : call'[u] = IF u = t THEN c ELSE call[u]
    BY <1>1
<1> QED
    BY <1>1, <1>2 DEF Requested, Answered

\* So does Answer.
LEMMA AnswerIs ==
    ASSUME Inv, NEW t \in Threads, call[t] \in Calls, NEW reply \in Answers, Answer(t, reply)
    PROVE  /\ Requested' = Requested
           /\ Answered' = [Answered EXCEPT ![t] = reply]
<1> DEFINE c == [call[t] EXCEPT !.answer = reply]
<1>1. /\ c \in Calls /\ c.kind = call[t].kind /\ c.session = call[t].session
      /\ c.expected = call[t].expected /\ c.answer = reply
    BY DEF Calls
<1>2. call' = [call EXCEPT ![t] = c]
    BY DEF Answer
<1> HIDE DEF c
<1> QED
    BY <1>1, <1>2, AnswersOnly

\* What a call asks of the register.
LEMMA RequestOf ==
    ASSUME Inv, NEW t \in Threads, call[t] \in Calls
    PROVE  /\ Requested[t] = [writes   |-> call[t].kind = "act",
                              session  |-> call[t].session,
                              expected |-> call[t].expected]
           /\ Requested[t] \in Register!Requests
           /\ Answered[t] = call[t].answer
<1>1. call[t] # None
    BY NoneAssumption
<1>2. call[t].session \in Sessions /\ call[t].expected \in Nat \cup {None}
    BY DEF Calls
<1> QED
    BY <1>1, <1>2 DEF Requested, Answered, Register!Requests

\* A request that arrives.
LEMMA ArrivalInvokes ==
    ASSUME Inv, NEW t \in Threads, Arrive(t)
    PROVE  Register!Invoke(t)
<1>1. PICK c \in Calls :
          /\ call' = [call EXCEPT ![t] = c] /\ c.answer = "none"
          /\ UNCHANGED slotVars
    BY ArrivalStep
<1>2. c # None /\ call \in [Threads -> Calls \cup {None}]
    BY NoneAssumption DEF Inv, TypeOK
<1>3. \A u \in Threads : call'[u] = IF u = t THEN c ELSE call[u]
    BY <1>1, <1>2
<1>4. Requested'[t] = [writes |-> c.kind = "act", session |-> c.session, expected |-> c.expected]
    BY <1>2, <1>3 DEF Requested
<1>5. c.session \in Sessions /\ c.expected \in Nat \cup {None}
    BY DEF Calls
<1>6. Requested'[t] \in Register!Requests
    BY <1>4, <1>5 DEF Register!Requests
<1>7. Requested' = [Requested EXCEPT ![t] = Requested'[t]]
    BY <1>3 DEF Requested
<1>8. Answered' = [Answered EXCEPT ![t] = "none"]
    BY <1>1, <1>2, <1>3 DEF Answered
<1>9. UNCHANGED revision
    BY <1>1 DEF slotVars
<1> QED
    BY <1>6, <1>7, <1>8, <1>9 DEF Register!Invoke, Requested, Answered

\* A call that takes effect as it is answered, one that is answered only, and
\* one that does neither.
LEMMA AcceptIs ==
    ASSUME Inv, NEW t \in Threads, call[t] \in Calls, call[t].answer = "none",
           call[t].expected \in {None, revision[call[t].session]},
           revision' = IF call[t].kind = "act"
                       THEN [revision EXCEPT ![call[t].session] = @ + 1] ELSE revision,
           Requested' = Requested, Answered' = [Answered EXCEPT ![t] = "ok"]
    PROVE  Register!Accept(t)
<1> DEFINE r == Requested[t]
<1>1. r = [writes |-> call[t].kind = "act", session |-> call[t].session,
           expected |-> call[t].expected]
    BY RequestOf, Zenon
<1>2. r \in Register!Requests /\ Answered[t] = "none"
    BY RequestOf, Zenon
<1> HIDE DEF r
<1>3. r.session = call[t].session /\ r.expected = call[t].expected
    BY <1>1, Zenon
<1>4. r.writes = (call[t].kind = "act")
    BY <1>1, Zenon
<1>5. r.expected \in {None, revision[r.session]}
    BY <1>3
<1>6. revision' = IF r.writes THEN [revision EXCEPT ![r.session] = @ + 1] ELSE revision
    BY <1>3, <1>4, Zenon
<1> QED
    BY <1>2, <1>5, <1>6 DEF Register!Accept, r, Requested, Answered

\* Answering a stale request with a conflict is a conflict of the register.
LEMMA ConflictIs ==
    ASSUME Inv, NEW t \in Threads, call[t] \in Calls, call[t].answer = "none",
           call[t].expected \notin {None, revision[call[t].session]},
           revision' = revision,
           Requested' = Requested, Answered' = [Answered EXCEPT ![t] = "conflict"]
    PROVE  Register!Conflict(t)
    BY RequestOf DEF Register!Conflict, Requested, Answered

\* Refusing a request is a refusal of the register.
LEMMA RefuseIs ==
    ASSUME Inv, NEW t \in Threads, call[t] \in Calls, call[t].answer = "none",
           NEW reason \in {"expired", "missing", "busy", "refused"},
           revision' = revision,
           Requested' = Requested, Answered' = [Answered EXCEPT ![t] = reason]
    PROVE  Register!Refuse(t)
    BY RequestOf DEF Register!Refuse, Requested, Answered

\* The register does not see what changes neither revisions, requests nor answers.
LEMMA InvisibleIs ==
    ASSUME revision' = revision, Requested' = Requested, Answered' = Answered
    PROVE  UNCHANGED Register!registerVars
    BY DEF Register!registerVars, Requested, Answered

\* open() and get() name no revision.
ExpectationsOK ==
    \A t \in Threads : call[t] # None /\ call[t].kind \in {"open", "get"} => call[t].expected = None

\* What calls expect stays as the register assumes.
LEMMA ExpectationsStep ==
    ASSUME Inv, ExpectationsOK, [Next]_vars
    PROVE  ExpectationsOK'
<1> USE DEF ExpectationsOK
<1>1. CASE Tick \/ UNCHANGED vars
    BY <1>1 DEF Tick, vars
<1>2. ASSUME NEW t \in Threads, Arrive(t)
      PROVE  ExpectationsOK'
    <2>1. PICK c \in Calls :
              /\ call' = [call EXCEPT ![t] = c]
              /\ c.kind \in {"open", "get"} => c.expected = None
        BY <1>2, ArrivalStep
    <2>2. \A u \in Threads : call'[u] = IF u = t THEN c ELSE call[u]
        BY <2>1 DEF Inv, TypeOK
    <2> QED  BY <2>1, <2>2
<1>3. ASSUME NEW t \in Threads, Proceed(t)
      PROVE  ExpectationsOK'
    <2>1. /\ call[t] \in Calls /\ call'[t].kind = call[t].kind
          /\ call'[t].expected = call[t].expected
          /\ \A u \in Threads \ {t} : call'[u] = call[u]
        BY <1>3, ThreadStep
    <2>2. call[t] # None
        BY <2>1, NoneAssumption
    <2> QED  BY <2>1, <2>2
<1> QED
    BY <1>1, <1>2, <1>3 DEF Next

\* Whatever a call does next is a step of the register or invisible to it.
LEMMA ProceedIsRegister ==
    ASSUME Inv, ExpectationsOK, NEW t \in Threads, Proceed(t)
    PROVE  \/ Register!Accept(t) \/ Register!Conflict(t) \/ Register!Refuse(t)
           \/ UNCHANGED Register!registerVars
<1> DEFINE s == call[t].session
<1>1. /\ call[t] \in Calls /\ call[t] # None /\ s \in Sessions
      /\ revision \in [Sessions -> Nat]
    BY ThreadStep, NoneAssumption DEF Calls, Inv, TypeOK
<1>2. LockOK(t) /\ FreshIds
    BY DEF Inv, LockInv
<1>3. CASE Put(t)
    <2>1. /\ pc[t] = "entering" /\ call[t].kind = "open" /\ revision' = revision
          /\ Answer(t, "ok") \/ Answer(t, "busy")
        BY <1>3 DEF Put, Reply
    <2>2. call[t].answer = "none" /\ call[t].expected = None
        BY <1>1, <1>2, <2>1 DEF LockOK, ExpectationsOK
    <2>3. CASE Answer(t, "ok")
        BY <1>1, <2>1, <2>2, <2>3, AnswerIs, AcceptIs DEF Answers
    <2>4. CASE Answer(t, "busy")
        BY <1>1, <2>1, <2>2, <2>4, AnswerIs, RefuseIs DEF Answers
    <2> QED  BY <2>1, <2>3, <2>4
<1>4. CASE LookupFails(t)
    <2>1. /\ pc[t] = "entering" /\ revision' = revision
          /\ Answer(t, "expired") \/ Answer(t, "missing")
        BY <1>4 DEF LookupFails, Reply, slotVars
    <2>2. call[t].answer = "none"
        BY <1>2, <2>1 DEF LockOK
    <2>3. CASE Answer(t, "expired")
        BY <1>1, <2>1, <2>2, <2>3, AnswerIs, RefuseIs DEF Answers
    <2>4. CASE Answer(t, "missing")
        BY <1>1, <2>1, <2>2, <2>4, AnswerIs, RefuseIs DEF Answers
    <2> QED  BY <2>1, <2>3, <2>4
<1>5. CASE Get(t)
    <2>1. /\ pc[t] = "entering" /\ call[t].kind = "get" /\ revision' = revision
          /\ call' = [call EXCEPT ![t].seen = revision[s], ![t].answer = "ok"]
        BY <1>5 DEF Get, LookupSucceeds, slotVars
    <2>2. call[t].answer = "none" /\ call[t].expected = None
        BY <1>1, <1>2, <2>1 DEF LockOK, ExpectationsOK
    <2> DEFINE c == [call[t] EXCEPT !.seen = revision[s], !.answer = "ok"]
    <2>3. /\ c \in Calls /\ c.kind = call[t].kind /\ c.session = call[t].session
          /\ c.expected = call[t].expected /\ c.answer = "ok"
        BY <1>1 DEF Calls, Answers
    <2>4. call' = [call EXCEPT ![t] = c]
        BY <2>1
    <2> HIDE DEF c
    <2>5. Requested' = Requested /\ Answered' = [Answered EXCEPT ![t] = "ok"]
        BY <1>1, <2>3, <2>4, AnswersOnly
    <2> QED  BY <1>1, <2>1, <2>2, <2>5, AcceptIs
<1>6. CASE Enter(t) \/ Acquire(t) \/ Release(t) \/ Leave(t)
    <2>1. revision' = revision /\ call' = call
        BY <1>6 DEF Enter, Acquire, Release, Leave
    <2> QED  BY <2>1, InvisibleIs DEF Requested, Answered
<1>7. CASE ReadSession(t)
    <2>1. call[t].answer = "none" /\ revision' = revision
        BY <1>2, <1>7 DEF ReadSession, LockOK, slotVars
    <2>2. CASE call[t].expected \notin {None, revision[s]} /\ Answer(t, "conflict")
        BY <1>1, <2>1, <2>2, AnswerIs, ConflictIs DEF Answers
    <2>3. CASE call' = [call EXCEPT ![t].seen = revision[s]]
        <3> DEFINE c == [call[t] EXCEPT !.seen = revision[s]]
        <3>1. /\ c \in Calls /\ c.kind = call[t].kind /\ c.session = call[t].session
              /\ c.expected = call[t].expected /\ c.answer = "none"
            BY <1>1, <2>1 DEF Calls
        <3>2. call' = [call EXCEPT ![t] = c]
            BY <2>3
        <3> HIDE DEF c
        <3>3. Requested' = Requested /\ Answered' = [Answered EXCEPT ![t] = "none"]
            BY <1>1, <3>1, <3>2, AnswersOnly
        <3>4. Answered' = Answered
            BY <1>1, <2>1, <3>3 DEF Answered
        <3> QED  BY <2>1, <3>3, <3>4, InvisibleIs
    <2> QED  BY <1>7, <2>2, <2>3 DEF ReadSession
<1>8. CASE RefuseAction(t)
    <2>1. call[t].answer = "none" /\ revision' = revision /\ Answer(t, "refused")
        BY <1>2, <1>8 DEF RefuseAction, LockOK, slotVars
    <2> QED  BY <1>1, <2>1, AnswerIs, RefuseIs DEF Answers
<1>9. CASE WriteSession(t)
    <2>1. /\ pc[t] = "writing" /\ Answer(t, "ok")
          /\ revision' = [revision EXCEPT ![s] =
                 IF call[t].kind = "act" THEN call[t].seen + 1 ELSE call[t].seen]
        BY <1>9 DEF WriteSession
    <2>2. /\ call[t].answer = "none" /\ call[t].seen = revision[s]
          /\ call[t].expected \in {None, revision[s]}
        BY <1>2, <2>1 DEF LockOK
    <2>3. revision' = IF call[t].kind = "act" THEN [revision EXCEPT ![s] = @ + 1] ELSE revision
        BY <1>1, <2>1, <2>2
    <2> QED  BY <1>1, <2>1, <2>2, <2>3, AnswerIs, AcceptIs DEF Answers
<1>10. CASE RemoveSession(t)
    <2>1. /\ pc[t] = "writing" /\ call[t].kind = "close"
          /\ revision' = revision /\ Answer(t, "ok")
        BY <1>10 DEF RemoveSession, slotVars
    <2>2. call[t].answer = "none" /\ call[t].expected \in {None, revision[s]}
        BY <1>2, <2>1 DEF LockOK
    <2> QED  BY <1>1, <2>1, <2>2, AnswerIs, AcceptIs DEF Answers
<1> QED
    BY <1>3, <1>4, <1>5, <1>6, <1>7, <1>8, <1>9, <1>10 DEF Proceed

\* Concurrent calls are answered as by an atomic register of revisions: the
\* one of two requests that names an outdated revision is refused, whatever
\* the interleaving of their steps.
THEOREM StoreIsRegister == Spec => RegisterSpec
<1>1. Init => Register!Init /\ ExpectationsOK
    BY DEF Init, Register!Init, ExpectationsOK
<1>2. Inv /\ ExpectationsOK /\ [Next]_vars => ExpectationsOK'
    BY ExpectationsStep
<1>3. ASSUME Inv, ExpectationsOK, [Next]_vars
      PROVE  [Register!Next]_(Register!registerVars)
    <2>1. CASE Tick \/ UNCHANGED vars
        BY <2>1, InvisibleIs DEF Tick, vars, slotVars, Requested, Answered
    <2>2. ASSUME NEW t \in Threads, Arrive(t) \/ Proceed(t)
          PROVE  [Register!Next]_(Register!registerVars)
        BY <1>3, <2>2, ArrivalInvokes, ProceedIsRegister DEF Register!Next
    <2> QED  BY <1>3, <2>1, <2>2 DEF Next
<1>4. Inv /\ ExpectationsOK /\ [Next]_vars => [Register!Next]_(Register!registerVars)
    BY <1>3
<1> QED
    BY <1>1, <1>2, <1>4, InvHolds, PTL DEF Spec, RegisterSpec, Register!Spec
=============================================================================
