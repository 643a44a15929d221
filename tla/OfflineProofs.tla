----------------------------- MODULE OfflineProofs -----------------------------
(***************************************************************************)
(* What readers and operators can rely on while the offline jobs run.  The *)
(* first part is about the three protocols that replace published files,   *)
(* for any number of files, publications, failures and crashes: the old    *)
(* generation stays in one piece across target and backups (Merged) until  *)
(* the new one is whole; Phase says how far the publication under way has  *)
(* come.  The second part is about the stages that publish, for any number *)
(* of frames, videos, settings, frame stores, jobs and deaths: what a job  *)
(* under way has in hand belongs to the settings and the frame store it    *)
(* runs with, which cannot change before it ends.                          *)
(***************************************************************************)
EXTENDS Preparation, Publication, FiniteSetTheorems, FunctionTheorems, SequenceTheorems,
        WellFoundedInduction, TLAPS

-----------------------------------------------------------------------------
(* Publication: what its variables hold, and the inductive invariant.      *)

Steps == {"idle", "backup", "place", "undo", "restore", "clean"}
Contents == [Files -> Nat]
JobType == [step : Steps, left : SUBSET Files, touched : SUBSET Files, existing : SUBSET Files,
            base : Contents]

TypeOK ==
    /\ kind \in Kinds
    /\ target \in Contents /\ backup \in Contents
    /\ work \in JobType
    /\ {count, faults, crashes, last} \subseteq Nat /\ broken \in BOOLEAN
    /\ Doing("idle") => work = NoWork
    /\ ~Doing("idle") => count # 0 /\ work.existing = Here(work.base)
    /\ work.step \in {"backup", "place", "clean", "undo"} => work.left # {}

\* When the old generation can be trusted to survive: always for bundles, until a
\* recovery failed for directories, and for transcripts until a process died as well.
Sound ==
    \/ kind = "bundle"
    \/ kind = "directory" /\ ~broken
    \/ kind = "transcript" /\ ~broken /\ crashes = 0

\* What target and backups amount to for the operator.
Merged ==
    IF Whole(target) THEN target
    ELSE [f \in Files |-> IF backup[f] = 0 THEN target[f] ELSE backup[f]]

\* The newest generation, or data without a manifest before there is one.
Holds(files) == IF last = 0 THEN files[Manifest] = 0 ELSE files = [f \in Files |-> last]

Solid(files) == files = Absent \/ Whole(files)

Kept ==
    /\ Holds(Merged)
    /\ target[Manifest] # 0 /\ ~Whole(target) => \A f \in Files : target[f] = 0 \/ backup[f] = 0
    /\ kind = "directory" => Whole(target) \/ (target = Absent /\ Solid(backup))

\* How far a publication of the old generation base has come.
Phase ==
    /\ Doing("idle") => Kept /\ (kind = "transcript" => backup = Absent)
    /\ work.step \in {"backup", "place", "undo", "restore"} =>
          Holds(work.base) /\ (kind = "directory" => Solid(work.base))
    /\ Doing("backup") =>
          /\ work.left \subseteq work.existing /\ work.touched = {}
          /\ \A f \in Files :
                IF f \in work.existing \ work.left THEN target[f] = 0 /\ backup[f] = work.base[f]
                ELSE target[f] = work.base[f] /\ backup[f] = 0
          /\ kind = "directory" => work.left = work.existing
    /\ Doing("place") =>
          /\ backup = work.base /\ Manifest \in work.left /\ work.touched = Files \ work.left
          /\ target = [f \in Files |-> IF f \in work.left THEN 0 ELSE count]
          /\ kind = "directory" => work.left = Files
    /\ Doing("clean") => /\ target = [f \in Files |-> count] /\ last = count
                      /\ Here(backup) \subseteq work.left
    /\ Doing("undo") =>
          /\ backup = work.base /\ Manifest \notin work.left /\ kind # "directory"
          /\ target = [f \in Files |-> IF f \in work.left THEN count ELSE 0]
    /\ Doing("restore") =>
          \A f \in Files : \/ f \in work.left /\ target[f] = 0 /\ backup[f] = work.base[f]
                           \/ target[f] = work.base[f] /\ backup[f] = 0

\* A directory is never a mixture, even when its recovery failed.
OneContent(files) == \A f, g \in Here(files) : files[f] = files[g]
Directories ==
    kind = "directory" =>
        /\ OneContent(target) /\ OneContent(backup)
        /\ Doing("backup") => backup = Absent
        /\ Doing("place") => target = Absent
        /\ Doing("undo") => work.left = Here(target)
        /\ Doing("restore") => work.left = {} \/ target = Absent

IInv ==
    /\ TypeOK
    /\ Sound => Phase
    /\ Directories

-----------------------------------------------------------------------------
(* Files and their contents.                                               *)

\* Files are numbered, the manifest last; none are there when all are absent.
LEMMA FilesFacts ==
    /\ Files \subseteq Nat /\ Manifest \in Files /\ Manifest # 0
    /\ \A f \in Files : f <= Manifest
    /\ Absent \in Contents /\ \A f \in Files : Absent[f] = 0
<1>1. Files \subseteq Nat /\ Manifest \in Files /\ Manifest # 0 /\ \A f \in Files : f <= Manifest
    BY BoundAssumption DEF Files, Manifest
<1> QED  BY <1>1 DEF Absent, Contents

\* The first file of some; it is the manifest only when no other is left.
LEMMA LeastFile ==
    ASSUME NEW I, I \subseteq Files, I # {}
    PROVE  /\ Min(I) \in I /\ \A y \in I : Min(I) <= y
           /\ Min(I) = Manifest => I = {Manifest}
<1>1. I \subseteq Nat
    BY FilesFacts
<1>2. PICK x \in I : \A y \in I : <<y, x>> \notin OpToRel(<, Nat)
    BY <1>1, WFMin, NatLessThanWellFounded
<1>3. ASSUME NEW y \in I
      PROVE  x <= y
    <2>1. x \in Nat /\ y \in Nat
        BY <1>1
    <2>2. y < x => <<y, x>> \in OpToRel(<, Nat)
        BY <2>1 DEF OpToRel
    <2>3. ~(y < x)
        BY <1>2, <2>2
    <2> QED  BY <2>1, <2>3
<1>4. Min(I) \in I /\ \A y \in I : Min(I) <= y
    BY <1>3 DEF Min
<1>5. ASSUME Min(I) = Manifest, NEW y \in I
      PROVE  y = Manifest
    <2>1. y \in Nat /\ Manifest \in Nat /\ y <= Manifest /\ Manifest <= y
        BY <1>1, <1>4, <1>5, FilesFacts
    <2> QED  BY <2>1
<1> QED  BY <1>4, <1>5

\* What one turn of a loop moves.
LEMMA MovedFacts ==
    ASSUME TypeOK, work.left # {}
    PROVE  /\ Turn \in work.left /\ Turn \in Files
           /\ Turn = Manifest => work.left = {Manifest}
           /\ Turn \in Moved /\ Moved \subseteq Files
           /\ kind = "directory" => Moved = Files
           /\ kind # "directory" => Moved = {Turn}
<1>1. work.left \subseteq Files
    BY DEF TypeOK, JobType
<1>2. Turn \in work.left /\ Turn \in Files /\ (Turn = Manifest => work.left = {Manifest})
    BY <1>1, LeastFile DEF Turn
<1> QED  BY <1>2 DEF Moved

\* When files are absent, and when they are one whole generation.
LEMMA AbsentFacts ==
    ASSUME NEW files \in Contents
    PROVE  /\ files = Absent <=> \A f \in Files : files[f] = 0
           /\ files = Absent <=> Here(files) = {}
           /\ Whole(files) <=> files[Manifest] # 0 /\ \A f \in Files : files[f] = files[Manifest]
           /\ Whole(files) => files # Absent
<1>1. files \in [Files -> Nat] /\ Manifest \in Files
    BY FilesFacts DEF Contents
<1>2. files = Absent <=> \A f \in Files : files[f] = 0
    BY <1>1 DEF Absent
<1>3. files = Absent <=> Here(files) = {}
    BY <1>2 DEF Here
<1>4. Whole(files) <=> files[Manifest] # 0 /\ \A f \in Files : files[f] = files[Manifest]
    BY <1>1 DEF Whole, Here
<1> QED  BY <1>1, <1>2, <1>3, <1>4

\* Wherever a sound publication stands, the old generation or the new one is whole.
LEMMA PhaseKept ==
    ASSUME TypeOK, Sound, Phase, Directories
    PROVE  Kept
<1>1. /\ target \in Contents /\ backup \in Contents /\ work.base \in Contents
      /\ work.step \in Steps /\ last \in Nat
      /\ ~Doing("idle") => count \in Nat \ {0}
    BY DEF TypeOK, JobType
<1>2. PICK old \in [Files -> Nat] : old = work.base
    BY <1>1 DEF Contents
<1>3. target \in [Files -> Nat] /\ backup \in [Files -> Nat] /\ Manifest \in Files
    BY <1>1, FilesFacts DEF Contents
<1>4. ASSUME Holds(old), kind = "directory" => Solid(old) /\ (target = Absent \/ target = old),
             \A f \in Files : \/ target[f] = 0 /\ backup[f] = old[f]
                              \/ target[f] = old[f] /\ backup[f] = 0
      PROVE  Kept
    <2>1. CASE Whole(target)
        <3>1. target = old
            BY <1>1, <1>3, <1>4, <2>1, AbsentFacts
        <3> QED  BY <1>4, <2>1, <3>1 DEF Kept, Merged
    <2>2. CASE ~Whole(target)
        <3>1. Merged = old
            BY <1>3, <1>4, <2>2 DEF Merged
        <3>2. ASSUME kind = "directory" PROVE target = Absent /\ Solid(backup)
            <4>1. target = Absent
                BY <1>4, <2>2, <3>2 DEF Solid
            <4>2. backup = old
                <5>1. \A f \in Files : backup[f] = old[f]
                    BY <1>4, <4>1, FilesFacts
                <5> QED  BY <1>3, <5>1
            <4> QED  BY <1>4, <3>2, <4>1, <4>2
        <3> QED  BY <1>4, <2>2, <3>1, <3>2 DEF Kept
    <2> QED  BY <2>1, <2>2
<1>5. ASSUME Holds(old), backup = old, target[Manifest] = 0,
             kind = "directory" => Solid(old) /\ target = Absent
      PROVE  Kept
    <2>1. ~Whole(target)
        BY <1>1, <1>5, AbsentFacts
    <2>2. Holds(Merged)
        <3>1. CASE last = 0
            BY <1>3, <1>5, <2>1, <3>1 DEF Holds, Merged
        <3>2. CASE last # 0
            <4>1. \A f \in Files : old[f] = last
                BY <1>5, <3>2 DEF Holds
            <4>2. Merged = old
                BY <1>2, <1>5, <2>1, <3>2, <4>1 DEF Merged
            <4> QED  BY <1>5, <4>2
        <3> QED  BY <3>1, <3>2
    <2> QED  BY <1>5, <2>1, <2>2 DEF Kept
<1>6. CASE Doing("idle")
    BY <1>6 DEF Phase
<1>7. CASE Doing("backup")
    <2>1. \A f \in Files : \/ target[f] = 0 /\ backup[f] = old[f]
                           \/ target[f] = old[f] /\ backup[f] = 0
        BY <1>2, <1>7 DEF Phase
    <2>2. kind = "directory" => target = old
        BY <1>2, <1>3, <1>7 DEF Phase
    <2> QED  BY <1>2, <1>4, <1>7, <2>1, <2>2 DEF Phase, Doing
<1>8. CASE Doing("place")
    <2>1. target[Manifest] = 0
        BY <1>3, <1>8 DEF Phase
    <2> QED  BY <1>2, <1>5, <1>8, <2>1 DEF Phase, Doing, Directories
<1>9. CASE Doing("undo")
    <2>1. target[Manifest] = 0
        BY <1>3, <1>9 DEF Phase
    <2> QED  BY <1>2, <1>5, <1>9, <2>1 DEF Phase, Doing
<1>10. CASE Doing("restore")
    <2>1. \A f \in Files : \/ target[f] = 0 /\ backup[f] = old[f]
                           \/ target[f] = old[f] /\ backup[f] = 0
        BY <1>2, <1>10 DEF Phase
    <2>2. work.left = {} => target = old
        BY <1>2, <1>3, <1>10 DEF Phase
    <2> QED  BY <1>2, <1>4, <1>10, <2>1, <2>2 DEF Phase, Doing, Directories
<1>11. CASE Doing("clean")
    <2>1. Whole(target) /\ target = [f \in Files |-> last]
        BY <1>1, <1>3, <1>11, AbsentFacts DEF Phase, Doing
    <2>2. last # 0
        BY <1>1, <1>11 DEF Phase, Doing
    <2> QED  BY <2>1, <2>2 DEF Kept, Merged, Holds
<1> QED  BY <1>1, <1>6, <1>7, <1>8, <1>9, <1>10, <1>11 DEF Doing, Steps

-----------------------------------------------------------------------------
(* The steps of a publication.                                             *)

\* The invariant holds before anything is published.
LEMMA InitInv == PublicationInit => IInv
<1> SUFFICES ASSUME PublicationInit PROVE IInv
    OBVIOUS
<1>1. TypeOK
    <2>1. NoWork \in JobType /\ NoWork.step = "idle"
        BY FilesFacts DEF NoWork, JobType, Steps
    <2>2. work = NoWork /\ work.step = "idle" /\ kind \in Kinds /\ target = Absent /\ backup = Absent
          /\ count = 0 /\ faults = 0 /\ crashes = 0 /\ last = 0
        BY <2>1 DEF PublicationInit
    <2>3. {count, faults, crashes, last} \subseteq Nat
        BY <2>2
    <2>4. broken \in BOOLEAN
        BY DEF PublicationInit
    <2>5. work \in JobType /\ target \in Contents /\ backup \in Contents
        BY <2>1, <2>2, FilesFacts
    <2>6. work.step \notin {"backup", "place", "clean", "undo"}
        BY <2>2
    <2> QED  BY <2>2, <2>3, <2>4, <2>5, <2>6 DEF TypeOK, Doing
<1>2. Phase
    <2>1. ~Whole(target) /\ Merged = Absent
        BY FilesFacts DEF PublicationInit, Whole, Here, Merged, Absent
    <2>2. Kept
        BY <2>1, FilesFacts DEF PublicationInit, Kept, Holds, Solid
    <2> QED  BY <2>2 DEF PublicationInit, Phase, NoWork, Doing
<1>3. Directories
    BY FilesFacts DEF PublicationInit, Directories, OneContent, Here, Doing, NoWork
<1> QED  BY <1>1, <1>2, <1>3 DEF IInv

\* Starting a publication keeps the invariant.
LEMMA PublishStep == IInv /\ Publish => IInv'
<1> SUFFICES ASSUME IInv, Publish PROVE IInv'
    OBVIOUS
<1>1. PICK existing : existing = Here(target)
    OBVIOUS
<1>2. /\ Doing("idle") /\ (kind # "transcript" => backup = Absent) /\ count' = count + 1
      /\ UNCHANGED <<kind, target, backup, faults, crashes, last, broken>>
      /\ work' = IF existing = {}
                THEN [NoWork EXCEPT !.existing = existing, !.base = target,
                                  !.step = "place", !.left = Files]
                ELSE [NoWork EXCEPT !.existing = existing, !.base = target,
                                  !.step = "backup", !.left = existing]
    BY <1>1 DEF Publish
<1>3. /\ target \in Contents /\ backup \in Contents /\ count \in Nat
      /\ existing \subseteq Files
    BY <1>1 DEF IInv, TypeOK, Here
<1>4. /\ work'.existing = existing /\ work'.base = target /\ work'.touched = {}
      /\ existing = {} => work'.step = "place" /\ work'.left = Files
      /\ existing # {} => work'.step = "backup" /\ work'.left = existing
      /\ work' \in JobType
    BY <1>2, <1>3 DEF NoWork, JobType, Steps
<1>5. TypeOK'
    BY <1>1, <1>2, <1>3, <1>4, FilesFacts DEF IInv, TypeOK, Doing
<1>6. ASSUME Sound' PROVE Phase'
    <2>1. Sound
        BY <1>2, <1>6 DEF Sound
    <2>2. backup = Absent /\ Kept
        BY <1>2, <2>1 DEF IInv, Phase
    <2>3. Merged = target
        BY <1>3, <2>2, FilesFacts DEF Merged, Contents
    <2>4. Holds(target) /\ (kind = "directory" => Solid(target))
        BY <2>2, <2>3 DEF Kept, Solid
    <2>5. Holds(work.base)' /\ (kind' = "directory" => Solid(work.base)')
        BY <1>2, <1>4, <2>4 DEF Holds, Solid
    <2>6. CASE existing = {}
        <3>1. target = Absent
            BY <1>1, <1>3, <2>6, AbsentFacts
        <3>2. target' = [f \in Files |-> IF f \in work'.left THEN 0 ELSE count']
            BY <1>2, <1>4, <2>6, <3>1 DEF Absent
        <3> QED  BY <1>2, <1>4, <2>2, <2>5, <2>6, <3>1, <3>2, FilesFacts DEF Phase, Doing
    <2>7. CASE existing # {}
        BY <1>2, <1>4, <2>2, <2>5, <2>7, FilesFacts DEF Phase, Doing
    <2> QED  BY <2>6, <2>7
<1>7. Directories'
    <2>1. existing = {} => target = Absent
        BY <1>1, <1>3, AbsentFacts
    <2> QED  BY <1>2, <1>4, <2>1 DEF IInv, Directories, OneContent, Here, Doing
<1> QED  BY <1>5, <1>6, <1>7 DEF IInv

\* Setting old files aside keeps the invariant.
LEMMA BackupStep == IInv /\ Backup => IInv'
<1> SUFFICES ASSUME IInv, Backup PROVE IInv'
    OBVIOUS
<1>1. /\ Doing("backup") /\ work.left # {}
      /\ backup' = [f \in Files |-> IF f \in Moved THEN target[f] ELSE backup[f]]
      /\ target' = [f \in Files |-> IF f \in Moved THEN 0 ELSE target[f]]
      /\ UNCHANGED <<kind, count, faults, crashes, last, broken>>
      /\ work' = IF work.left \ Moved = {} THEN [work EXCEPT !.step = "place", !.left = Files]
                ELSE [work EXCEPT !.left = work.left \ Moved]
    BY DEF Backup, IInv, TypeOK, Doing
<1>2. /\ target \in Contents /\ backup \in Contents /\ work \in JobType
      /\ work.base \in Contents /\ work.existing = Here(work.base)
    BY <1>1 DEF IInv, TypeOK, JobType, Doing
<1>3. /\ Turn \in work.left /\ Turn \in Files /\ Moved \subseteq Files /\ Turn \in Moved
      /\ kind = "directory" => Moved = Files
      /\ kind # "directory" => Moved = {Turn}
    BY <1>1, MovedFacts DEF IInv
<1>4. /\ work'.existing = work.existing /\ work'.base = work.base /\ work'.touched = work.touched
      /\ work.left \subseteq Moved => work'.step = "place" /\ work'.left = Files
      /\ ~(work.left \subseteq Moved) => work'.step = "backup" /\ work'.left = work.left \ Moved
      /\ work' \in JobType
    BY <1>1, <1>2 DEF JobType, Steps, Doing
<1>5. target' \in Contents /\ backup' \in Contents
    BY <1>1, <1>2 DEF Contents
<1>6. TypeOK'
    BY <1>1, <1>2, <1>4, <1>5, FilesFacts DEF IInv, TypeOK, Doing
<1>7. ASSUME Sound' PROVE Phase'
    <2>1. Sound
        BY <1>1, <1>7 DEF Sound
    <2>2. /\ Holds(work.base) /\ (kind = "directory" => Solid(work.base))
          /\ work.left \subseteq work.existing /\ work.touched = {}
          /\ \A f \in Files :
                IF f \in work.existing \ work.left THEN target[f] = 0 /\ backup[f] = work.base[f]
                ELSE target[f] = work.base[f] /\ backup[f] = 0
          /\ kind = "directory" => work.left = work.existing
        BY <1>1, <2>1 DEF IInv, Phase, Doing
    <2>3. Holds(work.base)' /\ (kind' = "directory" => Solid(work.base)')
        BY <1>1, <1>4, <2>2 DEF Holds, Solid
    <2>4. \A f \in Files : f \notin work.existing => work.base[f] = 0
        BY <1>2 DEF Here
    <2>5. CASE work.left \subseteq Moved
        <3>1. \A f \in Files : backup'[f] = work.base[f] /\ target'[f] = 0
            BY <1>1, <1>3, <2>2, <2>4, <2>5
        <3>2. backup' = work.base
            BY <1>2, <1>5, <3>1 DEF Contents
        <3>3. target' = [f \in Files |-> IF f \in work'.left THEN 0 ELSE count']
            BY <1>4, <1>5, <2>5, <3>1 DEF Contents
        <3> QED  BY <1>1, <1>4, <2>2, <2>3, <2>5, <3>2, <3>3, FilesFacts DEF Phase, Doing
    <2>6. CASE ~(work.left \subseteq Moved)
        <3>1. kind # "directory" /\ Moved = {Turn}
            BY <1>2, <1>3, <2>6 DEF JobType
        <3>2. \A f \in Files :
                IF f \in work'.existing \ work'.left THEN target'[f] = 0 /\ backup'[f] = work'.base[f]
                ELSE target'[f] = work'.base[f] /\ backup'[f] = 0
            BY <1>1, <1>3, <1>4, <2>2, <2>6, <3>1
        <3> QED  BY <1>1, <1>4, <2>2, <2>3, <2>6, <3>1, <3>2 DEF Phase, Doing
    <2> QED  BY <2>5, <2>6
<1>8. Directories'
    <2> SUFFICES ASSUME kind = "directory" PROVE Directories'
        BY <1>1 DEF Directories
    <2>1. work.left \subseteq Moved
        BY <1>2, <1>3 DEF JobType
    <2>2. target' = Absent /\ backup' = target
        BY <1>1, <1>2, <1>3 DEF Absent, Contents
    <2> QED  BY <1>4, <2>1, <2>2, FilesFacts DEF IInv, Directories, OneContent, Here, Doing
<1> QED  BY <1>6, <1>7, <1>8 DEF IInv

\* The history variable follows the target.
LEMMA WitnessedFacts ==
    ASSUME TypeOK, target' \in Contents, Witnessed
    PROVE  /\ last' \in Nat
           /\ ~Whole(target') => last' = last
           /\ Whole(target') => last' = target'[Manifest]
BY FilesFacts DEF Witnessed, TypeOK, Contents

\* Putting new files in place keeps the invariant.
LEMMA PlaceStep == IInv /\ Place => IInv'
<1> SUFFICES ASSUME IInv, Place PROVE IInv'
    OBVIOUS
<1>1. PICK left, cleaned : /\ left = work.left \ Moved
                           /\ cleaned = IF kind = "transcript" THEN work.existing ELSE Here(backup)
    OBVIOUS
<1>2. /\ Doing("place") /\ work.left # {} /\ count \in Nat \ {0}
      /\ target' = [f \in Files |-> IF f \in Moved THEN count ELSE target[f]]
      /\ UNCHANGED <<kind, backup, count, faults, crashes, broken>> /\ Witnessed
      /\ work' = IF left # {}
                THEN [work EXCEPT !.left = left, !.touched = work.touched \cup Moved]
                ELSE IF cleaned = {} THEN NoWork ELSE [work EXCEPT !.step = "clean", !.left = cleaned]
    BY <1>1 DEF Place, Then, IInv, TypeOK, Doing
<1>3. /\ target \in Contents /\ backup \in Contents /\ work \in JobType
      /\ work.base \in Contents /\ work.existing = Here(work.base) /\ cleaned \subseteq Files
    BY <1>1, <1>2 DEF IInv, TypeOK, JobType, Doing, Here
<1>4. /\ Turn \in work.left /\ Turn \in Files /\ Moved \subseteq Files /\ Turn \in Moved
      /\ Turn = Manifest => work.left = {Manifest}
      /\ kind = "directory" => Moved = Files
      /\ kind # "directory" => Moved = {Turn}
    BY <1>2, MovedFacts DEF IInv
<1>5. target' \in Contents
    BY <1>2, <1>3 DEF Contents
<1>6. /\ left # {} => /\ work'.step = "place" /\ work'.left = left /\ work'.base = work.base
                      /\ work'.touched = work.touched \cup Moved /\ work'.existing = work.existing
      /\ left = {} /\ cleaned # {} => /\ work'.step = "clean" /\ work'.left = cleaned
                                      /\ work'.base = work.base /\ work'.existing = work.existing
      /\ left = {} /\ cleaned = {} => work' = NoWork /\ work'.step = "idle"
      /\ work' \in JobType
    <2>1. NoWork \in JobType /\ NoWork.step = "idle"
        BY FilesFacts DEF NoWork, JobType, Steps
    <2>2. CASE left # {}
        BY <1>1, <1>2, <1>3, <1>4, <2>2 DEF JobType, Doing
    <2>3. CASE left = {} /\ cleaned # {}
        BY <1>2, <1>3, <2>3 DEF JobType, Steps
    <2>4. CASE left = {} /\ cleaned = {}
        BY <1>2, <2>1, <2>4
    <2> QED  BY <2>2, <2>3, <2>4
<1>7. TypeOK'
    <2>1. last' \in Nat
        BY <1>2, <1>5, WitnessedFacts DEF IInv
    <2> QED  BY <1>2, <1>3, <1>5, <1>6, <2>1 DEF IInv, TypeOK, Doing
<1>8. ASSUME Sound' PROVE Phase'
    <2>1. Sound
        BY <1>2, <1>8 DEF Sound
    <2>2. /\ Holds(work.base) /\ (kind = "directory" => Solid(work.base))
          /\ backup = work.base /\ Manifest \in work.left /\ work.touched = Files \ work.left
          /\ target = [f \in Files |-> IF f \in work.left THEN 0 ELSE count]
          /\ kind = "directory" => work.left = Files
        BY <1>2, <2>1 DEF IInv, Phase, Doing
    <2>3. target' = [f \in Files |-> IF f \in left THEN 0 ELSE count]
        BY <1>1, <1>2, <1>3, <1>4, <2>2 DEF JobType
    <2>4. CASE left # {}
        <3>1. kind # "directory" /\ Manifest \in left
            BY <1>1, <1>4, <2>2, <2>4
        <3>2. target'[Manifest] = 0
            BY <2>3, <3>1, FilesFacts
        <3>3. last' = last
            BY <1>2, <1>5, <3>2, AbsentFacts, WitnessedFacts DEF IInv
        <3>4. Holds(work.base)'
            BY <1>6, <2>2, <2>4, <3>3 DEF Holds
        <3>5. work'.touched = Files \ work'.left
            BY <1>1, <1>3, <1>4, <1>6, <2>2, <2>4, <3>1 DEF JobType
        <3> QED  BY <1>2, <1>6, <2>2, <2>3, <2>4, <3>1, <3>4, <3>5 DEF Phase, Doing
    <2>5. CASE left = {}
        <3>1. target' = [f \in Files |-> count]
            BY <2>3, <2>5
        <3>2. Whole(target') /\ target'[Manifest] = count
            BY <1>2, <1>5, <3>1, AbsentFacts, FilesFacts
        <3>3. last' = count
            BY <1>2, <1>5, <3>2, WitnessedFacts DEF IInv
        <3>4. CASE cleaned # {}
            <4>1. Here(backup') \subseteq work'.left
                BY <1>1, <1>2, <1>3, <1>6, <2>2, <2>5, <3>4
            <4> QED  BY <1>2, <1>6, <2>5, <3>1, <3>3, <3>4, <4>1 DEF Phase, Doing
        <3>5. CASE cleaned = {}
            <4>1. backup = Absent
                BY <1>1, <1>3, <2>2, <3>5, AbsentFacts
            <4>2. Kept'
                <5>1. Merged' = target'
                    BY <3>2 DEF Merged
                <5>2. Holds(target)'
                    BY <1>2, <3>1, <3>3 DEF Holds
                <5> QED  BY <3>2, <5>1, <5>2 DEF Kept, Holds
            <4> QED  BY <1>2, <1>6, <2>5, <3>5, <4>1, <4>2 DEF Phase, Doing
        <3> QED  BY <3>4, <3>5
    <2> QED  BY <2>4, <2>5
<1>9. Directories'
    <2> SUFFICES ASSUME kind = "directory" PROVE Directories'
        BY <1>2 DEF Directories
    <2>1. left = {}
        BY <1>1, <1>3, <1>4 DEF JobType
    <2>2. target' = [f \in Files |-> count]
        BY <1>2, <1>3, <1>4
    <2> QED  BY <1>2, <1>6, <2>1, <2>2 DEF IInv, Directories, OneContent, Here, Doing
<1> QED  BY <1>7, <1>8, <1>9 DEF IInv

\* There is nothing to do without a publication.
LEMMA IdleFacts == NoWork \in JobType /\ NoWork.step = "idle"
BY FilesFacts DEF NoWork, JobType, Steps

\* Removing backups keeps the invariant.
LEMMA CleanStep == IInv /\ Clean => IInv'
<1> SUFFICES ASSUME IInv, Clean PROVE IInv'
    OBVIOUS
<1>1. PICK f \in work.left :
          /\ Doing("clean") /\ backup' = [backup EXCEPT ![f] = 0]
          /\ UNCHANGED <<kind, target, count, faults, crashes, last, broken>>
          /\ work' = IF work.left \ {f} = {} THEN NoWork
                    ELSE [work EXCEPT !.step = "clean", !.left = work.left \ {f}]
    BY DEF Clean, Then
<1>2. /\ target \in Contents /\ backup \in Contents /\ work \in JobType /\ f \in Files
      /\ count \in Nat \ {0} /\ work.existing = Here(work.base)
    BY <1>1 DEF IInv, TypeOK, JobType, Doing
<1>3. /\ backup' \in Contents /\ backup'[f] = 0
      /\ \A g \in Files \ {f} : backup'[g] = backup[g]
    BY <1>1, <1>2 DEF Contents
<1>4. /\ work.left = {f} => work' = NoWork /\ work'.step = "idle"
      /\ work.left # {f} => /\ work'.step = "clean" /\ work'.left = work.left \ {f}
                           /\ work'.base = work.base /\ work'.existing = work.existing
                           /\ work'.left # {}
      /\ work' \in JobType
    BY <1>1, <1>2, IdleFacts DEF JobType, Steps
<1>5. TypeOK'
    BY <1>1, <1>2, <1>3, <1>4 DEF IInv, TypeOK, Doing
<1>6. ASSUME Sound' PROVE Phase'
    <2>1. Sound
        BY <1>1, <1>6 DEF Sound
    <2>2. target = [g \in Files |-> count] /\ last = count /\ Here(backup) \subseteq work.left
        BY <1>1, <2>1 DEF IInv, Phase, Doing
    <2>3. Here(backup') \subseteq work.left \ {f}
        BY <1>3, <2>2 DEF Here
    <2>4. CASE work.left # {f}
        BY <1>1, <1>4, <2>2, <2>3, <2>4 DEF Phase, Doing
    <2>5. CASE work.left = {f}
        <3>1. backup' = Absent
            BY <1>3, <2>3, <2>5, AbsentFacts
        <3>2. Whole(target)
            BY <1>2, <2>2, AbsentFacts, FilesFacts
        <3>3. Kept'
            <4>1. Whole(target') /\ Merged' = target'
                BY <1>1, <3>2 DEF Merged
            <4>2. Holds(target)'
                BY <1>1, <1>2, <2>2 DEF Holds
            <4> QED  BY <4>1, <4>2 DEF Kept, Holds
        <3> QED  BY <1>4, <2>5, <3>1, <3>3 DEF Phase, Doing
    <2> QED  BY <2>4, <2>5
<1>7. Directories'
    <2>1. kind = "directory" => OneContent(backup')
        BY <1>2, <1>3 DEF IInv, Directories, OneContent, Here
    <2> QED  BY <1>1, <1>4, <2>1 DEF IInv, Directories, OneContent, Here, Doing
<1> QED  BY <1>5, <1>6, <1>7 DEF IInv

\* How a publication turns to restoring what it moved.
LEMMA ThenRestoreFacts ==
    ASSUME TypeOK, ~Doing("idle"), ThenRestore(work) = work'
    PROVE  /\ work' \in JobType /\ work'.step = "restore"
           /\ work'.left = IF kind = "transcript" THEN work.existing ELSE Here(backup)
           /\ work'.existing = work.existing /\ work'.base = work.base
BY DEF ThenRestore, TypeOK, JobType, Steps, Here

\* Taking new files away in recovery keeps the invariant.
LEMMA UndoStep == IInv /\ Undo => IInv'
<1> SUFFICES ASSUME IInv, Undo PROVE IInv'
    OBVIOUS
<1>1. PICK f \in work.left :
          /\ Doing("undo") /\ target' = [target EXCEPT ![f] = 0]
          /\ UNCHANGED <<kind, backup, count, faults, crashes, broken>> /\ Witnessed
          /\ work.left = {f} => work' = ThenRestore(work)
          /\ work.left # {f} => work' = [work EXCEPT !.left = work.left \ {f}]
    BY DEF Undo
<1>2. /\ target \in Contents /\ backup \in Contents /\ work \in JobType /\ f \in Files
      /\ work.base \in Contents
      /\ count \in Nat \ {0} /\ work.existing = Here(work.base) /\ ~Doing("idle")
    BY <1>1 DEF IInv, TypeOK, JobType, Doing
<1>3. /\ target' \in Contents /\ target'[f] = 0
      /\ \A g \in Files \ {f} : target'[g] = target[g]
    BY <1>1, <1>2 DEF Contents
<1>4. /\ work.left = {f} => /\ work'.step = "restore"
                           /\ work'.left = IF kind = "transcript" THEN work.existing ELSE Here(backup)
      /\ work.left # {f} => work'.step = "undo" /\ work'.left = work.left \ {f} /\ work'.left # {}
      /\ work'.base = work.base /\ work'.existing = work.existing
      /\ work' \in JobType
    <2>1. CASE work.left = {f}
        BY <1>1, <1>2, <2>1, ThenRestoreFacts DEF IInv
    <2>2. CASE work.left # {f}
        BY <1>1, <1>2, <2>2 DEF JobType, Doing
    <2> QED  BY <2>1, <2>2
<1>5. ~Whole(target') /\ last' = last
    BY <1>1, <1>2, <1>3, WitnessedFacts, FilesFacts DEF IInv, Whole, Here
<1>6. TypeOK'
    BY <1>1, <1>2, <1>3, <1>4, <1>5 DEF IInv, TypeOK, Doing
<1>7. ASSUME Sound' PROVE Phase'
    <2>1. Sound
        BY <1>1, <1>7 DEF Sound
    <2>2. /\ backup = work.base /\ Manifest \notin work.left /\ kind # "directory"
          /\ target = [g \in Files |-> IF g \in work.left THEN count ELSE 0]
          /\ Holds(work.base)
        BY <1>1, <2>1 DEF IInv, Phase, Doing
    <2>3. Holds(work.base)'
        BY <1>4, <1>5, <2>2 DEF Holds
    <2>4. CASE work.left # {f}
        <3>1. target' = [g \in Files |-> IF g \in work'.left THEN count' ELSE 0]
            BY <1>1, <1>2, <1>3, <1>4, <2>2, <2>4 DEF Contents
        <3> QED  BY <1>1, <1>4, <2>2, <2>3, <2>4, <3>1 DEF Phase, Doing
    <2>5. CASE work.left = {f}
        <3>1. \A g \in Files : target'[g] = 0
            BY <1>3, <2>2, <2>5
        <3>2. work'.left = Here(work.base)
            BY <1>2, <1>4, <2>2, <2>5
        <3>3. \A g \in Files : \/ g \in work'.left /\ target'[g] = 0 /\ backup'[g] = work'.base[g]
                               \/ target'[g] = work'.base[g] /\ backup'[g] = 0
            BY <1>1, <1>4, <2>2, <3>1, <3>2 DEF Here
        <3> QED  BY <1>1, <1>4, <2>2, <2>3, <2>5, <3>3 DEF Phase, Doing
    <2> QED  BY <2>4, <2>5
<1>8. Directories'
    <2> SUFFICES ASSUME kind = "directory" PROVE Directories'
        BY <1>1 DEF Directories
    <2>1. OneContent(target) /\ OneContent(backup) /\ work.left = Here(target)
        BY <1>1 DEF IInv, Directories
    <2>2. Here(target') = work.left \ {f} /\ OneContent(target')
        BY <1>2, <1>3, <2>1 DEF Here, OneContent
    <2>3. work.left = {f} => target' = Absent
        BY <1>3, <2>2, AbsentFacts
    <2> QED  BY <1>1, <1>4, <2>1, <2>2, <2>3 DEF Directories, OneContent, Here, Doing
<1> QED  BY <1>6, <1>7, <1>8 DEF IInv

\* Putting backups back keeps the invariant.
LEMMA RestoreStep == IInv /\ Restore => IInv'
<1> SUFFICES ASSUME IInv, Restore PROVE IInv'
    OBVIOUS
<1>1. Doing("restore") /\ Witnessed /\ UNCHANGED <<kind, count, faults, crashes, broken>>
    BY DEF Restore
<1>2. /\ target \in Contents /\ backup \in Contents /\ work \in JobType
      /\ work.base \in Contents /\ count # 0 /\ last \in Nat
      /\ work.existing = Here(work.base) /\ ~Doing("idle")
    BY <1>1 DEF IInv, TypeOK, JobType, Doing
<1>3. PICK moved \in SUBSET Files :
          /\ moved = IF work.left = {} THEN {} ELSE Moved
          /\ kind = "directory" => moved = IF work.left = {} THEN {} ELSE Files
    BY MovedFacts DEF IInv
<1>4. /\ target' = [f \in Files |-> IF f \in moved \cap Here(backup) THEN backup[f] ELSE target[f]]
      /\ backup' = [f \in Files |-> IF f \in moved THEN 0 ELSE backup[f]]
      /\ work' = IF work.left \ moved = {} THEN NoWork
                ELSE [work EXCEPT !.step = "restore", !.left = work.left \ moved]
    <2>1. CASE work.left = {}
        BY <1>2, <1>3, <2>1 DEF Restore, Contents
    <2>2. CASE work.left # {}
        BY <1>3, <2>2 DEF Restore, Then
    <2> QED  BY <2>1, <2>2
<1>5. target' \in Contents /\ backup' \in Contents
    BY <1>2, <1>4 DEF Contents
<1>6. /\ work.left \subseteq moved => work' = NoWork /\ work'.step = "idle"
      /\ ~(work.left \subseteq moved) =>
             /\ work'.step = "restore" /\ work'.left = work.left \ moved
             /\ work'.base = work.base /\ work'.existing = work.existing
      /\ work' \in JobType
    BY <1>2, <1>4, IdleFacts DEF JobType, Steps
<1>7. TypeOK'
    <2>1. last' \in Nat
        BY <1>1, <1>5, WitnessedFacts DEF IInv
    <2> QED  BY <1>1, <1>2, <1>5, <1>6, <2>1 DEF IInv, TypeOK, Doing
<1>8. ASSUME Sound' PROVE Phase'
    <2>1. Sound
        BY <1>1, <1>8 DEF Sound
    <2>2. /\ Holds(work.base) /\ (kind = "directory" => Solid(work.base))
          /\ \A f \in Files : \/ f \in work.left /\ target[f] = 0 /\ backup[f] = work.base[f]
                              \/ target[f] = work.base[f] /\ backup[f] = 0
        BY <1>1, <2>1 DEF IInv, Phase, Doing
    <2>3. \A f \in Files :
              \/ f \in work.left \ moved /\ target'[f] = 0 /\ backup'[f] = work.base[f]
              \/ target'[f] = work.base[f] /\ backup'[f] = 0
        BY <1>2, <1>4, <2>2 DEF Here
    <2>4. last' = last
        <3>1. CASE Whole(target')
            <4>1. target'[Manifest] # 0 /\ target'[Manifest] = work.base[Manifest]
                BY <1>5, <2>3, <3>1, AbsentFacts, FilesFacts
            <4>2. work.base[Manifest] = last
                BY <2>2, <4>1, FilesFacts DEF Holds
            <4> QED  BY <1>1, <1>5, <3>1, <4>1, <4>2, WitnessedFacts DEF IInv
        <3>2. CASE ~Whole(target')
            BY <1>1, <1>5, <3>2, WitnessedFacts DEF IInv
        <3> QED  BY <3>1, <3>2
    <2>5. CASE ~(work.left \subseteq moved)
        <3>1. Holds(work.base)' /\ (kind' = "directory" => Solid(work.base)')
            BY <1>1, <1>6, <2>2, <2>4, <2>5 DEF Holds, Solid
        <3> QED  BY <1>6, <2>3, <2>5, <3>1 DEF Phase, Doing
    <2>6. CASE work.left \subseteq moved
        <3>1. \A f \in Files : target'[f] = work.base[f] /\ backup'[f] = 0
            BY <2>3, <2>6
        <3>2. target' = work.base /\ backup' = Absent
            BY <1>2, <1>5, <3>1, AbsentFacts DEF Contents
        <3>3. Kept'
            <4>1. Merged' = target'
                BY <1>2, <3>1, <3>2 DEF Merged, Contents
            <4>2. Holds(target)'
                BY <2>2, <2>4, <3>2 DEF Holds
            <4>3. kind' = "directory" => Solid(target')
                BY <1>1, <2>2, <3>2
            <4> QED  BY <3>1, <3>2, <4>1, <4>2, <4>3 DEF Kept, Holds, Solid
        <3> QED  BY <1>6, <2>6, <3>2, <3>3 DEF Phase, Doing
    <2> QED  BY <2>5, <2>6
<1>9. Directories'
    <2> SUFFICES ASSUME kind = "directory" PROVE Directories'
        BY <1>1 DEF Directories
    <2>1. OneContent(target) /\ OneContent(backup) /\ (work.left = {} \/ target = Absent)
        BY <1>1 DEF IInv, Directories
    <2>2. work.left \subseteq moved
        BY <1>2, <1>3 DEF JobType
    <2>3. OneContent(target') /\ OneContent(backup')
        <3>1. CASE work.left = {}
            <4>1. target' = target /\ backup' = backup
                BY <1>2, <1>3, <1>4, <3>1 DEF Contents
            <4> QED  BY <2>1, <4>1
        <3>2. CASE work.left # {}
            <4>1. \A f \in Files : target'[f] = backup[f] /\ backup'[f] = 0
                BY <1>2, <1>3, <1>4, <2>1, <3>2, FilesFacts DEF Here, Contents
            <4> QED  BY <2>1, <4>1 DEF OneContent, Here
        <3> QED  BY <3>1, <3>2
    <2> QED  BY <1>6, <2>2, <2>3 DEF Directories, OneContent, Here, Doing
<1> QED  BY <1>7, <1>8, <1>9 DEF IInv

\* While nothing else has gone wrong, an interrupted replacement of a backup loses nothing.
LEMMA CutShortFacts ==
    ASSUME TypeOK, backup' \in CutShort
    PROVE  /\ backup' \in Contents
           /\ kind # "transcript" => backup' = backup
           /\ Sound /\ Phase => backup' = backup
<1>1. CASE backup' = backup
    BY <1>1 DEF TypeOK
<1>2. CASE kind = "transcript" /\ Doing("backup") /\ backup' = [backup EXCEPT ![Turn] = 0]
    <2>1. work.left # {}
        BY <1>2 DEF TypeOK, Doing
    <2>2. backup \in Contents /\ backup' \in Contents /\ Turn \in work.left /\ Turn \in Files
        BY <1>2, <2>1, MovedFacts DEF TypeOK, Contents
    <2>3. Sound /\ Phase => backup[Turn] = 0
        BY <1>2, <2>2 DEF Phase
    <2> QED  BY <1>2, <2>2, <2>3 DEF Contents
<1> QED  BY <1>1, <1>2 DEF CutShort

\* The first try failed: what was placed is removed, and what was moved is put back.
LEMMA RecoverStep ==
    ASSUME IInv, Recover, backup' \in CutShort,
           Doing("backup") \/ Doing("place") \/ (Doing("clean") /\ kind = "directory"),
           UNCHANGED <<kind, target, count, crashes, last>>,
           faults' \in Nat, broken' = (broken \/ (Doing("clean") /\ kind # "bundle"))
    PROVE  IInv'
<1>1. /\ target \in Contents /\ backup \in Contents /\ work \in JobType /\ work.base \in Contents
      /\ work.existing = Here(work.base) /\ ~Doing("idle") /\ backup' \in Contents /\ count # 0
    BY CutShortFacts DEF IInv, TypeOK, JobType, Doing
<1>2. /\ Removed = {} => /\ work'.step = "restore"
                         /\ work'.left = IF kind = "transcript" THEN work.existing ELSE Here(backup)
      /\ Removed # {} => work'.step = "undo" /\ work'.left = Removed
      /\ work'.base = work.base /\ work'.existing = work.existing /\ work' \in JobType
    <2>1. CASE Removed = {}
        BY <1>1, <2>1, ThenRestoreFacts DEF IInv, Recover
    <2>2. CASE Removed # {}
        <3>1. Removed \subseteq Files
            BY <1>1 DEF Removed, JobType, Here
        <3> QED  BY <1>1, <2>2, <3>1 DEF Recover, JobType, Steps
    <2> QED  BY <2>1, <2>2
<1>3. TypeOK'
    <2>1. broken' \in BOOLEAN
        OBVIOUS
    <2> QED  BY <1>1, <1>2, <2>1 DEF IInv, TypeOK, Doing
<1>4. ASSUME Sound' PROVE Phase'
    <2>1. ~(Doing("clean") /\ kind # "bundle") /\ (broken => broken')
        BY <1>4 DEF Sound
    <2>2. Sound /\ (Doing("backup") \/ Doing("place"))
        BY <1>4, <2>1 DEF Sound
    <2>3. backup' = backup /\ Phase
        BY <2>2, CutShortFacts DEF IInv
    <2>4. Holds(work.base) /\ (kind = "directory" => Solid(work.base))
        BY <2>2, <2>3 DEF Phase, Doing
    <2>5. Holds(work.base)' /\ (kind' = "directory" => Solid(work.base)')
        BY <1>2, <2>4 DEF Holds, Solid
    <2>6. CASE Doing("backup")
        <3>1. /\ work.left \subseteq work.existing /\ work.touched = {}
              /\ \A f \in Files :
                    IF f \in work.existing \ work.left THEN target[f] = 0 /\ backup[f] = work.base[f]
                    ELSE target[f] = work.base[f] /\ backup[f] = 0
              /\ kind = "directory" => work.left = work.existing
            BY <2>3, <2>6 DEF Phase
        <3>2. kind = "directory" => backup = Absent
            BY <1>1, <3>1, AbsentFacts
        <3>3. Removed = {}
            BY <2>6, <3>1, <3>2, KindAssumption DEF Removed, Doing, IInv, TypeOK
        <3>4. \A f \in Files : \/ f \in work'.left /\ target'[f] = 0 /\ backup'[f] = work'.base[f]
                               \/ target'[f] = work'.base[f] /\ backup'[f] = 0
            BY <1>1, <1>2, <2>3, <3>1, <3>3 DEF Here
        <3> QED  BY <1>2, <2>5, <3>3, <3>4 DEF Phase, Doing
    <2>7. CASE Doing("place")
        <3>1. /\ backup = work.base /\ Manifest \in work.left /\ work.touched = Files \ work.left
              /\ target = [f \in Files |-> IF f \in work.left THEN 0 ELSE count]
              /\ kind = "directory" => work.left = Files
            BY <2>3, <2>7 DEF Phase
        <3>2. Here(target) = work.touched
            BY <1>1, <3>1 DEF Here
        <3>3. Turn \in work.left /\ Turn \in Files
            BY <3>1, MovedFacts DEF IInv
        <3>4. Removed = work.touched
            BY <2>7, <3>1, <3>2, <3>3, KindAssumption DEF Removed, Doing, IInv, TypeOK
        <3>5. CASE Removed = {}
            <4>1. work'.left = Here(work.base)
                BY <1>1, <1>2, <3>1, <3>5
            <4>2. \A f \in Files : target[f] = 0
                BY <3>1, <3>4, <3>5
            <4>3. \A f \in Files : \/ f \in work'.left /\ target'[f] = 0 /\ backup'[f] = work'.base[f]
                                   \/ target'[f] = work'.base[f] /\ backup'[f] = 0
                BY <1>2, <2>3, <3>1, <4>1, <4>2 DEF Here
            <4> QED  BY <1>2, <2>5, <3>5, <4>3 DEF Phase, Doing
        <3>6. CASE Removed # {}
            <4>1. target = [f \in Files |-> IF f \in work.touched THEN count ELSE 0]
                BY <3>1
            <4>2. kind # "directory" /\ Manifest \notin work.touched
                BY <3>1, <3>4, <3>6
            <4> QED  BY <1>2, <2>3, <2>5, <3>1, <3>4, <3>6, <4>1, <4>2 DEF Phase, Doing
        <3> QED  BY <3>5, <3>6
    <2> QED  BY <2>2, <2>6, <2>7
<1>5. Directories'
    <2> SUFFICES ASSUME kind = "directory" PROVE Directories'
        BY DEF Directories
    <2>1. /\ OneContent(target) /\ OneContent(backup) /\ backup' = backup
          /\ Doing("backup") => backup = Absent
          /\ Doing("place") => target = Absent
        BY CutShortFacts DEF IInv, Directories
    <2>2. Removed = IF backup = Absent THEN {} ELSE Here(target)
        BY DEF Removed
    <2>3. Removed = {} => work'.left = {} \/ target = Absent
        BY <1>1, <1>2, <2>2, AbsentFacts
    <2> QED  BY <1>2, <2>1, <2>2, <2>3 DEF Directories, Doing
<1> QED  BY <1>3, <1>4, <1>5 DEF IInv

\* A publication that stops leaves a state that can be told to be whole.
LEMMA Stops ==
    ASSUME IInv, work' = NoWork, ~Doing("idle"), backup' \in CutShort,
           UNCHANGED <<kind, target, count, last>>, {faults', crashes'} \subseteq Nat,
           broken' \in BOOLEAN, Sound' => Sound /\ kind # "transcript"
    PROVE  IInv'
<1>1. work' \in JobType /\ work'.step = "idle" /\ backup' \in Contents
    BY IdleFacts, CutShortFacts DEF IInv
<1>2. TypeOK'
    BY <1>1 DEF IInv, TypeOK, Doing
<1>3. ASSUME Sound' PROVE Phase'
    <2>1. Kept /\ backup' = backup /\ kind # "transcript"
        BY <1>3, PhaseKept, CutShortFacts DEF IInv
    <2>2. Kept'
        BY <2>1 DEF Kept, Holds, Merged, Solid
    <2> QED  BY <1>1, <2>1, <2>2 DEF Phase, Doing
<1>4. Directories'
    BY <1>1, CutShortFacts DEF IInv, Directories, OneContent, Here, Doing
<1> QED  BY <1>2, <1>3, <1>4 DEF IInv

\* An operation that fails keeps the invariant.
LEMMA FaultStep == IInv /\ Fault => IInv'
<1> SUFFICES ASSUME IInv, Fault PROVE IInv'
    OBVIOUS
<1>1. /\ ~Doing("idle") /\ faults' = faults + 1 /\ backup' \in CutShort
      /\ broken' = (broken \/ Doing("undo") \/ Doing("restore") \/ (Doing("clean") /\ kind # "bundle"))
      /\ UNCHANGED <<kind, target, count, crashes, last>>
    BY DEF Fault
<1>2. faults' \in Nat /\ crashes' \in Nat /\ broken' \in BOOLEAN
    BY <1>1 DEF IInv, TypeOK
<1>3. work \in JobType /\ work.existing \subseteq Files /\ kind \in Kinds /\ count # 0
    BY <1>1 DEF IInv, TypeOK, JobType
<1>4. CASE Doing("backup") \/ Doing("place") \/ (Doing("clean") /\ kind = "directory")
    <2>1. broken' = (broken \/ (Doing("clean") /\ kind # "bundle"))
        BY <1>1, <1>4 DEF Doing
    <2> QED  BY <1>1, <1>2, <1>4, <2>1, RecoverStep DEF Fault
<1>5. CASE ~(Doing("backup") \/ Doing("place") \/ (Doing("clean") /\ kind = "directory"))
    <2>1. GiveUp
        BY <1>5 DEF Fault
    <2>2. Doing("undo") \/ Doing("restore") \/ (Doing("clean") /\ kind # "directory")
        BY <1>1, <1>3, <1>5 DEF Doing, JobType, Steps
    <2>3. Sound' => kind = "bundle"
        BY <1>1, <2>2 DEF Sound
    <2>4. CASE work' = NoWork
        BY <1>1, <1>2, <2>3, <2>4, Stops DEF Sound
    <2>5. CASE work' # NoWork
        <3>1. kind = "transcript" /\ work' = Then("clean", work.existing)
            BY <2>1, <2>5 DEF GiveUp
        <3>2. work' = [work EXCEPT !.step = "clean", !.left = work.existing] /\ work.existing # {}
            BY <2>5, <3>1 DEF Then
        <3>3. /\ work' \in JobType /\ work'.step = "clean" /\ work'.left # {}
              /\ work'.existing = work.existing /\ work'.base = work.base
            BY <1>3, <3>2 DEF JobType, Steps
        <3>4. backup' \in Contents
            BY <1>1, CutShortFacts DEF IInv
        <3>5. TypeOK'
            BY <1>1, <1>2, <1>3, <3>3, <3>4 DEF IInv, TypeOK, Doing
        <3>6. ~Sound' /\ Directories'
            BY <1>1, <2>3, <3>1 DEF Directories
        <3> QED  BY <3>5, <3>6 DEF IInv
    <2> QED  BY <2>4, <2>5
<1> QED  BY <1>4, <1>5

\* An interrupted publication of transcripts keeps the invariant, which expects nothing
\* of it any more.
LEMMA InterruptStep == IInv /\ Interrupt => IInv'
<1> SUFFICES ASSUME IInv, Interrupt PROVE IInv'
    OBVIOUS
<1>1. /\ kind = "transcript" /\ ~Doing("idle") /\ crashes' = crashes + 1 /\ backup' \in CutShort
      /\ GiveUp /\ UNCHANGED <<kind, target, count, faults, last, broken>>
    BY DEF Interrupt
<1>2. faults' \in Nat /\ crashes' \in Nat /\ crashes' # 0 /\ broken' \in BOOLEAN
    BY <1>1 DEF IInv, TypeOK
<1>3. ~Sound'
    BY <1>1, <1>2 DEF Sound
<1>4. CASE work' = NoWork
    BY <1>1, <1>2, <1>3, <1>4, Stops
<1>5. CASE work' # NoWork
    <2>1. work' = [work EXCEPT !.step = "clean", !.left = work.existing] /\ work.existing # {}
        BY <1>1, <1>5 DEF GiveUp, Then
    <2>2. work \in JobType /\ work.existing \subseteq Files /\ count # 0
        BY <1>1 DEF IInv, TypeOK, JobType
    <2>3. /\ work' \in JobType /\ work'.step = "clean" /\ work'.left # {}
          /\ work'.existing = work.existing /\ work'.base = work.base
        BY <2>1, <2>2 DEF JobType, Steps
    <2>4. backup' \in Contents
        BY <1>1, CutShortFacts DEF IInv
    <2>5. TypeOK'
        BY <1>1, <1>2, <2>2, <2>3, <2>4 DEF IInv, TypeOK, Doing
    <2> QED  BY <1>1, <1>3, <2>5 DEF IInv, Directories
<1> QED  BY <1>4, <1>5

\* A process that dies keeps the invariant.
LEMMA CrashStep == IInv /\ Crash => IInv'
<1> SUFFICES ASSUME IInv, Crash PROVE IInv'
    OBVIOUS
<1>1. /\ ~Doing("idle") /\ crashes' = crashes + 1 /\ work' = NoWork /\ backup' \in CutShort
      /\ UNCHANGED <<kind, target, count, faults, last, broken>>
    BY DEF Crash
<1>2. faults' \in Nat /\ crashes' \in Nat /\ crashes' # 0 /\ broken' \in BOOLEAN
    BY <1>1 DEF IInv, TypeOK
<1>3. Sound' => Sound /\ kind # "transcript"
    BY <1>1, <1>2 DEF Sound
<1> QED  BY <1>1, <1>2, <1>3, Stops

\* The operator puts back what Merged says.
LEMMA TidyStep == IInv /\ Tidy => IInv'
<1> SUFFICES ASSUME IInv, Tidy PROVE IInv'
    OBVIOUS
<1>1. /\ Doing("idle") /\ kind # "transcript" /\ backup # Absent /\ backup' = Absent
      /\ target' = IF Whole(target) THEN target
                   ELSE [f \in Files |-> IF backup[f] = 0 /\ kind = "bundle" THEN target[f]
                                         ELSE backup[f]]
      /\ UNCHANGED <<kind, work, count, faults, crashes, broken>> /\ Witnessed
    BY DEF Tidy
<1>2. target \in Contents /\ backup \in Contents /\ kind \in Kinds /\ last \in Nat
    BY DEF IInv, TypeOK
<1>3. target' \in Contents /\ backup' \in Contents
    BY <1>1, <1>2, FilesFacts DEF Contents
<1>4. TypeOK'
    <2>1. last' \in Nat
        BY <1>1, <1>3, WitnessedFacts DEF IInv
    <2> QED  BY <1>1, <1>3, <2>1 DEF IInv, TypeOK, Doing
<1>5. ASSUME Sound' PROVE Phase'
    <2>1. Kept
        BY <1>1, <1>5 DEF IInv, Phase, Sound
    <2>2. target' = Merged
        <3>1. CASE Whole(target)
            BY <1>1, <3>1 DEF Merged
        <3>2. CASE ~Whole(target) /\ kind = "bundle"
            BY <1>1, <3>2 DEF Merged
        <3>3. CASE ~Whole(target) /\ kind = "directory"
            <4>1. \A f \in Files : target[f] = 0
                BY <1>2, <2>1, <3>3, AbsentFacts DEF Kept
            <4>2. \A f \in Files : target'[f] = Merged[f]
                BY <1>1, <3>3, <4>1 DEF Merged
            <4> QED  BY <1>1, <1>2, <3>3, <4>2 DEF Merged, Contents
        <3> QED  BY <1>1, <1>2, <3>1, <3>2, <3>3, KindAssumption
    <2>3. Holds(target')
        BY <2>1, <2>2 DEF Kept
    <2>4. last' = last
        <3>1. Whole(target') => target'[Manifest] = last
            BY <1>3, <2>3, AbsentFacts, FilesFacts DEF Holds
        <3> QED  BY <1>1, <1>3, <3>1, WitnessedFacts DEF IInv
    <2>5. Merged' = target'
        BY <1>1, <1>3, FilesFacts DEF Merged, Contents
    <2>6. kind = "directory" => Whole(target') \/ target' = Absent
        <3>1. CASE Whole(target)
            BY <1>1, <3>1
        <3>2. CASE ~Whole(target) /\ kind = "directory"
            <4>1. target' = backup
                BY <1>1, <1>2, <3>2 DEF Contents
            <4> QED  BY <2>1, <3>2, <4>1 DEF Kept, Solid
        <3> QED  BY <3>1, <3>2
    <2>7. Holds(target)'
        BY <2>3, <2>4 DEF Holds
    <2>8. Kept'
        BY <1>1, <2>5, <2>6, <2>7, FilesFacts DEF Kept, Holds, Solid
    <2> QED  BY <1>1, <2>8 DEF Phase, Doing
<1>6. Directories'
    <2> SUFFICES ASSUME kind = "directory" PROVE Directories'
        BY <1>1 DEF Directories
    <2>1. target' = target \/ target' = backup
        BY <1>1, <1>2 DEF Contents
    <2>2. OneContent(target') /\ OneContent(backup')
        BY <1>1, <2>1, FilesFacts DEF IInv, Directories, OneContent, Here
    <2> QED  BY <1>1, <2>2 DEF Directories, OneContent, Here, Doing
<1> QED  BY <1>4, <1>5, <1>6 DEF IInv

\* The invariant is inductive.
LEMMA StepInv == IInv /\ [PublicationNext]_publicationVars => IInv'
<1> SUFFICES ASSUME IInv, [PublicationNext]_publicationVars PROVE IInv'
    OBVIOUS
<1>1. CASE Publish
    BY <1>1, PublishStep
<1>2. CASE Backup
    BY <1>2, BackupStep
<1>3. CASE Place
    BY <1>3, PlaceStep
<1>4. CASE Clean
    BY <1>4, CleanStep
<1>5. CASE Undo
    BY <1>5, UndoStep
<1>6. CASE Restore
    BY <1>6, RestoreStep
<1>7. CASE Fault
    BY <1>7, FaultStep
<1>8. CASE Crash
    BY <1>8, CrashStep
<1>9. CASE Tidy
    BY <1>9, TidyStep
<1>10. CASE Interrupt
    BY <1>10, InterruptStep
<1>11. CASE UNCHANGED publicationVars
    <2> USE <1>11 DEF publicationVars
    <2>1. TypeOK'
        BY DEF IInv, TypeOK, Doing
    <2>2. Sound' => Sound
        BY DEF Sound
    <2>3. Kept => Kept'
        BY DEF Kept, Holds, Merged, Solid
    <2>4. Sound' => Phase'
        BY <2>2, <2>3 DEF IInv, Phase, Holds, Solid, Doing
    <2>5. Directories'
        BY DEF IInv, Directories, OneContent, Here, Doing
    <2> QED  BY <2>1, <2>4, <2>5 DEF IInv
<1> QED  BY <1>1, <1>2, <1>3, <1>4, <1>5, <1>6, <1>7, <1>8, <1>9, <1>10, <1>11 DEF PublicationNext

\* The invariant is inductive: how far a publication has come, and that the old
\* generation stays in one piece across files and backups until the new one is whole.
THEOREM InvHolds == PublicationSpec => []IInv
<1> QED  BY InitInv, StepInv, PTL DEF PublicationSpec

\* Type correctness: a publication under way has files left to visit in every loop but
\* the restore's, and remembers the files it found.
THEOREM TypeCorrect == PublicationSpec => []TypeOK
<1>1. IInv => TypeOK
    BY DEF IInv
<1> QED  BY <1>1, InvHolds, PTL

-----------------------------------------------------------------------------
(* What it means for readers and operators.                                *)

\* A manifest is never found next to data of another generation, for any number of files,
\* failures and crashes: bundle.py and artifacts.py without a condition, publication.py
\* until a backup outlives its publication.
THEOREM NeverMixes == PublicationSpec => []NeverMixed
<1>1. IInv => NeverMixed
    <2> SUFFICES ASSUME IInv, kind = "transcript" => ~broken /\ crashes = 0,
                        target[Manifest] # 0, NEW f \in Files
                 PROVE  target[f] \in {0, target[Manifest]}
        BY DEF NeverMixed
    <2>1. kind \in Kinds /\ target \in Contents /\ Manifest \in Files
        BY FilesFacts DEF IInv, TypeOK
    <2>2. CASE kind = "directory"
        BY <2>1, <2>2 DEF IInv, Directories, OneContent, Here
    <2>3. CASE kind # "directory"
        <3>1. Kept
            BY <2>1, <2>3, PhaseKept, KindAssumption DEF IInv, Sound
        <3>2. CASE Whole(target)
            BY <2>1, <3>2, AbsentFacts
        <3>3. CASE ~Whole(target)
            <4>1. \A g \in Files : target[g] = 0 \/ backup[g] = 0
                BY <3>1, <3>3 DEF Kept
            <4>2. \A g \in Files : target[g] # 0 => Merged[g] = target[g]
                BY <3>3, <4>1 DEF Merged
            <4>3. Merged[Manifest] # 0 /\ Merged = [g \in Files |-> last]
                BY <2>1, <3>1, <4>2 DEF Kept, Holds
            <4>4. target[f] # 0 => target[f] = last
                BY <4>2, <4>3
            <4>5. target[Manifest] = last
                BY <2>1, <4>2, <4>3
            <4> QED  BY <4>4, <4>5
        <3> QED  BY <3>2, <3>3
    <2> QED  BY <2>2, <2>3
<1> QED  BY <1>1, InvHolds, PTL

\* The newest generation that was ever whole stays recoverable from the files and the
\* backups until a newer one is whole, however many operations fail.
THEOREM NothingIsLost == PublicationSpec => []NothingLost
<1>1. IInv => NothingLost
    <2> SUFFICES ASSUME IInv, last # 0, kind # "bundle" => ~broken,
                        kind = "transcript" => crashes = 0, NEW f \in Files
                 PROVE  last \in {target[f], backup[f]}
        BY DEF NothingLost
    <2>1. Sound
        BY KindAssumption DEF IInv, TypeOK, Sound
    <2>2. Holds(Merged)
        BY <2>1, PhaseKept DEF IInv, Kept
    <2>3. Merged[f] = last
        BY <2>2 DEF Holds
    <2> QED  BY <2>3 DEF Merged
<1> QED  BY <1>1, InvHolds, PTL

\* When the last file is placed, the new generation is whole.
LEMMA PlaceEnds ==
    ASSUME IInv, Sound, Place, work'.step = "idle"
    PROVE  Whole(target') /\ target'[Manifest] = count
<1>1. /\ Doing("place") /\ work.left # {} /\ work.left \subseteq Files
      /\ target \in Contents /\ count \in Nat \ {0}
      /\ target' = [f \in Files |-> IF f \in Moved THEN count ELSE target[f]]
    BY DEF Place, IInv, TypeOK, JobType, Doing
<1>2. work.left \subseteq Moved
    <2>1. SUFFICES ASSUME work.left \ Moved # {} PROVE FALSE
        OBVIOUS
    <2>2. work' = [work EXCEPT !.left = work.left \ Moved, !.touched = work.touched \cup Moved]
        BY <2>1 DEF Place
    <2>3. work'.step = "place"
        BY <1>1, <2>2 DEF IInv, TypeOK, JobType, Doing
    <2> QED  BY <2>3
<1>3. target = [f \in Files |-> IF f \in work.left THEN 0 ELSE count]
    BY <1>1 DEF IInv, Phase
<1>4. target' = [f \in Files |-> count]
    BY <1>1, <1>2, <1>3
<1>5. target' \in Contents
    BY <1>1, <1>4 DEF Contents
<1> QED  BY <1>1, <1>4, <1>5, AbsentFacts, FilesFacts

\* When the last backup is put back, the files are those the publication found.
LEMMA RestoreEnds ==
    ASSUME IInv, Sound, Restore, work'.step = "idle"
    PROVE  target' = work.base
<1>1. /\ Doing("restore") /\ target \in Contents /\ backup \in Contents /\ work \in JobType
      /\ work.base \in Contents
      /\ \A f \in Files : \/ f \in work.left /\ target[f] = 0 /\ backup[f] = work.base[f]
                          \/ target[f] = work.base[f] /\ backup[f] = 0
    BY DEF Restore, IInv, TypeOK, JobType, Phase, Doing
<1>2. CASE work.left = {}
    <2>1. target' = target /\ \A f \in Files : target[f] = work.base[f]
        BY <1>1, <1>2 DEF Restore
    <2> QED  BY <1>1, <2>1 DEF Contents
<1>3. CASE work.left # {}
    <2>1. /\ target' = [f \in Files |-> IF f \in Moved \cap Here(backup) THEN backup[f]
                                        ELSE target[f]]
          /\ work' = IF work.left \ Moved = {} THEN NoWork
                    ELSE [work EXCEPT !.step = "restore", !.left = work.left \ Moved]
        BY <1>3 DEF Restore, Then
    <2>2. work.left \subseteq Moved
        BY <1>1, <2>1 DEF JobType
    <2>3. \A f \in Files : target'[f] = work.base[f]
        BY <1>1, <2>1, <2>2 DEF Here
    <2>4. target' \in Contents
        BY <1>1, <2>1 DEF Contents
    <2> QED  BY <1>1, <2>3, <2>4 DEF Contents
<1> QED  BY <1>2, <1>3

\* What the backup of a directory holds of the files that were found, in every publication
\* of it, whatever became of earlier ones.
DirectoryInv ==
    kind = "directory" =>
        /\ Doing("backup") => backup = Absent /\ target = work.base
        /\ Doing("place") => backup = work.base /\ target = Absent
        /\ Doing("clean") => target = [f \in Files |-> count]
        /\ work.step \in {"clean", "undo", "restore"} =>
              /\ \A f \in Files : backup[f] \in {0, work.base[f]}
              /\ Doing("undo") => work.left = Here(target) /\ backup # Absent
              /\ Doing("undo") \/ work.left = Here(backup)
        /\ Doing("restore") => target = IF backup = Absent THEN work.base ELSE Absent

\* The step of a publication that an operation is in.
LEMMA StepFacts ==
    ASSUME TypeOK
    PROVE  /\ target \in Contents /\ backup \in Contents /\ work.base \in Contents
           /\ work \in JobType /\ work.left \subseteq Files /\ count \in Nat
           /\ ~Doing("idle") => count # 0 /\ work.existing = Here(work.base)
           /\ NoWork.step = "idle"
BY IdleFacts DEF TypeOK, JobType

\* A publication that turns to its recovery has the files it found in the backup, or part
\* of them once their deletion has begun.
LEMMA DirectoryRecovers ==
    ASSUME TypeOK, DirectoryInv, Recover, kind = "directory", UNCHANGED <<kind, target, backup>>,
           Doing("backup") \/ Doing("place") \/ Doing("clean")
    PROVE  DirectoryInv'
<1>1. /\ target \in Contents /\ backup \in Contents /\ work.base \in Contents /\ work \in JobType
      /\ work.existing = Here(work.base) /\ ~Doing("idle") /\ count \in Nat \ {0}
    BY StepFacts DEF Doing
<1>2. Removed = IF backup = Absent THEN {} ELSE Here(target)
    BY DEF Removed
<1>3. Here(target) = {} => target = Absent
    BY <1>1, AbsentFacts
<1>4. backup = Absent <=> Here(backup) = {}
    BY <1>1, AbsentFacts
<1>5. \A f \in Files : backup[f] \in {0, work.base[f]}
    BY <1>1, AbsentFacts DEF DirectoryInv, Doing
<1>6. CASE Removed = {}
    <2>1. /\ work'.step = "restore" /\ work'.left = Here(backup) /\ work'.base = work.base
        BY <1>1, <1>6, ThenRestoreFacts DEF Recover
    <2>2. target = IF backup = Absent THEN work.base ELSE Absent
        <3>1. CASE Doing("backup")
            BY <3>1 DEF DirectoryInv
        <3>2. CASE Doing("place")
            BY <3>2 DEF DirectoryInv
        <3>3. CASE Doing("clean")
            <4>1. work.left = Here(backup) /\ work.left # {}
                BY <3>3 DEF DirectoryInv, TypeOK, Doing
            <4> QED  BY <1>2, <1>3, <1>4, <1>6, <4>1
        <3> QED  BY <3>1, <3>2, <3>3
    <2> QED  BY <1>5, <2>1, <2>2 DEF DirectoryInv, Doing, Here
<1>7. CASE Removed # {}
    <2>1. /\ work'.step = "undo" /\ work'.left = Removed /\ work'.base = work.base
        BY <1>1, <1>7 DEF Recover, JobType
    <2> QED  BY <1>2, <1>5, <1>7, <2>1 DEF DirectoryInv, Doing, Here
<1> QED  BY <1>6, <1>7

\* Every step of a directory's publication keeps the invariant of its backup.
LEMMA DirectoryStep == TypeOK /\ DirectoryInv /\ [PublicationNext]_publicationVars => DirectoryInv'
<1> SUFFICES ASSUME TypeOK, DirectoryInv, [PublicationNext]_publicationVars, kind' = "directory"
             PROVE  DirectoryInv'
    BY DEF DirectoryInv
<1>1. kind = "directory"
    BY DEF PublicationNext, Publish, Backup, Place, Clean, Undo, Restore, Fault, Interrupt, Crash,
           Tidy, publicationVars
<1>2. /\ target \in Contents /\ backup \in Contents /\ work.base \in Contents /\ work \in JobType
      /\ work.left \subseteq Files /\ count \in Nat /\ NoWork.step = "idle"
      /\ ~Doing("idle") => count # 0 /\ work.existing = Here(work.base)
    BY StepFacts
<1>3. ASSUME work' = NoWork PROVE DirectoryInv'
    BY <1>2, <1>3 DEF DirectoryInv, Doing
<1>4. CASE Publish
    <2>1. /\ backup = Absent /\ UNCHANGED <<kind, target, backup>>
          /\ work'.base = target
          /\ Here(target) = {} => work'.step = "place"
          /\ Here(target) # {} => work'.step = "backup"
        BY <1>1, <1>4 DEF Publish, NoWork
    <2>2. Here(target) = {} => target = Absent
        BY <1>2, AbsentFacts
    <2> QED  BY <1>1, <2>1, <2>2 DEF DirectoryInv, Doing
<1>5. CASE Backup
    <2>1. Doing("backup") /\ work.left # {} /\ Moved = Files /\ kind' = kind
        BY <1>1, <1>5, MovedFacts DEF Backup, TypeOK, Doing
    <2>2. /\ backup' = [f \in Files |-> target[f]] /\ target' = [f \in Files |-> 0]
          /\ work' = [work EXCEPT !.step = "place", !.left = Files]
        BY <1>2, <1>5, <2>1 DEF Backup
    <2>3. backup' = work.base /\ target' = Absent
        BY <1>1, <1>2, <2>1, <2>2 DEF DirectoryInv, Contents, Absent
    <2> QED  BY <1>2, <2>1, <2>2, <2>3 DEF DirectoryInv, Doing, JobType
<1>6. CASE Place
    <2>1. Doing("place") /\ work.left # {} /\ Moved = Files /\ kind' = kind /\ backup' = backup
        BY <1>1, <1>6, MovedFacts DEF Place, TypeOK, Doing
    <2>2. /\ target' = [f \in Files |-> count] /\ count' = count
          /\ work' = Then("clean", Here(backup))
        BY <1>1, <1>2, <1>6, <2>1 DEF Place
    <2>3. CASE Here(backup) = {}
        BY <1>3, <2>2, <2>3 DEF Then
    <2>4. CASE Here(backup) # {}
        <3>1. work'.step = "clean" /\ work'.left = Here(backup) /\ work'.base = work.base
            BY <1>2, <2>2, <2>4 DEF Then, JobType
        <3>2. backup = work.base
            BY <1>1, <2>1 DEF DirectoryInv
        <3> QED  BY <2>1, <2>2, <3>1, <3>2 DEF DirectoryInv, Doing, Here
    <2> QED  BY <2>3, <2>4
<1>7. CASE Clean
    <2>1. PICK f \in work.left :
              /\ Doing("clean") /\ backup' = [backup EXCEPT ![f] = 0]
              /\ UNCHANGED <<kind, target, count>> /\ work' = Then("clean", work.left \ {f})
        BY <1>7 DEF Clean
    <2>2. CASE work.left \ {f} = {}
        BY <1>3, <2>1, <2>2 DEF Then
    <2>3. CASE work.left \ {f} # {}
        <3>1. work'.step = "clean" /\ work'.left = work.left \ {f} /\ work'.base = work.base
            BY <1>2, <2>1, <2>3 DEF Then, JobType
        <3>2. /\ \A g \in Files : backup[g] \in {0, work.base[g]}
              /\ work.left = Here(backup) /\ target = [g \in Files |-> count]
            BY <1>1, <2>1 DEF DirectoryInv, Doing
        <3>3. \A g \in Files : backup'[g] = IF g = f THEN 0 ELSE backup[g]
            BY <1>2, <2>1 DEF Contents
        <3>4. Here(backup') = work.left \ {f}
            BY <3>2, <3>3 DEF Here
        <3>5. Here(backup)' = Here(backup')
            BY DEF Here
        <3>6. \A g \in Files : backup'[g] \in {0, work'.base[g]}
            BY <3>1, <3>2, <3>3
        <3> QED  BY <2>1, <3>1, <3>2, <3>4, <3>5, <3>6 DEF DirectoryInv, Doing
    <2> QED  BY <2>2, <2>3
<1>8. CASE Undo
    <2>1. PICK f \in work.left :
              /\ Doing("undo") /\ target' = [target EXCEPT ![f] = 0]
              /\ UNCHANGED <<kind, backup, count>>
              /\ work' = IF work.left = {f} THEN ThenRestore(work)
                         ELSE [work EXCEPT !.left = work.left \ {f}]
        BY <1>8 DEF Undo
    <2>2. /\ \A g \in Files : backup[g] \in {0, work.base[g]}
          /\ work.left = Here(target) /\ backup # Absent
        BY <1>1, <2>1 DEF DirectoryInv, Doing
    <2>3. \A g \in Files : target'[g] = IF g = f THEN 0 ELSE target[g]
        BY <1>2, <2>1 DEF Contents
    <2>4. Here(target') = work.left \ {f} /\ Here(target)' = Here(target') /\ target' \in Contents
        BY <1>2, <2>1, <2>2, <2>3 DEF Here, Contents
    <2>5. CASE work.left = {f}
        <3>1. work'.step = "restore" /\ work'.left = Here(backup) /\ work'.base = work.base
            BY <1>1, <2>1, <2>5, ThenRestoreFacts DEF Doing
        <3>2. target' = Absent
            BY <2>4, <2>5, AbsentFacts
        <3> QED  BY <2>1, <2>2, <3>1, <3>2 DEF DirectoryInv, Doing, Here
    <2>6. CASE work.left # {f}
        <3>1. work'.step = "undo" /\ work'.left = work.left \ {f} /\ work'.base = work.base
            BY <1>2, <2>1, <2>6 DEF Doing, JobType
        <3> QED  BY <2>1, <2>2, <2>4, <3>1 DEF DirectoryInv, Doing
    <2> QED  BY <2>5, <2>6
<1>9. CASE Restore
    <2>1. Doing("restore") /\ (work.left # {} => Moved = Files)
        BY <1>1, <1>9, MovedFacts DEF Restore
    <2>2. work' = NoWork
        BY <1>2, <1>9, <2>1 DEF Restore, Then
    <2> QED  BY <1>3, <2>2
<1>10. CASE Fault
    <2>1. backup' = backup /\ UNCHANGED <<kind, target>> /\ ~Doing("idle")
        BY <1>1, <1>10 DEF Fault, CutShort
    <2>2. CASE Doing("backup") \/ Doing("place") \/ Doing("clean")
        BY <1>1, <1>10, <2>1, <2>2, DirectoryRecovers DEF Fault
    <2>3. CASE ~(Doing("backup") \/ Doing("place") \/ Doing("clean"))
        <3>1. work' = NoWork
            BY <1>1, <1>10, <2>3 DEF Fault, GiveUp
        <3> QED  BY <1>3, <3>1
    <2> QED  BY <2>2, <2>3
<1>11. CASE Crash
    BY <1>3, <1>11 DEF Crash
<1>12. CASE Interrupt
    BY <1>1, <1>12 DEF Interrupt
<1>13. CASE Tidy
    <2>1. Doing("idle") /\ work' = work
        BY <1>13 DEF Tidy
    <2> QED  BY <2>1 DEF DirectoryInv, Doing
<1>14. CASE UNCHANGED publicationVars
    BY <1>14 DEF publicationVars, DirectoryInv, Doing, Here
<1> QED  BY <1>4, <1>5, <1>6, <1>7, <1>8, <1>9, <1>10, <1>11, <1>12, <1>13, <1>14 DEF PublicationNext

\* The backup of a directory holds what was found, in every publication.
LEMMA DirectoryInvHolds == PublicationSpec => []DirectoryInv
<1>1. PublicationInit => DirectoryInv
    BY DEF PublicationInit, NoWork, DirectoryInv, Doing
<1> QED  BY <1>1, DirectoryStep, TypeCorrect, PTL DEF PublicationSpec

\* When a directory is put back, it is put back as it was found or short of the files
\* that had been deleted.
LEMMA DirectoryEnds ==
    ASSUME TypeOK, DirectoryInv, kind = "directory", Place \/ Clean \/ Restore, work'.step = "idle"
    PROVE  target' = work.base \/ (Whole(target') /\ target'[Manifest] = count) \/ PartOfOld
<1>1. /\ target \in Contents /\ backup \in Contents /\ work.base \in Contents /\ work.left \subseteq Files
      /\ count \in Nat /\ (~Doing("idle") => count # 0)
    BY StepFacts
<1>2. ASSUME ~Doing("idle"), target' = [f \in Files |-> count]
      PROVE  Whole(target') /\ target'[Manifest] = count
    <2>1. target' \in Contents
        BY <1>1, <1>2 DEF Contents
    <2> QED  BY <1>1, <1>2, <2>1, AbsentFacts, FilesFacts
<1>3. CASE Place
    <2>1. Doing("place") /\ work.left # {} /\ Moved = Files
        BY <1>3, MovedFacts DEF Place, TypeOK, Doing
    <2>2. target' = [f \in Files |-> count]
        BY <1>3, <2>1 DEF Place
    <2> QED  BY <1>2, <2>1, <2>2 DEF Doing
<1>4. CASE Clean
    <2>1. Doing("clean") /\ target' = target
        BY <1>4 DEF Clean
    <2>2. target' = [f \in Files |-> count]
        BY <2>1 DEF DirectoryInv
    <2> QED  BY <1>2, <2>1, <2>2 DEF Doing
<1>5. CASE Restore
    <2>1. Doing("restore") /\ work.left = Here(backup) /\ (\A f \in Files : backup[f] \in {0, work.base[f]})
          /\ target = IF backup = Absent THEN work.base ELSE Absent
        BY <1>5 DEF Restore, DirectoryInv, Doing
    <2>2. CASE work.left = {}
        <3>1. target' = target /\ backup = Absent
            BY <1>1, <1>5, <2>1, <2>2, AbsentFacts DEF Restore
        <3> QED  BY <2>1, <3>1
    <2>3. CASE work.left # {}
        <3>1. Moved = Files /\ target = Absent
            BY <1>1, <2>1, <2>3, MovedFacts, AbsentFacts
        <3>2. target' = [f \in Files |-> IF f \in Here(backup) THEN backup[f] ELSE target[f]]
            BY <1>5, <2>3, <3>1 DEF Restore, Here
        <3>3. \A f \in Files : target'[f] = backup[f]
            BY <3>1, <3>2, FilesFacts DEF Here
        <3>4. target' = backup
            BY <1>1, <3>2, <3>3 DEF Contents
        <3> QED  BY <2>1, <3>3, <3>4 DEF PartOfOld
    <2> QED  BY <2>2, <2>3
<1> QED  BY <1>3, <1>4, <1>5

\* A publication that is neither killed nor interrupted and whose recovery does not fail
\* ends with the files it found or all of the new ones; a directory may also end with
\* part of the files it found, when the deletion of its backup has failed.
THEOREM EndsWithOldOrNew == PublicationSpec => OldOrNew
<1>1. IInv /\ DirectoryInv /\ PublicationNext => EndsOldOrNew
    <2> SUFFICES ASSUME IInv, DirectoryInv, PublicationNext, ~Doing("idle"), work'.step = "idle",
                        crashes' = crashes, ~RecoveryFails,
                        kind = "transcript" => ~broken /\ crashes = 0
                 PROVE  \/ target' = work.base
                        \/ Whole(target') /\ target'[Manifest] = count
                        \/ PartOfOld
        BY DEF EndsOldOrNew
    <2>1. /\ work \in JobType /\ kind \in Kinds /\ target \in Contents /\ count \in Nat
          /\ crashes \in Nat /\ faults \in Nat /\ count # 0 /\ TypeOK
        BY DEF IInv, TypeOK
    <2>2. kind # "directory" => Sound
        BY <2>1, KindAssumption DEF Sound
    <2>3. ASSUME Sound, Doing("clean")
          PROVE  Whole(target) /\ target[Manifest] = count
        <3>1. target = [f \in Files |-> count]
            BY <2>3 DEF IInv, Phase
        <3> QED  BY <2>1, <3>1, AbsentFacts, FilesFacts
    <2>4. CASE Place
        BY <2>1, <2>2, <2>4, PlaceEnds, DirectoryEnds
    <2>5. CASE Clean
        <3>1. CASE kind = "directory"
            BY <2>1, <2>5, <3>1, DirectoryEnds
        <3>2. CASE kind # "directory"
            BY <2>2, <2>3, <2>5, <3>2 DEF Clean
        <3> QED  BY <3>1, <3>2
    <2>6. CASE Restore
        BY <2>1, <2>2, <2>6, RestoreEnds, DirectoryEnds
    <2>7. CASE Fault
        <3>1. ~Doing("undo") /\ ~Doing("restore")
            BY <2>1, <2>7 DEF Fault, RecoveryFails
        <3>2. ~Recover
            <4>1. ASSUME Recover PROVE FALSE
                <5>1. CASE Removed = {}
                    BY <2>1, <4>1, <5>1, ThenRestoreFacts DEF Recover
                <5>2. CASE Removed # {}
                    BY <2>1, <4>1, <5>2 DEF Recover, JobType
                <5> QED  BY <5>1, <5>2
            <4> QED  BY <4>1
        <3>3. Doing("clean") /\ kind # "directory"
            BY <2>1, <2>7, <3>1, <3>2 DEF Fault, JobType, Steps, Doing
        <3> QED  BY <2>2, <2>3, <2>7, <3>3 DEF Fault
    <2>8. CASE Crash \/ Interrupt
        BY <2>1, <2>8 DEF Crash, Interrupt
    <2>9. CASE Publish \/ Tidy
        BY <2>9 DEF Publish, Tidy
    <2>10. CASE Backup
        <3>1. Doing("backup") /\ work' = IF work.left \ Moved = {}
                                     THEN [work EXCEPT !.step = "place", !.left = Files]
                                     ELSE [work EXCEPT !.left = work.left \ Moved]
            BY <2>10 DEF Backup
        <3> QED  BY <2>1, <3>1 DEF JobType, Doing
    <2>11. CASE Undo
        <3>1. PICK f \in work.left :
                  work' = IF work.left = {f} THEN ThenRestore(work)
                         ELSE [work EXCEPT !.left = work.left \ {f}]
            BY <2>11 DEF Undo
        <3>2. Doing("undo")
            BY <2>11 DEF Undo
        <3> QED  BY <2>1, <3>1, <3>2, ThenRestoreFacts DEF JobType, Doing
    <2> QED  BY <2>4, <2>5, <2>6, <2>7, <2>8, <2>9, <2>10, <2>11 DEF PublicationNext
<1>2. IInv /\ DirectoryInv /\ [PublicationNext]_publicationVars => [EndsOldOrNew]_publicationVars
    BY <1>1
<1> QED  BY <1>2, InvHolds, DirectoryInvHolds, PTL DEF PublicationSpec, OldOrNew

-----------------------------------------------------------------------------
(* Preparation: facts about the lists of work.                             *)

\* The elements of a finite set of numbers can be listed in ascending order: an element
\* goes to the place that the number of elements up to it gives.
LEMMA Listable ==
    ASSUME NEW S, IsFiniteSet(S), S \subseteq Int
    PROVE  \E seq \in [1..Cardinality(S) -> S] :
               \A i, j \in DOMAIN seq : i < j => seq[i] < seq[j]
<1> DEFINE n == Cardinality(S)
           upTo(x) == {y \in S : y <= x}
           rank == [x \in S |-> Cardinality(upTo(x))]
<1>1. n \in Nat
    BY FS_CardinalityType
<1>2. ASSUME NEW x \in S PROVE IsFiniteSet(upTo(x)) /\ rank[x] \in 1..n
    <2>1. upTo(x) \in SUBSET S /\ x \in upTo(x)
        OBVIOUS
    <2>2. IsFiniteSet(upTo(x)) /\ Cardinality(upTo(x)) <= n
        BY <2>1, FS_Subset
    <2>3. Cardinality(upTo(x)) \in Nat /\ Cardinality(upTo(x)) # 0
        BY <2>1, <2>2, FS_CardinalityType, FS_EmptySet
    <2> QED  BY <1>1, <2>2, <2>3
<1>3. ASSUME NEW x \in S, NEW y \in S, x < y PROVE rank[x] < rank[y]
    <2> x \in Int /\ y \in Int
        OBVIOUS
    <2>5. \A z \in S : z \in Int /\ (z <= x => z <= y)
        BY <1>3
    <2>6. y <= y /\ ~(y <= x)
        BY <1>3
    <2>1. upTo(x) \in SUBSET upTo(y) /\ y \in upTo(y) /\ y \notin upTo(x)
        <3>1. upTo(x) \subseteq upTo(y)
            BY <2>5
        <3> QED  BY <3>1, <2>6
    <2>2. Cardinality(upTo(x)) <= Cardinality(upTo(y)) /\ Cardinality(upTo(x)) # Cardinality(upTo(y))
        BY <2>1, <1>2, FS_Subset
    <2>3. rank[x] = Cardinality(upTo(x)) /\ rank[y] = Cardinality(upTo(y))
        OBVIOUS
    <2>4. rank[x] \in Int /\ rank[y] \in Int
        BY <1>1, <1>2
    <2> HIDE DEF rank, upTo
    <2> QED  BY <2>2, <2>3, <2>4
<1> HIDE DEF upTo
<1>4. rank \in [S -> 1..n] /\ \A x, y \in S : rank[x] = rank[y] => x = y
    <2>1. rank \in [S -> 1..n]
        BY <1>2
    <2>2. ASSUME NEW x \in S, NEW y \in S, rank[x] = rank[y], x # y PROVE FALSE
        <3>1. rank[x] \in Int /\ rank[y] \in Int /\ (x < y \/ y < x)
            BY <1>1, <1>2, <2>2
        <3> QED  BY <3>1, <1>3, <2>2
    <2> QED  BY <2>1, <2>2
<1> HIDE DEF rank
<1>5. rank \in Bijection(S, 1..n)
    <2>1. rank \in Injection(S, 1..n)
        BY <1>4, Fun_IsInj
    <2>2. IsFiniteSet(1..n) /\ Cardinality(1..n) = n
        BY <1>1, FS_Interval
    <2>3. rank \in Surjection(S, 1..n)
        BY <2>1, <2>2, FS_Injection
    <2> QED  BY <2>1, <2>3, Fun_IsBij
<1> DEFINE seq == Inverse(rank, S, 1..n)
<1>6. seq \in [1..n -> S] /\ \A i \in 1..n : rank[seq[i]] = i
    <2>1. seq \in Bijection(1..n, S) /\ \A x \in S : seq[rank[x]] = x
        BY <1>5, Fun_BijInverse
    <2>2. seq \in [1..n -> S] /\ \A i \in 1..n : \E x \in S : rank[x] = i
        BY <2>1, <1>5 DEF Bijection, Injection, Surjection
    <2> HIDE DEF seq
    <2> QED  BY <2>1, <2>2
<1>7. ASSUME NEW i \in 1..n, NEW j \in 1..n, i < j PROVE seq[i] < seq[j]
    <2> HIDE DEF seq
    <2>1. seq[i] \in S /\ seq[j] \in S /\ seq[i] \in Int /\ seq[j] \in Int
        BY <1>6
    <2>2. seq[j] < seq[i] => j < i
        BY <2>1, <1>3, <1>6
    <2>3. seq[i] # seq[j]
        BY <1>6, <1>7
    <2> QED  BY <2>1, <2>2, <2>3, <1>7, <1>1
<1> QED  BY <1>6, <1>7

\* What InOrder promises: each element is listed.
LEMMA InOrderLists ==
    ASSUME NEW S, IsFiniteSet(S), S \subseteq Int
    PROVE  InOrder(S) \in Seq(S) /\ ToSet(InOrder(S)) = S
<1> DEFINE seq == InOrder(S)
           n == Cardinality(S)
<1>1. n \in Nat
    BY FS_CardinalityType
<1>2. seq \in [1..n -> S] /\ \A i, j \in DOMAIN seq : i < j => seq[i] < seq[j]
    BY Listable DEF InOrder
<1> HIDE DEF seq
<1>3. seq \in Injection(1..n, S)
    <2>1. ASSUME NEW i \in 1..n, NEW j \in 1..n, seq[i] = seq[j], i # j PROVE FALSE
        <3>1. i < j \/ j < i
            BY <1>1, <2>1
        <3>2. seq[i] \in Int
            BY <1>2
        <3> QED  BY <3>1, <3>2, <1>2, <2>1
    <2> QED  BY <2>1, <1>2, Fun_IsInj
<1>4. seq \in Surjection(1..n, S)
    <2>1. IsFiniteSet(1..n) /\ Cardinality(1..n) = n
        BY <1>1, FS_Interval
    <2> QED  BY <2>1, <1>3, FS_Injection
<1>5. \A x \in S : \E i \in 1..n : seq[i] = x
    BY <1>4 DEF Surjection
<1>6. ToSet(seq) = S
    BY <1>2, <1>5 DEF ToSet
<1>7. seq \in Seq(S)
    BY <1>1, <1>2
<1> QED  BY <1>6, <1>7 DEF seq

-----------------------------------------------------------------------------
(* What the variables hold.                                                *)

Stores == Lineages \cup {0}

CaptionJobs == [stage : {"caption"}, told : Stores, served : Revisions, rows : [Frames -> Rows],
                since : Nat, todo : Seq(Frames)]
OcrJobs == [stage : {"ocr"}, rows : [Frames -> Rows], revision : Revisions, loaded : BOOLEAN,
            kept : SUBSET Frames, todo : Seq(Frames)]
ObjectJobs == [stage : {"objects"}, batch : SUBSET Frames, todo : Seq(Frames)]
TranscriptJobs == [stage : {"asr"}, todo : Seq(Videos), resume : BOOLEAN, failed : SUBSET Videos]

FrameIds == Videos \X Frames
Vectors == [id : FrameIds, by : Nat]
VisualJobs == [stage : {"visual-index"}, todo : Seq(Slices),
               vectors : UNION {[some -> Vectors] : some \in SUBSET Frames},
               failed : SUBSET Frames]

Jobs == {Idle} \cup CaptionJobs \cup OcrJobs \cup ObjectJobs \cup TranscriptJobs \cup VisualJobs

JournalEntries == {"none", "running", "done", "failed"}

SharedOK ==
    /\ config \in Configs /\ lineage \in Lineages /\ upstream \in Revisions /\ plan \in Plans
    /\ {runs, stops} \subseteq Nat
    /\ job \in Jobs
    /\ journal \in [plan.stages \cap Journaled -> JournalEntries]

Manifests ==
    {NoManifest} \cup [kind : {"in_progress"}, lineage : Stores, revision : Revisions]
        \cup [kind : {"complete"}, config : Configs, lineage : Stores, revision : Revisions]
Published == [rows : [Frames -> Rows], manifest : Manifests]

Identities == [source : Sources \cup {0}, version : Nat, setting : Nat]
Pairs == [segments : [count : Nat \cup {-1}, by : Identities], manifest : Identities, count : Nat,
          failed : BOOLEAN]

Shards == [ids : UNION {[some -> FrameIds] : some \in SUBSET Frames}, by : Nat]

\* The last run of the image index is recorded as a success.
VisualDone == "visual-index" \in DOMAIN journal /\ journal["visual-index"] = "done"

-----------------------------------------------------------------------------
(* Facts about the frames, the jobs and the journal.                       *)

\* There are finitely many frames, and at least one.
LEMMA FramesFacts ==
    /\ FrameCount \in Nat \ {0} /\ BatchSize \in Nat \ {0} /\ Frames \subseteq Nat \ {0}
    /\ 1 \in Frames /\ IsFiniteSet(Frames)
    /\ \A l \in Lineages, f \in Frames : IdOf(l, f) \in FrameIds
<1>1. FrameCount \in Nat \ {0} /\ BatchSize \in Nat \ {0}
    BY CountAssumption
<1>2. IsFiniteSet(Frames)
    BY <1>1, FS_Interval DEF Frames
<1>3. ASSUME NEW l \in Lineages, NEW f \in Frames PROVE IdOf(l, f) \in FrameIds
    BY VideoAssumption DEF IdOf, FrameIds
<1> QED  BY <1>1, <1>2, <1>3 DEF Frames

\* The work of a job lists frames.
LEMMA TodoOfFrames ==
    ASSUME NEW some \in SUBSET Frames
    PROVE  InOrder(some) \in Seq(Frames) /\ ToSet(InOrder(some)) = some
<1>1. IsFiniteSet(some) /\ some \subseteq Int
    <2>1. IsFiniteSet(some)
        BY FramesFacts, FS_Subset
    <2> QED  BY <2>1, FramesFacts
<1>2. InOrder(some) \in Seq(some) /\ ToSet(InOrder(some)) = some
    BY <1>1, InOrderLists
<1> QED  BY <1>2, SeqMonotonic

\* A prefix, and what is left behind one, list frames again.
LEMMA PartsOfFrames ==
    ASSUME NEW todo \in Seq(Frames)
    PROVE  /\ \A n \in 0..Len(todo) : SubSeq(todo, 1, n) \in Seq(Frames)
           /\ Rest(todo) \in Seq(Frames)
           /\ Chunk(todo) \subseteq Frames /\ IsFiniteSet(Chunk(todo))
<1>1. Len(todo) \in Nat /\ \A i \in 1..Len(todo) : todo[i] \in Frames
    BY LenProperties, ElementOfSeq
<1>2. ASSUME NEW n \in 0..Len(todo) PROVE SubSeq(todo, 1, n) \in Seq(Frames)
    BY <1>1, SubSeqProperties
<1>3. Rest(todo) \in Seq(Frames)
    <2>1. \A i \in (BatchSize + 1)..Len(todo) : todo[i] \in Frames
        BY <1>1, FramesFacts
    <2> QED  BY <1>1, <2>1, FramesFacts, SubSeqProperties DEF Rest
<1>4. Chunk(todo) \subseteq Frames /\ IsFiniteSet(Chunk(todo))
    BY <1>1, FramesFacts, LenProperties, FS_Subset DEF Chunk
<1> QED  BY <1>2, <1>3, <1>4

\* What is left after the first element is taken off a list.
LEMMA TakenOff ==
    ASSUME NEW S, NEW todo \in Seq(S), todo # <<>>
    PROVE  /\ Head(todo) \in S /\ Tail(todo) \in Seq(S)
           /\ ToSet(todo) \subseteq {Head(todo)} \cup ToSet(Tail(todo))
<1>1. /\ Head(todo) \in S /\ Tail(todo) \in Seq(S)
      /\ Len(Tail(todo)) = Len(todo) - 1
      /\ \A i \in 1..Len(Tail(todo)) : Tail(todo)[i] = todo[i + 1]
    BY HeadTailProperties
<1>2. ASSUME NEW v \in ToSet(todo) PROVE v \in {Head(todo)} \cup ToSet(Tail(todo))
    <2>1. Len(todo) \in Nat /\ DOMAIN todo = 1..Len(todo) /\ DOMAIN Tail(todo) = 1..Len(Tail(todo))
        BY <1>1, LenProperties
    <2>2. PICK i \in 1..Len(todo) : v = todo[i]
        BY <2>1 DEF ToSet
    <2>3. CASE i = 1
        BY <2>2, <2>3
    <2>4. CASE i # 1
        <3>1. i - 1 \in 1..Len(Tail(todo)) /\ Tail(todo)[i - 1] = todo[(i - 1) + 1]
            BY <1>1, <2>1, <2>4
        <3>2. (i - 1) + 1 = i
            BY <2>1
        <3>3. i - 1 \in DOMAIN Tail(todo) /\ Tail(todo)[i - 1] = v
            BY <2>1, <2>2, <3>1, <3>2
        <3> QED  BY <3>3 DEF ToSet
    <2> QED  BY <2>3, <2>4
<1> QED  BY <1>1, <1>2

\* A job of a stage has the fields of that stage.
LEMMA JobKinds ==
    ASSUME SharedOK
    PROVE  /\ At("none") => job = Idle
           /\ At("caption") => job \in CaptionJobs
           /\ At("ocr") => job \in OcrJobs
           /\ At("objects") => job \in ObjectJobs
           /\ At("asr") => job \in TranscriptJobs
           /\ At("visual-index") => job \in VisualJobs
    BY DEF SharedOK, Jobs, At, Idle, CaptionJobs, OcrJobs, ObjectJobs, TranscriptJobs, VisualJobs

\* The journal keeps its stages; the image index is recorded as a success by its own end only.
LEMMA Recorded ==
    ASSUME SharedOK, NEW stage, NEW status \in JournalEntries, Records(stage, status), plan' = plan
    PROVE  /\ journal' \in [plan'.stages \cap Journaled -> JournalEntries]
           /\ VisualDone' => \/ VisualDone /\ stage # "visual-index"
                             \/ stage = "visual-index" /\ status = "done"
<1> DEFINE recorded == plan.stages \cap Journaled
<1>1. journal \in [recorded -> JournalEntries]
    BY DEF SharedOK
<1>2. \/ stage \in recorded /\ journal' = [journal EXCEPT ![stage] = status]
      \/ stage \notin recorded /\ journal' = journal
    BY <1>1 DEF Records
<1> HIDE DEF recorded
<1>3. journal' \in [recorded -> JournalEntries]
    BY <1>1, <1>2
<1>4. \A s \in recorded : journal'[s] = IF s = stage THEN status ELSE journal[s]
    BY <1>1, <1>2
<1>5. VisualDone' => "visual-index" \in recorded /\ journal'["visual-index"] = "done"
    BY <1>3 DEF VisualDone
<1>6. VisualDone' => \/ VisualDone /\ stage # "visual-index"
                     \/ stage = "visual-index" /\ status = "done"
    BY <1>1, <1>4, <1>5 DEF VisualDone
<1> QED  BY <1>3, <1>6 DEF recorded

\* A row of the current settings is a row of the artifact, and states them.
LEMMA RowFacts ==
    ASSUME SharedOK, NEW told \in Stores, NEW status \in Statuses, NEW revision \in Revisions,
           NEW text \in BOOLEAN
    PROVE  /\ Row(told, status, revision, text) \in Rows
           /\ Row(told, status, revision, text).version = config.version
           /\ Row(told, status, revision, text).model = config.model
           /\ Row(told, status, revision, text).lineage = told
<1>1. config \in Settings /\ lineage \in Lineages /\ 0 \in Revisions
    BY ConfigAssumption DEF SharedOK
<1>2. PICK by : by = IF status = "completed" THEN [setting |-> config.setting, revision |-> revision]
                     ELSE Unmade
    OBVIOUS
<1>3. by \in [setting : Nat, revision : Revisions]
    BY <1>1, <1>2 DEF Settings, Unmade
<1>4. Row(told, status, revision, text) =
          [status |-> status, version |-> config.version, model |-> config.model,
           lineage |-> told, store |-> lineage, revision |-> revision, text |-> text, by |-> by]
    BY <1>2 DEF Row
<1>5. config.version \in Nat /\ config.model \in Nat
    BY <1>1 DEF Settings
<1> QED  BY <1>1, <1>3, <1>4, <1>5 DEF Rows, Stores

-----------------------------------------------------------------------------
(* Steps of the jobs, whatever their stage.                                *)

\* A step of a stage's job, or of starting or ending one.
Within(stage) ==
    /\ SharedOK' /\ job'.stage \in {stage, "none"}
    /\ config' = config /\ lineage' = lineage /\ upstream' = upstream
    /\ VisualDone' => VisualDone

\* Starting a job leaves the other stages alone.
LEMMA StartsWithin ==
    ASSUME SharedOK, NEW started \in Jobs, started.stage # "none", Starts(started)
    PROVE  Within(started.stage) /\ job' = started
<1>1. /\ job' = started /\ Records(started.stage, "running") /\ runs' = runs + 1
      /\ UNCHANGED <<config, lineage, upstream, plan, stops>>
    BY DEF Starts
<1>2. /\ journal' \in [plan'.stages \cap Journaled -> JournalEntries] /\ (VisualDone' => VisualDone)
    <2>1. "running" \in JournalEntries
        BY DEF JournalEntries
    <2> QED  BY <1>1, <2>1, Recorded
<1>3. SharedOK'
    BY <1>1, <1>2 DEF SharedOK
<1> QED  BY <1>1, <1>2, <1>3 DEF Within

\* So does working on it,
LEMMA WorksWithin ==
    ASSUME SharedOK, NEW next \in Jobs, Works(next)
    PROVE  Within(next.stage) /\ job' = next
<1>1. job' = next /\ UNCHANGED <<config, lineage, upstream, journal, plan, runs, stops>>
    BY DEF Works
<1>2. SharedOK' /\ (VisualDone' => VisualDone)
    BY <1>1 DEF SharedOK, VisualDone
<1> QED  BY <1>1, <1>2 DEF Within

\* ending it,
LEMMA EndsWithin ==
    ASSUME SharedOK, NEW status \in {"done", "failed"}, Records(job.stage, status), job' = Idle,
           UNCHANGED <<config, lineage, upstream, plan, runs, stops>>
    PROVE  /\ SharedOK'
           /\ ~At("visual-index") \/ status = "failed" => Within(job.stage)
<1>1. /\ journal' \in [plan'.stages \cap Journaled -> JournalEntries]
      /\ VisualDone' => \/ VisualDone /\ job.stage # "visual-index"
                        \/ job.stage = "visual-index" /\ status = "done"
    <2>1. status \in JournalEntries
        BY DEF JournalEntries
    <2> QED  BY <2>1, Recorded
<1>2. SharedOK'
    BY <1>1 DEF SharedOK, Jobs
<1> QED  BY <1>1, <1>2 DEF Within, Idle, At

\* doing a job in one step,
LEMMA AtOnceWithin ==
    ASSUME SharedOK, NEW stage, stage # "visual-index", At("none"), runs' = runs + 1, job' = job,
           \E status \in {"done", "failed"} : Records(stage, status),
           UNCHANGED <<config, lineage, upstream, plan, stops>>
    PROVE  Within(stage)
<1>1. PICK status \in {"done", "failed"} : Records(stage, status)
    OBVIOUS
<1>2. journal' \in [plan'.stages \cap Journaled -> JournalEntries] /\ (VisualDone' => VisualDone)
    <2>1. status \in JournalEntries
        BY DEF JournalEntries
    <2> QED  BY <1>1, <2>1, Recorded
<1>3. SharedOK'
    BY <1>2 DEF SharedOK
<1> QED  BY <1>2, <1>3 DEF Within, At

\* and dying.
LEMMA DiesWithin ==
    ASSUME SharedOK, Dies
    PROVE  Within(job.stage) /\ job' = Idle
<1>1. PICK status \in {"running", "failed"} : Records(job.stage, status)
    BY DEF Dies
<1>2. /\ job' = Idle /\ stops' = stops + 1
      /\ UNCHANGED <<config, lineage, upstream, plan, runs>>
    BY DEF Dies
<1>3. journal' \in [plan'.stages \cap Journaled -> JournalEntries] /\ (VisualDone' => VisualDone)
    <2>1. status \in JournalEntries
        BY DEF JournalEntries
    <2> QED  BY <1>1, <1>2, <2>1, Recorded
<1>4. SharedOK'
    BY <1>2, <1>3 DEF SharedOK, Jobs
<1> QED  BY <1>2, <1>3, <1>4 DEF Within, Idle

-----------------------------------------------------------------------------
(* Captions.                                                               *)

\* The rows of a caption job are all of the settings it runs with and of the frame store it
\* was told, those it took over too; the settings cannot change before it ends.
OwnRow(told, row) ==
    /\ row.version = config.version /\ row.model = config.model
    /\ told # 0 => row.lineage = told
CaptionJob == At("caption") => \A f \in Frames : OwnRow(job.told, job.rows[f])

CaptionsOK == captions \in Published /\ CaptionJob /\ CaptionsStated

\* The rows a job takes over are of its own settings and frame store.
LEMMA ResumeFacts ==
    ASSUME SharedOK, CaptionsOK, NEW told \in Stores
    PROVE  /\ ResumeRows(told) \in [Frames -> Rows]
           /\ \A f \in Frames : OwnRow(told, ResumeRows(told)[f])
<1>1. \A f \in Frames : captions.rows[f] \in Rows
    BY DEF CaptionsOK, Published
<1>2. PICK fresh \in Rows : fresh = Row(told, "pending", 0, FALSE) /\ OwnRow(told, fresh)
    <2>1. "pending" \in Statuses /\ 0 \in Revisions
        BY ConfigAssumption DEF Statuses
    <2> QED  BY <2>1, RowFacts DEF OwnRow
<1>3. \A f \in Frames :
          ResumeRows(told)[f] = IF ValidCaption(told, captions.rows[f]) /\ SameFrame(captions.rows[f], f)
                                THEN captions.rows[f] ELSE fresh
    BY <1>2 DEF ResumeRows
<1>4. \A f \in Frames : ResumeRows(told)[f] \in Rows /\ OwnRow(told, ResumeRows(told)[f])
    BY <1>1, <1>2, <1>3 DEF ValidCaption, OwnRow
<1> QED  BY <1>4 DEF ResumeRows

\* So are the rows after a batch.
LEMMA CaptionedFacts ==
    ASSUME SharedOK, CaptionsOK, At("caption"), NEW chunk, NEW unreadable, NEW fails, NEW empty
    PROVE  LET rows == Captioned(chunk, unreadable, fails, empty) IN
           rows \in [Frames -> Rows] /\ \A f \in Frames : OwnRow(job.told, rows[f])
<1> DEFINE rows == Captioned(chunk, unreadable, fails, empty)
<1>1. \A f \in Frames : job.rows[f] \in Rows /\ OwnRow(job.told, job.rows[f])
    BY JobKinds DEF CaptionsOK, CaptionJob, CaptionJobs
<1>2. /\ job.served \in Revisions /\ job.told \in Stores /\ 0 \in Revisions
      /\ {"failed", "completed"} \subseteq Statuses
    BY JobKinds, ConfigAssumption DEF CaptionJobs, Statuses
<1>3. ASSUME NEW f \in Frames PROVE rows[f] \in Rows /\ OwnRow(job.told, rows[f])
    <2>2. PICK text \in BOOLEAN : text <=> f \notin empty
        OBVIOUS
    <2>3. \/ rows[f] = job.rows[f]
          \/ rows[f] = FailedCaption
          \/ rows[f] = NewCaption(f \notin empty)
        <3> DEFINE failed == FailedCaption
                   captioned == NewCaption(f \notin empty)
        <3>1. rows[f] = CASE f \notin chunk -> job.rows[f]
                          [] f \in unreadable \/ (f \in chunk /\ fails) -> failed
                          [] OTHER -> captioned
            BY DEF Captioned
        <3> HIDE DEF failed, captioned, rows
        <3>2. rows[f] = job.rows[f] \/ rows[f] = failed \/ rows[f] = captioned
            BY <3>1
        <3> QED  BY <3>2 DEF failed, captioned
    <2>4. FailedCaption \in Rows /\ OwnRow(job.told, FailedCaption)
        BY <1>2, RowFacts DEF OwnRow, FailedCaption
    <2>5. NewCaption(text) \in Rows /\ OwnRow(job.told, NewCaption(text))
        <3>1. PICK row \in Rows : /\ row = Row(job.told, "completed", job.served, text)
                                  /\ OwnRow(job.told, row)
            BY <1>2, RowFacts DEF OwnRow
        <3>2. NewCaption(text) = [row EXCEPT !.by.revision = 0]
            BY <3>1 DEF NewCaption
        <3>3. NewCaption(text) = [row EXCEPT !.by = [row.by EXCEPT !.revision = 0]]
            BY <3>2
        <3>4. [row.by EXCEPT !.revision = 0] \in [setting : Nat, revision : Revisions]
            BY <1>2 DEF Rows
        <3> QED  BY <3>1, <3>3, <3>4 DEF Rows, OwnRow
    <2>6. NewCaption(f \notin empty) = NewCaption(text)
        BY <2>2 DEF NewCaption, Row
    <2> QED  BY <1>1, <2>3, <2>4, <2>5, <2>6
<1> QED  BY <1>3 DEF Captioned

\* What a caption job publishes is of its settings.
LEMMA PublishedCaptions ==
    ASSUME SharedOK, At("caption"), NEW rows \in [Frames -> Rows],
           \A f \in Frames : OwnRow(job.told, rows[f])
    PROVE  /\ [rows |-> rows, manifest |-> CaptionManifest] \in Published
           /\ [rows |-> rows, manifest |-> Checkpoint] \in Published
           /\ [rows |-> rows, manifest |-> NoManifest] \in Published
           /\ \A bundle \in {[rows |-> rows, manifest |-> CaptionManifest],
                             [rows |-> rows, manifest |-> Checkpoint],
                             [rows |-> rows, manifest |-> NoManifest]} :
                  captions' = bundle => CaptionsStated'
<1>1. job.served \in Revisions /\ job.told \in Stores /\ config \in Configs
    BY JobKinds DEF CaptionJobs, SharedOK
<1>2. {CaptionManifest, Checkpoint, NoManifest} \subseteq Manifests
    BY <1>1 DEF CaptionManifest, Checkpoint, NoManifest, Manifests
<1>3. ASSUME captions' = [rows |-> rows, manifest |-> CaptionManifest] PROVE CaptionsStated'
    <2>1. /\ captions'.rows = rows /\ captions'.manifest.config = config
          /\ captions'.manifest.lineage = job.told
        BY <1>3 DEF CaptionManifest
    <2> QED  BY <2>1 DEF CaptionsStated, OwnRow
<1>4. ASSUME captions'.manifest \in {Checkpoint, NoManifest} PROVE CaptionsStated'
    BY <1>4 DEF CaptionsStated, Checkpoint, NoManifest
<1> QED  BY <1>2, <1>3, <1>4 DEF Published

\* Starting a caption job keeps its rows alike.
LEMMA StartCaptionsStep ==
    ASSUME SharedOK, CaptionsOK, StartCaptions
    PROVE  Within("caption") /\ CaptionsOK'
<1>0. PICK told \in Told : \E served \in Served :
          Starts([stage |-> "caption", told |-> told, served |-> served, rows |-> ResumeRows(told),
                  since |-> 0,
                  todo |-> InOrder({f \in Frames : ResumeRows(told)[f].status = "pending"})])
    BY DEF StartCaptions
<1> DEFINE todo == InOrder({f \in Frames : ResumeRows(told)[f].status = "pending"})
<1>1. PICK served \in Served :
          /\ Starts([stage |-> "caption", told |-> told, served |-> served,
                     rows |-> ResumeRows(told), since |-> 0, todo |-> todo])
          /\ captions' = captions
    BY <1>0 DEF StartCaptions
<1> DEFINE started == [stage |-> "caption", told |-> told, served |-> served,
                       rows |-> ResumeRows(told), since |-> 0, todo |-> todo]
<1>2. told \in Stores /\ started \in CaptionJobs
    <2>1. todo \in Seq(Frames)
        BY TodoOfFrames
    <2>2. told \in Stores /\ served \in Revisions
        BY ConfigAssumption DEF Told, Served, Stores, SharedOK, Settings
    <2>3. ResumeRows(told) \in [Frames -> Rows] /\ 0 \in Nat
        BY <2>2, ResumeFacts
    <2> HIDE DEF todo
    <2> QED  BY <2>1, <2>2, <2>3 DEF CaptionJobs
<1>3. /\ Starts(started)
      /\ started.stage = "caption" /\ started.rows = ResumeRows(told) /\ started.told = told
    BY <1>1
<1> HIDE DEF started
<1>4. Within("caption") /\ job' = started
    <2>1. started \in Jobs
        BY <1>2 DEF Jobs
    <2> QED  BY <1>3, <2>1, StartsWithin
<1>5. CaptionJob'
    BY <1>2, <1>3, <1>4, ResumeFacts DEF CaptionJob, OwnRow, Within
<1>6. CaptionsStated'
    BY <1>1 DEF CaptionsOK, CaptionsStated
<1> QED  BY <1>1, <1>4, <1>5, <1>6 DEF CaptionsOK

\* A batch of captions keeps them alike.
LEMMA CaptionBatchStep ==
    ASSUME SharedOK, CaptionsOK, CaptionBatch
    PROVE  Within("caption") /\ CaptionsOK'
<1> USE DEF At
<1>1. At("caption") /\ job \in CaptionJobs
    BY JobKinds DEF CaptionBatch
<1> DEFINE chunk == Chunk(job.todo)
<1>2. PICK unreadable, fails, empty :
          LET rows == Captioned(chunk, unreadable, fails, empty)
              since == job.since + Cardinality(chunk)
              going == [job EXCEPT !.rows = rows, !.todo = Rest(@), !.since = since]
          IN  CASE since < WriteInterval -> Works(going) /\ UNCHANGED captions
                [] since >= WriteInterval /\ Projected(rows) ->
                        /\ Works([going EXCEPT !.since = 0])
                        /\ captions' = [rows |-> rows, manifest |-> Checkpoint]
                [] OTHER -> Ends(FALSE) /\ UNCHANGED captions
    BY DEF CaptionBatch
<1> DEFINE rows == Captioned(chunk, unreadable, fails, empty)
           since == job.since + Cardinality(chunk)
           going == [job EXCEPT !.rows = rows, !.todo = Rest(@), !.since = since]
           stopped == [going EXCEPT !.since = 0]
<1>3. rows \in [Frames -> Rows] /\ \A f \in Frames : OwnRow(job.told, rows[f])
    BY <1>1, CaptionedFacts
<1>4. since \in Nat /\ Rest(job.todo) \in Seq(Frames)
    <2>1. job.todo \in Seq(Frames) /\ job.since \in Nat
        BY <1>1 DEF CaptionJobs
    <2>2. IsFiniteSet(chunk) /\ Rest(job.todo) \in Seq(Frames)
        BY <2>1, PartsOfFrames
    <2> QED  BY <2>1, <2>2, FS_CardinalityType
<1>5. \/ Works(going) /\ captions' = captions
      \/ Works(stopped) /\ captions' = [rows |-> rows, manifest |-> Checkpoint]
      \/ Ends(FALSE) /\ captions' = captions
    BY <1>2
<1> HIDE DEF rows, since, chunk
<1>6. /\ going \in CaptionJobs /\ stopped \in CaptionJobs
      /\ going.rows = rows /\ stopped.rows = rows /\ going.told = job.told /\ stopped.told = job.told
    BY <1>1, <1>3, <1>4 DEF CaptionJobs
<1>7. ASSUME NEW next \in {going, stopped}, Works(next) PROVE Within("caption") /\ CaptionJob'
    <2>1. next \in CaptionJobs /\ next.stage = "caption" /\ next.rows = rows /\ next.told = job.told
        BY <1>6 DEF CaptionJobs
    <2>2. Within("caption") /\ job' = next
        BY <1>7, <2>1, WorksWithin DEF Jobs
    <2> QED  BY <1>3, <2>1, <2>2 DEF CaptionJob, OwnRow, Within
<1>8. ASSUME Ends(FALSE) PROVE Within("caption") /\ CaptionJob'
    <2>1. Records(job.stage, "failed") /\ job' = Idle /\ UNCHANGED <<config, lineage, upstream, plan, runs, stops>>
        BY <1>8 DEF Ends
    <2>2. Within("caption")
        BY <1>1, <2>1, EndsWithin
    <2> QED  BY <2>1, <2>2 DEF CaptionJob, Idle
<1>9. CASE captions' = captions
    <2>1. captions' \in Published /\ CaptionsStated'
        BY <1>9 DEF CaptionsOK, CaptionsStated
    <2> QED  BY <1>5, <1>7, <1>8, <2>1 DEF CaptionsOK
<1>10. CASE Works(stopped) /\ captions' = [rows |-> rows, manifest |-> Checkpoint]
    <2>1. captions' \in Published /\ CaptionsStated'
        BY <1>1, <1>3, <1>10, PublishedCaptions
    <2> QED  BY <1>7, <1>10, <2>1 DEF CaptionsOK
<1> QED  BY <1>5, <1>9, <1>10

\* However a caption job ends, the bundle is of one kind.
LEMMA EndCaptionsStep ==
    ASSUME SharedOK, CaptionsOK, RefuseCaptions \/ FinishCaptions \/ StopCaptions
    PROVE  Within("caption") /\ CaptionsOK'
<1>1. CASE RefuseCaptions
    <2>1. /\ captions' = captions /\ At("none") /\ job' = job /\ runs' = runs + 1
          /\ UNCHANGED <<config, lineage, upstream, plan, stops>>
          /\ \E status \in {"done", "failed"} : Records("caption", status)
        BY <1>1 DEF RefuseCaptions, AtOnce
    <2>2. Within("caption")
        BY <2>1, AtOnceWithin
    <2>3. CaptionJob' /\ CaptionsStated'
        BY <2>1, <2>2 DEF CaptionsOK, CaptionsStated, CaptionJob, At
    <2> QED  BY <2>1, <2>2, <2>3 DEF CaptionsOK
<1>2. CASE FinishCaptions
    <2>1. At("caption") /\ job \in CaptionJobs
        BY <1>2, JobKinds DEF FinishCaptions
    <2>2. job.rows \in [Frames -> Rows] /\ \A f \in Frames : OwnRow(job.told, job.rows[f])
        BY <2>1 DEF CaptionsOK, CaptionJob, CaptionJobs
    <2>3. /\ \/ captions' = [rows |-> job.rows, manifest |-> CaptionManifest]
             \/ captions' = captions
          /\ job' = Idle /\ UNCHANGED <<config, lineage, upstream, plan, runs, stops>>
          /\ \E status \in {"done", "failed"} : Records(job.stage, status)
        BY <1>2 DEF FinishCaptions, Ends
    <2>4. Within("caption")
        BY <2>1, <2>3, EndsWithin DEF At
    <2>5. captions' \in Published /\ CaptionsStated'
        <3>1. CASE captions' = captions
            BY <3>1 DEF CaptionsOK, CaptionsStated
        <3> QED  BY <2>1, <2>2, <2>3, <3>1, PublishedCaptions
    <2> QED  BY <2>3, <2>4, <2>5 DEF CaptionsOK, CaptionJob, At, Idle
<1>3. CASE StopCaptions
    <2>1. At("caption") /\ job \in CaptionJobs /\ Dies
        BY <1>3, JobKinds DEF StopCaptions
    <2>2. job.rows \in [Frames -> Rows] /\ \A f \in Frames : OwnRow(job.told, job.rows[f])
        BY <2>1 DEF CaptionsOK, CaptionJob, CaptionJobs
    <2>3. captions' = captions \/ captions' = [rows |-> job.rows, manifest |-> NoManifest]
        BY <1>3 DEF StopCaptions
    <2>4. Within("caption") /\ job' = Idle
        BY <2>1, DiesWithin DEF At
    <2>5. captions' \in Published /\ CaptionsStated'
        <3>1. CASE captions' = captions
            BY <3>1 DEF CaptionsOK, CaptionsStated
        <3> QED  BY <2>1, <2>2, <2>3, <3>1, PublishedCaptions
    <2> QED  BY <2>4, <2>5 DEF CaptionsOK, CaptionJob, At, Idle
<1> QED  BY <1>1, <1>2, <1>3

\* Every step of the caption stage keeps captions as they are stated.
LEMMA CaptionStep == SharedOK /\ CaptionsOK /\ CaptionNext => Within("caption") /\ CaptionsOK'
    BY StartCaptionsStep, CaptionBatchStep, EndCaptionsStep DEF CaptionNext

-----------------------------------------------------------------------------
(* Transcripts.                                                            *)

\* Segments and manifest of a video that are both there were made together.
PairsBelong ==
    \A v \in Videos : transcripts[v].segments # NoSegments /\ transcripts[v].manifest # NoIdentity
        => transcripts[v].segments.by = transcripts[v].manifest

\* A job has made every video current, unless it failed or is still to come.
Current(v) ==
    transcripts[v].segments.by = IdentityOf(v) /\ transcripts[v].manifest = IdentityOf(v)
TranscriptJob ==
    At("asr") => \A v \in Videos : v \in ToSet(job.todo) \/ v \in job.failed \/ Current(v)

TranscriptsOK ==
    /\ source \in [Videos -> Sources] /\ transcripts \in [Videos -> Pairs]
    /\ PairsBelong /\ TranscriptJob

\* A recording has an identity.
LEMMA IdentityFacts ==
    ASSUME SharedOK, source \in [Videos -> Sources], NEW v \in Videos
    PROVE  IdentityOf(v) \in Identities /\ IdentityOf(v) # NoIdentity /\ NoIdentity \in Identities
<1>1. source[v] \in Nat \ {0} /\ source[v] \in Sources
    BY SourceAssumption
<1>2. config.version \in Nat /\ config.setting \in Nat
    BY ConfigAssumption DEF SharedOK, Settings
<1> QED  BY <1>1, <1>2 DEF IdentityOf, Identities, NoIdentity

\* Starting a transcript job keeps transcripts current.
LEMMA StartTranscriptsStep ==
    ASSUME SharedOK, TranscriptsOK, StartTranscripts
    PROVE  Within("asr") /\ TranscriptsOK'
<1>1. PICK resume \in BOOLEAN :
          Starts([stage |-> "asr", todo |-> InOrder(Videos), resume |-> resume, failed |-> {}])
    BY DEF StartTranscripts
<1> DEFINE started == [stage |-> "asr", todo |-> InOrder(Videos), resume |-> resume, failed |-> {}]
<1>2. InOrder(Videos) \in Seq(Videos) /\ ToSet(InOrder(Videos)) = Videos
    <2>1. IsFiniteSet(Videos) /\ Videos \subseteq Int
        BY VideoAssumption
    <2> QED  BY <2>1, InOrderLists
<1>3. started \in TranscriptJobs /\ started.stage = "asr" /\ started.todo = InOrder(Videos)
    BY <1>2 DEF TranscriptJobs
<1> HIDE DEF started
<1>4. Within("asr") /\ job' = started
    BY <1>1, <1>3, StartsWithin DEF Jobs, started
<1>5. source' = source /\ transcripts' = transcripts
    BY DEF StartTranscripts
<1>6. TranscriptJob'
    BY <1>2, <1>3, <1>4 DEF TranscriptJob
<1> QED  BY <1>4, <1>5, <1>6 DEF TranscriptsOK, PairsBelong

\* Preparing one video keeps transcripts current.
LEMMA PrepareVideoStep ==
    ASSUME SharedOK, TranscriptsOK, PrepareVideo
    PROVE  Within("asr") /\ TranscriptsOK'
<1>1. /\ At("asr") /\ source' = source
      /\ job \in TranscriptJobs /\ Video \in Videos /\ Tail(job.todo) \in Seq(Videos)
      /\ ToSet(job.todo) \subseteq {Video} \cup ToSet(Tail(job.todo))
    <2>1. At("asr") /\ source' = source /\ job.todo # <<>>
        BY DEF PrepareVideo
    <2>2. job \in TranscriptJobs /\ job.todo \in Seq(Videos)
        BY <2>1, JobKinds DEF TranscriptJobs
    <2> QED  BY <2>1, <2>2, TakenOff DEF Video
<1> DEFINE taken == [job EXCEPT !.todo = Tail(@)]
           failing == [job EXCEPT !.todo = Tail(@), !.failed = @ \cup {Video}]
<1>2. /\ taken \in TranscriptJobs /\ taken.stage = "asr"
      /\ taken.todo = Tail(job.todo) /\ taken.failed = job.failed
      /\ failing \in TranscriptJobs /\ failing.stage = "asr"
      /\ failing.todo = Tail(job.todo) /\ failing.failed = job.failed \cup {Video}
    BY <1>1 DEF TranscriptJobs
<1> HIDE DEF taken, failing
<1>3. ASSUME NEW next \in {taken, failing}, Works(next)
      PROVE  Within("asr") /\ job' = next /\ \A v \in Videos : IdentityOf(v)' = IdentityOf(v)
    <2>1. Within("asr") /\ job' = next
        BY <1>2, <1>3, WorksWithin DEF Jobs
    <2> QED  BY <1>1, <2>1 DEF IdentityOf, Within
<1>4. \A v \in Videos : transcripts[v] \in Pairs
    BY DEF TranscriptsOK
<1>5. CASE job.resume /\ Reusable(Video) /\ Works(taken) /\ transcripts' = transcripts
    <2>1. Current(Video)
        <3>1. IdentityOf(Video) # NoIdentity
            BY <1>1, IdentityFacts DEF TranscriptsOK
        <3>2. transcripts[Video].segments # NoSegments /\ transcripts[Video].manifest = IdentityOf(Video)
            BY <1>5 DEF Reusable
        <3> QED  BY <1>1, <3>1, <3>2 DEF TranscriptsOK, PairsBelong, Current
    <2>2. TranscriptJob'
        BY <1>1, <1>2, <1>3, <1>5, <2>1 DEF TranscriptsOK, TranscriptJob, Current
    <2> QED  BY <1>1, <1>3, <1>5, <2>2 DEF TranscriptsOK, PairsBelong
<1>6. ASSUME Works(taken), NEW number \in 0..1,
             transcripts' = [transcripts EXCEPT ![Video] =
                 [segments |-> [count |-> number, by |-> IdentityOf(Video)],
                  manifest |-> IdentityOf(Video), count |-> number, failed |-> FALSE]]
      PROVE  Within("asr") /\ TranscriptsOK'
    <2> DEFINE pair == [segments |-> [count |-> number, by |-> IdentityOf(Video)],
                        manifest |-> IdentityOf(Video), count |-> number, failed |-> FALSE]
    <2>1. /\ pair \in Pairs
          /\ pair.segments.by = IdentityOf(Video) /\ pair.manifest = IdentityOf(Video)
        <3>1. IdentityOf(Video) \in Identities
            BY <1>1, IdentityFacts DEF TranscriptsOK
        <3> QED  BY <3>1 DEF Pairs
    <2> HIDE DEF pair
    <2>2. transcripts' = [transcripts EXCEPT ![Video] = pair]
        BY <1>6 DEF pair
    <2>3. /\ transcripts' \in [Videos -> Pairs] /\ transcripts'[Video] = pair
          /\ \A v \in Videos : v # Video => transcripts'[v] = transcripts[v]
        BY <1>1, <2>1, <2>2 DEF TranscriptsOK
    <2>4. PairsBelong'
        BY <2>1, <2>3 DEF TranscriptsOK, PairsBelong
    <2>5. TranscriptJob'
        <3>1. PICK here \in Videos : here = Video
            BY <1>1
        <3>2. Current(here)' /\ \A v \in Videos : v # here /\ Current(v) => Current(v)'
            BY <1>3, <1>6, <2>1, <2>3, <3>1 DEF Current
        <3> QED  BY <1>1, <1>2, <1>3, <1>6, <3>1, <3>2 DEF TranscriptsOK, TranscriptJob
    <2> QED  BY <1>1, <1>3, <1>6, <2>3, <2>4, <2>5 DEF TranscriptsOK
<1>7. CASE Works(failing) /\ transcripts' = [transcripts EXCEPT ![Video].failed = TRUE]
    <2>1. PICK pair : pair = [transcripts[Video] EXCEPT !.failed = TRUE]
        OBVIOUS
    <2>2. /\ pair \in Pairs
          /\ pair.segments = transcripts[Video].segments /\ pair.manifest = transcripts[Video].manifest
        BY <1>1, <1>4, <2>1 DEF Pairs
    <2>3. transcripts' = [transcripts EXCEPT ![Video] = pair]
        BY <1>7, <2>1
    <2>4. /\ transcripts' \in [Videos -> Pairs] /\ transcripts'[Video] = pair
          /\ \A v \in Videos : v # Video => transcripts'[v] = transcripts[v]
        BY <1>1, <2>2, <2>3 DEF TranscriptsOK
    <2>5. PairsBelong'
        BY <2>2, <2>4 DEF TranscriptsOK, PairsBelong
    <2>6. TranscriptJob'
        <3>1. \A v \in Videos : v # Video /\ Current(v) => Current(v)'
            BY <1>3, <1>7, <2>4 DEF Current
        <3> QED  BY <1>1, <1>2, <1>3, <1>7, <3>1 DEF TranscriptsOK, TranscriptJob
    <2> QED  BY <1>1, <1>3, <1>7, <2>4, <2>5, <2>6 DEF TranscriptsOK
<1> QED  BY <1>5, <1>6, <1>7 DEF PrepareVideo, taken, failing

\* Stopping a transcript job keeps transcripts current.
LEMMA StopTranscriptsStep ==
    ASSUME SharedOK, TranscriptsOK, StopTranscripts
    PROVE  Within("asr") /\ TranscriptsOK'
<1>1. At("asr") /\ Dies /\ source' = source
    BY DEF StopTranscripts
<1>2. Within("asr") /\ TranscriptJob'
    BY <1>1, DiesWithin DEF At, Idle, TranscriptJob
<1>3. CASE transcripts' = transcripts
    BY <1>1, <1>2, <1>3 DEF TranscriptsOK, PairsBelong
<1>4. CASE transcripts' # transcripts
    <2>1. job.todo # <<>>
        BY <1>4 DEF StopTranscripts
    <2>2. Video \in Videos
        <3>1. job.todo \in Seq(Videos)
            BY <1>1, JobKinds DEF TranscriptJobs
        <3> QED  BY <2>1, <3>1, TakenOff DEF Video
    <2>3. PICK number \in 0..1, step \in 1..3 :
              transcripts' = [transcripts EXCEPT
                  ![Video].segments = IF step < 3 THEN NoSegments
                                      ELSE [count |-> number, by |-> IdentityOf(Video)],
                  ![Video].manifest = IF step = 1 THEN @ ELSE NoIdentity]
        BY <1>4 DEF StopTranscripts
    <2>4. PICK segments : segments = IF step < 3 THEN NoSegments
                                     ELSE [count |-> number, by |-> IdentityOf(Video)]
        OBVIOUS
    <2>5. PICK manifest : manifest = IF step = 1 THEN transcripts[Video].manifest ELSE NoIdentity
        OBVIOUS
    <2>6. PICK pair : pair = [transcripts[Video] EXCEPT !.segments = segments, !.manifest = manifest]
        OBVIOUS
    <2>7. transcripts[Video] \in Pairs /\ IdentityOf(Video) \in Identities /\ NoIdentity \in Identities
        BY <2>2, IdentityFacts DEF TranscriptsOK
    <2>8. segments \in [count : Nat \cup {-1}, by : Identities] /\ manifest \in Identities
        BY <2>4, <2>5, <2>7 DEF Pairs, NoSegments
    <2>9. pair \in Pairs /\ pair.segments = segments /\ pair.manifest = manifest
        BY <2>6, <2>7, <2>8 DEF Pairs
    <2>10. segments = NoSegments \/ manifest = NoIdentity
        BY <2>3, <2>4, <2>5
    <2>11. /\ transcripts' \in [Videos -> Pairs] /\ transcripts'[Video] = pair
           /\ \A v \in Videos : v # Video => transcripts'[v] = transcripts[v]
        <3>1. transcripts \in [Videos -> Pairs]
            BY DEF TranscriptsOK
        <3>2. transcripts' = [transcripts EXCEPT ![Video] = pair]
            BY <2>2, <2>3, <2>4, <2>5, <2>6, <2>7, <3>1 DEF Pairs
        <3> QED  BY <2>2, <2>9, <3>1, <3>2
    <2>12. PairsBelong'
        BY <2>9, <2>10, <2>11 DEF TranscriptsOK, PairsBelong
    <2> QED  BY <1>1, <1>2, <2>11, <2>12 DEF TranscriptsOK
<1> QED  BY <1>3, <1>4

\* Every step of the transcript stage keeps transcripts current.
LEMMA TranscriptStep ==
    ASSUME SharedOK, TranscriptsOK, TranscriptNext
    PROVE  Within("asr") /\ TranscriptsOK'
<1>1. CASE EndTranscripts
    <2>1. /\ At("asr") /\ job' = Idle /\ UNCHANGED <<config, lineage, upstream, plan, runs, stops>>
          /\ \E status \in {"done", "failed"} : Records(job.stage, status)
        BY <1>1 DEF EndTranscripts, Ends
    <2>2. Within("asr")
        BY <2>1, EndsWithin DEF At
    <2>3. source' = source /\ transcripts' = transcripts
        BY <1>1 DEF EndTranscripts
    <2> QED  BY <2>1, <2>2, <2>3 DEF TranscriptsOK, PairsBelong, TranscriptJob, At, Idle
<1>2. CASE Replace
    <2>1. /\ At("none") /\ transcripts' = transcripts
          /\ UNCHANGED <<config, lineage, upstream, job, journal, plan, runs, stops>>
        BY <1>2 DEF Replace, shared
    <2>2. Within("asr")
        BY <2>1 DEF Within, SharedOK, VisualDone, At
    <2>3. PICK v \in Videos, s \in Sources : source' = [source EXCEPT ![v] = s]
        BY <1>2 DEF Replace
    <2> QED  BY <2>1, <2>2, <2>3 DEF TranscriptsOK, PairsBelong, TranscriptJob, At
<1>3. CASE MaterializeAsr
    <2>2. /\ At("none") /\ job' = job /\ runs' = runs + 1
          /\ UNCHANGED <<config, lineage, upstream, plan, stops>>
          /\ \E status \in {"done", "failed"} : Records("asr", status)
        BY <1>3 DEF MaterializeAsr, AtOnce
    <2>3. source' = source /\ transcripts' = transcripts
        BY <1>3 DEF MaterializeAsr
    <2>4. Within("asr")
        BY <2>2, AtOnceWithin DEF At
    <2> QED  BY <2>2, <2>3, <2>4 DEF TranscriptsOK, PairsBelong, TranscriptJob, At
<1> QED  BY <1>1, <1>2, <1>3, StartTranscriptsStep, PrepareVideoStep, StopTranscriptsStep DEF TranscriptNext

-----------------------------------------------------------------------------
(* Indexes.                                                                *)

\* A build has the vectors of all frames but those in slices that are still to come, unless
\* a frame failed, and each vector is that of its own frame.
VisualJob ==
    At("visual-index") =>
        /\ \A f \in DOMAIN job.vectors : job.vectors[f].id = IdOf(lineage, f)
        /\ job.failed = {} =>
               \A f \in Frames : f \in DOMAIN job.vectors \/ \E k \in ToSet(job.todo) : f \in Slice(k)

IndexesOK ==
    /\ shards \in [Slices -> Shards] /\ DOMAIN dense = TextSources
    /\ IndexBelongs /\ VisualJob /\ VectorsAligned

\* Every frame is in a slice.
LEMMA SlicesFacts ==
    /\ IsFiniteSet(Slices) /\ Slices \subseteq Int
    /\ \A k \in Slices : Slice(k) \in SUBSET Frames
    /\ \A f \in Frames : \E k \in Slices : f \in Slice(k)
<1>1. FrameCount \in Nat \ {0} /\ ShardSize \in Nat \ {0}
    BY FramesFacts, ShardAssumption
<1> DEFINE final == (FrameCount + ShardSize - 1) \div ShardSize
<1>2. final \in Int
    BY <1>1
<1>3. IsFiniteSet(Slices) /\ Slices \subseteq Int
    BY <1>2, FS_Interval DEF Slices
<1>4. ASSUME NEW f \in Frames PROVE \E k \in Slices : f \in Slice(k)
    <2> DEFINE k == (f - 1) \div ShardSize + 1
    <2>1. f \in Nat /\ f >= 1 /\ f <= FrameCount
        BY <1>1, <1>4 DEF Frames
    <2>2. (f - 1) \div ShardSize \in Nat
        BY <1>1, <2>1
    <2>3. (f - 1) \div ShardSize + 1 <= final
        <3>1. \A a, b \in Nat : a <= b => a \div ShardSize <= b \div ShardSize
            BY <1>1
        <3>2. (f - 1 + ShardSize) \div ShardSize = (f - 1) \div ShardSize + 1
            BY <1>1, <2>1
        <3>3. f - 1 + ShardSize \in Nat /\ FrameCount + ShardSize - 1 \in Nat
              /\ f - 1 + ShardSize <= FrameCount + ShardSize - 1
            BY <1>1, <2>1
        <3> QED  BY <3>1, <3>2, <3>3
    <2>4. k \in Slices
        BY <1>2, <2>2, <2>3 DEF Slices
    <2>5. f \in Slice(k)
        BY <1>4, <2>2 DEF Slice
    <2> QED  BY <2>4, <2>5
<1> QED  BY <1>3, <1>4 DEF Slice

\* Starting an image index keeps the indexes right.
LEMMA StartVisualStep ==
    ASSUME SharedOK, IndexesOK, StartVisual
    PROVE  Within("visual-index") /\ IndexesOK'
<1> DEFINE started == [stage |-> "visual-index", todo |-> InOrder(Slices), vectors |-> <<>>, failed |-> {}]
<1>1. Starts(started) /\ shards' = shards /\ dense' = dense /\ visual' = visual
    BY DEF StartVisual, indexes
<1>2. InOrder(Slices) \in Seq(Slices) /\ ToSet(InOrder(Slices)) = Slices
    BY SlicesFacts, InOrderLists
<1>3. /\ started \in VisualJobs /\ started.stage = "visual-index"
      /\ started.todo = InOrder(Slices) /\ DOMAIN started.vectors = {}
    <2>1. <<>> \in [{} -> Vectors] /\ {} \in SUBSET Frames
        OBVIOUS
    <2> QED  BY <1>2, <2>1 DEF VisualJobs
<1> HIDE DEF started
<1>4. Within("visual-index") /\ job' = started
    BY <1>1, <1>3, StartsWithin DEF Jobs
<1>5. VisualJob'
    <2>1. \A f \in Frames : \E k \in ToSet(started.todo) : f \in Slice(k)
        BY <1>2, <1>3, SlicesFacts
    <2> QED  BY <1>3, <1>4, <2>1 DEF VisualJob
<1>6. VectorsAligned'
    BY <1>1, <1>4 DEF IndexesOK, VectorsAligned, Within, VisualDone
<1> QED  BY <1>1, <1>4, <1>5, <1>6 DEF IndexesOK, IndexBelongs

\* Embedding one slice of frames keeps the indexes right.
LEMMA EmbedSliceStep ==
    ASSUME SharedOK, IndexesOK, EmbedSlice
    PROVE  Within("visual-index") /\ IndexesOK'
<1>1. At("visual-index") /\ job \in VisualJobs /\ job.todo \in Seq(Slices) /\ job.todo # <<>>
    BY JobKinds DEF EmbedSlice, VisualJobs
<1>2. PICK k \in Slices : k = Head(job.todo)
    BY <1>1, TakenOff
<1>3. Tail(job.todo) \in Seq(Slices) /\ ToSet(job.todo) \subseteq {k} \cup ToSet(Tail(job.todo))
    BY <1>1, <1>2, TakenOff
<1>4. PICK by : by = IF ValidShard(k) THEN shards[k].by ELSE config.setting
    OBVIOUS
<1> DEFINE encoded(f) == [id |-> shards'[k].ids[f], by |-> by]
           joined == [f \in DOMAIN job.vectors \cup Slice(k) |->
                         IF f \in DOMAIN job.vectors THEN job.vectors[f] ELSE encoded(f)]
           going(failed) ==
               [job EXCEPT !.todo = Tail(@), !.failed = @ \cup failed,
                           !.vectors = IF failed = {} THEN joined ELSE @]
<1>5. PICK failed \in SUBSET Slice(k) :
          /\ shards' = IF failed # {} \/ ValidShard(k) THEN shards
                       ELSE [shards EXCEPT ![k] = [ids |-> Ids(Slice(k)), by |-> by]]
          /\ Works(going(failed))
    BY <1>2, <1>4 DEF EmbedSlice
<1>6. visual' = visual /\ dense' = dense
    BY DEF EmbedSlice
<1>7. Ids(Slice(k)) \in [Slice(k) -> FrameIds] /\ Slice(k) \in SUBSET Frames /\ by \in Nat
    <2>1. Slice(k) \in SUBSET Frames
        BY SlicesFacts
    <2>2. lineage \in Lineages /\ config.setting \in Nat
        BY ConfigAssumption DEF SharedOK, Settings
    <2>3. shards[k].by \in Nat
        BY DEF IndexesOK, Shards
    <2> QED  BY <1>4, <2>1, <2>2, <2>3, FramesFacts DEF Ids
<1>8. shards' \in [Slices -> Shards]
    <2>1. [ids |-> Ids(Slice(k)), by |-> by] \in Shards
        BY <1>7 DEF Shards
    <2> QED  BY <1>5, <2>1 DEF IndexesOK
<1>9. failed = {} => shards'[k].ids = Ids(Slice(k))
    <2>1. shards \in [Slices -> Shards]
        BY DEF IndexesOK
    <2> QED  BY <1>5, <2>1 DEF ValidShard
<1>10. failed = {} => \A f \in Slice(k) : encoded(f) \in Vectors /\ encoded(f).id = IdOf(lineage, f)
    BY <1>7, <1>9 DEF Ids, Vectors
<1> HIDE DEF encoded
<1>11. PICK vectors : vectors = IF failed = {} THEN joined ELSE job.vectors
    OBVIOUS
<1>12. PICK had \in SUBSET Frames : job.vectors \in [had -> Vectors]
    BY <1>1 DEF VisualJobs
<1>13. /\ vectors \in UNION {[some -> Vectors] : some \in SUBSET Frames}
       /\ \A f \in DOMAIN vectors : vectors[f].id = IdOf(lineage, f)
       /\ DOMAIN job.vectors \subseteq DOMAIN vectors
       /\ failed = {} => Slice(k) \subseteq DOMAIN vectors
    <2>0. \A f \in DOMAIN job.vectors : job.vectors[f].id = IdOf(lineage, f)
        BY <1>1 DEF IndexesOK, VisualJob
    <2>1. CASE failed # {}
        BY <1>1, <1>11, <1>12, <2>0, <2>1
    <2>2. CASE failed = {}
        <3>1. vectors = [f \in had \cup Slice(k) |-> IF f \in had THEN job.vectors[f] ELSE encoded(f)]
            BY <1>10, <1>11, <1>12, <2>2
        <3>2. vectors \in [had \cup Slice(k) -> Vectors] /\ had \cup Slice(k) \in SUBSET Frames
            BY <1>7, <1>10, <1>12, <2>2, <3>1
        <3>3. \A f \in had \cup Slice(k) : vectors[f].id = IdOf(lineage, f)
            BY <1>10, <1>12, <2>0, <2>2, <3>1
        <3> QED  BY <1>12, <3>2, <3>3
    <2> QED  BY <2>1, <2>2
<1>14. PICK next : next = [job EXCEPT !.todo = Tail(job.todo), !.failed = job.failed \cup failed,
                                      !.vectors = vectors]
    OBVIOUS
<1>15. Works(next)
    BY <1>1, <1>5, <1>11, <1>14 DEF VisualJobs
<1>16. /\ next \in VisualJobs /\ next.stage = "visual-index" /\ next.todo = Tail(job.todo)
       /\ next.failed = job.failed \cup failed /\ next.vectors = vectors
    <2>1. failed \in SUBSET Frames
        BY <1>7
    <2> QED  BY <1>1, <1>3, <1>13, <1>14, <2>1 DEF VisualJobs
<1>17. Within("visual-index") /\ job' = next
    BY <1>15, <1>16, WorksWithin DEF Jobs
<1>18. VisualJob'
    <2>1. lineage' = lineage
        BY <1>17 DEF Within
    <2>2. \A f \in Frames : IdOf(lineage, f)' = IdOf(lineage, f)
        BY <2>1 DEF IdOf
    <2>3. ASSUME next.failed = {}, NEW f \in Frames
          PROVE  f \in DOMAIN vectors \/ \E j \in ToSet(next.todo) : f \in Slice(j)
        <3>1. failed = {} /\ job.failed = {}
            BY <1>16, <2>3
        <3>2. f \in DOMAIN job.vectors \/ \E j \in ToSet(job.todo) : f \in Slice(j)
            BY <1>1, <3>1 DEF IndexesOK, VisualJob
        <3> QED  BY <1>3, <1>13, <1>16, <3>1, <3>2
    <2>4. \A f \in DOMAIN vectors : f \in Frames
        BY <1>13
    <2> QED  BY <1>13, <1>16, <1>17, <2>2, <2>3, <2>4 DEF VisualJob
<1>19. VectorsAligned'
    BY <1>6, <1>17 DEF IndexesOK, VectorsAligned, Within, VisualDone
<1> QED  BY <1>6, <1>8, <1>17, <1>18, <1>19 DEF IndexesOK, IndexBelongs

\* Only a complete build is recorded as a success; it saves each vector at its frame's place.
LEMMA EndVisualStep ==
    ASSUME SharedOK, IndexesOK, EndVisual
    PROVE  /\ SharedOK' /\ job' = Idle /\ config' = config /\ lineage' = lineage
           /\ IndexesOK'
<1>1. At("visual-index") /\ job \in VisualJobs /\ job.todo = <<>>
    BY JobKinds DEF EndVisual
<1>2. PICK status \in {"done", "failed"} :
          /\ Records(job.stage, status) /\ (status = "done" <=> job.failed = {})
    BY DEF EndVisual, Ends
<1>3. /\ job' = Idle /\ UNCHANGED <<config, lineage, upstream, plan, runs, stops>>
      /\ shards' = shards /\ dense' = dense
      /\ visual' = IF job.failed = {} THEN Embedded ELSE visual
    BY DEF EndVisual, Ends
<1>4. SharedOK'
    BY <1>2, <1>3, EndsWithin
<1>5. VisualJob'
    BY <1>3 DEF VisualJob, At, Idle
<1>6. VectorsAligned'
    <2>1. CASE status = "done"
        <3>1. job.failed = {} /\ visual' = Embedded
            BY <1>2, <1>3, <2>1
        <3>2. ToSet(job.todo) = {}
            BY <1>1 DEF ToSet
        <3>3. \A f \in Frames : job.vectors[f].id = IdOf(lineage, f)
            BY <1>1, <3>1, <3>2 DEF IndexesOK, VisualJob
        <3>4. \A f \in Frames : visual'.vectors[f].id = visual'.mapping[f]
            BY <3>1, <3>3 DEF Embedded, Ids
        <3> QED  BY <3>4 DEF VectorsAligned
    <2>2. CASE status = "failed"
        <3>1. ~VisualDone'
            <4>1. status \in JournalEntries /\ job.stage = "visual-index"
                BY <1>1 DEF JournalEntries, At
            <4> QED  BY <1>2, <1>3, <2>2, <4>1, Recorded
        <3> QED  BY <3>1 DEF VectorsAligned, VisualDone
    <2> QED  BY <2>1, <2>2
<1> QED  BY <1>3, <1>4, <1>5, <1>6 DEF IndexesOK, IndexBelongs

\* Stopping a build keeps the indexes right.
LEMMA StopVisualStep ==
    ASSUME SharedOK, IndexesOK, StopVisual
    PROVE  Within("visual-index") /\ IndexesOK'
<1>1. At("visual-index") /\ Dies /\ shards' = shards /\ dense' = dense
    BY DEF StopVisual
<1>2. Within("visual-index") /\ job' = Idle
    BY <1>1, DiesWithin DEF At
<1>3. ~VisualDone'
    <2>1. PICK status \in {"running", "failed"} : Records(job.stage, status)
        BY <1>1 DEF Dies
    <2>2. status \in JournalEntries /\ job.stage = "visual-index" /\ plan' = plan
        BY <1>1 DEF JournalEntries, At, Dies
    <2> QED  BY <2>1, <2>2, Recorded
<1> QED  BY <1>1, <1>2, <1>3
         DEF IndexesOK, IndexBelongs, VisualJob, VectorsAligned, VisualDone, At, Idle

\* The texts of an index that is built are those of the frame store it is built for.
LEMMA BuildTextStep ==
    ASSUME SharedOK, IndexesOK, BuildText
    PROVE  Within("text-index") /\ IndexesOK'
<1>1. PICK s \in {"caption", "ocr"} :
          LET bundle == IF s = "caption" THEN captions ELSE ocr
              good == /\ Readable(bundle) /\ Matching(bundle.rows[1].lineage)
                      /\ TextsOf(bundle) # <<>>
          IN  /\ AtOnce("text-index", good)
              /\ dense' = IF good
                          THEN [dense EXCEPT ![s] = [lineage |-> lineage, texts |-> TextsOf(bundle)]]
                          ELSE dense
    BY DEF BuildText
<1>2. shards' = shards /\ visual' = visual
    BY DEF BuildText
<1>3. PICK bundle : bundle = IF s = "caption" THEN captions ELSE ocr
    OBVIOUS
<1> DEFINE built == [lineage |-> lineage, texts |-> TextsOf(bundle)]
<1>4. /\ At("none") /\ job' = job /\ runs' = runs + 1
      /\ UNCHANGED <<config, lineage, upstream, plan, stops>>
      /\ \E status \in {"done", "failed"} : Records("text-index", status)
    BY <1>1 DEF AtOnce
<1>5. Within("text-index")
    BY <1>4, AtOnceWithin
<1>6. \/ dense' = dense
      \/ /\ Readable(bundle) /\ Matching(bundle.rows[1].lineage)
         /\ dense' = [dense EXCEPT ![s] = built]
    BY <1>1, <1>3
<1>7. ASSUME Readable(bundle), Matching(bundle.rows[1].lineage), NEW f \in DOMAIN built.texts
      PROVE  built.texts[f].lineage = built.lineage
    <2>1. PICK only : {bundle.rows[g].lineage : g \in Frames} = {only}
        <3> DEFINE found == {bundle.rows[g].lineage : g \in Frames}
        <3>1. Cardinality(found) = 1
            BY <1>7 DEF Readable
        <3>2. IsFiniteSet(found)
            <4>1. [g \in Frames |-> bundle.rows[g].lineage] \in Surjection(Frames, found)
                BY DEF Surjection
            <4> QED  BY <4>1, FramesFacts, FS_Surjection
        <3> HIDE DEF found
        <3>3. \E only : found = {only}
            BY <3>1, <3>2, FS_Singleton
        <3> QED  BY <3>3 DEF found
    <2>2. f \in Frames /\ Usable(bundle.rows[f]) /\ built.texts[f] = Text(bundle.rows[f])
        BY <1>7 DEF TextsOf
    <2>3. bundle.rows[f].lineage = only /\ bundle.rows[1].lineage = only
        BY <2>1, <2>2, FramesFacts
    <2>4. only = lineage
        BY <1>7, <2>3 DEF Matching
    <2> QED  BY <2>2, <2>3, <2>4 DEF Text
<1> HIDE DEF built
<1>8. DOMAIN dense' = TextSources /\ IndexBelongs'
    <2>1. CASE dense' = dense
        BY <2>1 DEF IndexesOK, IndexBelongs
    <2>2. CASE /\ Readable(bundle) /\ Matching(bundle.rows[1].lineage)
               /\ dense' = [dense EXCEPT ![s] = built]
        <3>1. DOMAIN dense' = TextSources /\ dense'[s] = built
              /\ \A other \in TextSources \ {s} : dense'[other] = dense[other]
            BY <2>2 DEF IndexesOK, TextSources
        <3> QED  BY <1>7, <2>2, <3>1 DEF IndexesOK, IndexBelongs, TextSources
    <2> QED  BY <1>6, <2>1, <2>2
<1>9. VisualJob' /\ VectorsAligned'
    BY <1>2, <1>4, <1>5 DEF IndexesOK, VisualJob, VectorsAligned, Within, VisualDone, At
<1> QED  BY <1>2, <1>5, <1>8, <1>9 DEF IndexesOK

\* The texts of a context are of the frame store its manifest states.
Parts == {"caption", "ocr", "objects"}
ContextOK ==
    context.manifest # NoManifest =>
        \A f \in Frames, part \in Parts :
            context.rows[f][part].lineage \in {0, context.manifest.lineage}

\* The text indexes, built at once, keep the indexes right.
LEMMA OtherBuildsStep ==
    ASSUME SharedOK, IndexesOK, ContextOK, BuildContextIndex \/ BuildSpoken \/ BuildKeywords
    PROVE  /\ SharedOK' /\ job' = job /\ At("none") /\ config' = config /\ lineage' = lineage
           /\ (VisualDone' => VisualDone) /\ IndexesOK'
<1>1. PICK stage \in {"context-index", "asr-index", "bm25"} :
          /\ At("none") /\ job' = job /\ runs' = runs + 1
          /\ UNCHANGED <<config, lineage, upstream, plan, stops>>
          /\ \E status \in {"done", "failed"} : Records(stage, status)
    BY DEF BuildContextIndex, BuildSpoken, BuildKeywords, AtOnce
<1>2. Within(stage)
    BY <1>1, AtOnceWithin
<1>3. /\ shards' = shards /\ visual' = visual
      /\ \/ dense' = dense
         \/ /\ context.manifest # NoManifest /\ context.manifest.lineage = lineage
            /\ dense' = [dense EXCEPT !["context"] = [lineage |-> lineage, texts |-> Contexts]]
    BY DEF BuildContextIndex, BuildSpoken, BuildKeywords, Matching
<1> DEFINE built == [lineage |-> lineage, texts |-> Contexts]
<1>6. ASSUME context.manifest # NoManifest, context.manifest.lineage = lineage,
             NEW f \in DOMAIN built.texts, NEW part \in Parts
      PROVE  built.texts[f][part].lineage \in {0, built.lineage}
    <2>1. f \in Frames /\ built.texts[f] = context.rows[f]
        BY DEF Contexts
    <2> QED  BY <1>6, <2>1 DEF ContextOK
<1> HIDE DEF built
<1>4. DOMAIN dense' = TextSources /\ IndexBelongs'
    <2>1. CASE dense' = dense
        BY <2>1 DEF IndexesOK, IndexBelongs
    <2>2. CASE /\ context.manifest # NoManifest /\ context.manifest.lineage = lineage
               /\ dense' = [dense EXCEPT !["context"] = built]
        <3>1. DOMAIN dense' = TextSources /\ dense'["context"] = built
              /\ \A s \in {"caption", "ocr"} : dense'[s] = dense[s]
            BY <2>2 DEF IndexesOK, TextSources
        <3> QED  BY <1>6, <2>2, <3>1 DEF IndexesOK, IndexBelongs, Parts
    <2> QED  BY <1>3, <2>1, <2>2 DEF built
<1>5. VisualJob' /\ VectorsAligned'
    BY <1>1, <1>2, <1>3 DEF IndexesOK, VisualJob, VectorsAligned, Within, VisualDone, At
<1> QED  BY <1>1, <1>2, <1>3, <1>4, <1>5 DEF IndexesOK, Within

-----------------------------------------------------------------------------
(* OCR, objects and context: what they publish has the form of a bundle.   *)

OcrOK == ocr \in Published /\ regions \in SUBSET Frames

\* What the OCR stage writes are rows.
LEMMA RowsOfOcr ==
    ASSUME SharedOK
    PROVE  /\ Missing \in Rows /\ Resolved \in Revisions
           /\ \A revision \in Revisions, row \in Rows : [row EXCEPT !.revision = revision] \in Rows
           /\ At("ocr") => FailureRow \in Rows /\ \A text \in BOOLEAN : ParsedRow(text) \in Rows
<1>1. config.revision \in Revisions /\ upstream \in Revisions /\ 0 \in Revisions
    BY ConfigAssumption DEF SharedOK, Settings
<1>2. Missing \in Rows /\ Resolved \in Revisions
    BY <1>1 DEF Missing, Unmade, Rows, Statuses, Resolved
<1>3. ASSUME NEW revision \in Revisions, NEW row \in Rows
      PROVE  [row EXCEPT !.revision = revision] \in Rows
    BY DEF Rows
<1>4. ASSUME At("ocr") PROVE FailureRow \in Rows /\ \A text \in BOOLEAN : ParsedRow(text) \in Rows
    <2>1. job.revision \in Revisions /\ {"failed", "completed"} \subseteq Statuses
        BY <1>4, JobKinds DEF OcrJobs, Statuses
    <2>2. FailureRow \in Rows
        BY <2>1, RowFacts DEF FailureRow, SharedOK, Stores
    <2>3. ASSUME NEW text \in BOOLEAN PROVE ParsedRow(text) \in Rows
        <3>1. PICK row \in Rows : row = Row(lineage, "completed", job.revision, text)
            BY <2>1, RowFacts DEF SharedOK, Stores
        <3>2. ParsedRow(text) = [row EXCEPT !.by.revision = IF config.revision = 0 THEN upstream ELSE @]
            BY <3>1 DEF ParsedRow
        <3>3. PICK by : by = [row.by EXCEPT !.revision = IF config.revision = 0 THEN upstream
                                                         ELSE row.by.revision]
            OBVIOUS
        <3>4. by \in [setting : Nat, revision : Revisions]
            BY <1>1, <3>3 DEF Rows
        <3>5. ParsedRow(text) = [row EXCEPT !.by = by]
            BY <3>2, <3>3
        <3> QED  BY <3>4, <3>5 DEF Rows
    <2> QED  BY <2>2, <2>3
<1> QED  BY <1>2, <1>3, <1>4

\* Every step of the OCR stage keeps its rows in order.
LEMMA OcrStep ==
    ASSUME SharedOK, OcrOK, OcrNext
    PROVE  Within("ocr") /\ OcrOK'
<1>1. ASSUME StartOcr PROVE Within("ocr") /\ OcrOK'
    <2> DEFINE rows == ResumeOcr
               kept == {f \in Frames : rows[f] # Missing}
               todo == IF config.ocr THEN InOrder(Frames \ kept) ELSE <<>>
               started == [stage |-> "ocr", rows |-> rows, revision |-> config.revision,
                           loaded |-> FALSE, kept |-> kept, todo |-> todo]
    <2>1. Starts(started) /\ ocr' = ocr /\ regions' = regions
        BY <1>1 DEF StartOcr
    <2>2. rows \in [Frames -> Rows]
        BY RowsOfOcr DEF OcrOK, Published, ResumeOcr
    <2>3. todo \in Seq(Frames)
        <3>1. InOrder(Frames \ kept) \in Seq(Frames)
            BY TodoOfFrames
        <3> QED  BY <3>1
    <2>4. config.revision \in Revisions
        BY ConfigAssumption DEF SharedOK, Settings
    <2> HIDE DEF rows, todo
    <2>5. started \in OcrJobs /\ started.stage = "ocr"
        BY <2>2, <2>3, <2>4 DEF OcrJobs
    <2> HIDE DEF started
    <2> QED  BY <2>1, <2>5, StartsWithin DEF Jobs, OcrOK
<1>2. ASSUME OcrBatch PROVE Within("ocr") /\ OcrOK'
    <2>1. At("ocr") /\ job \in OcrJobs /\ ocr' = ocr /\ regions' = regions
        BY <1>2, JobKinds DEF OcrBatch
    <2>2. PICK failing, blank, loads :
              /\ loads \in BOOLEAN
              /\ Works([job EXCEPT
                    !.todo = Rest(@),
                    !.loaded = loads,
                    !.rows = [f \in Frames |->
                        IF f \notin Chunk(job.todo) THEN @[f]
                        ELSE IF f \in failing THEN FailureRow ELSE ParsedRow(f \notin blank)]])
        BY <1>2 DEF OcrBatch
    <2>3. PICK rows : rows = [f \in Frames |->
              IF f \notin Chunk(job.todo) THEN job.rows[f]
              ELSE IF f \in failing THEN FailureRow ELSE ParsedRow(f \notin blank)]
        OBVIOUS
    <2>4. ASSUME NEW f \in Frames PROVE rows[f] \in Rows
        <3>1. PICK text \in BOOLEAN : text <=> f \notin blank
            OBVIOUS
        <3>2. ParsedRow(f \notin blank) = ParsedRow(text)
            BY <3>1 DEF ParsedRow, Row
        <3>3. FailureRow \in Rows /\ ParsedRow(text) \in Rows /\ job.rows[f] \in Rows
            BY <2>1, RowsOfOcr DEF OcrJobs
        <3> QED  BY <2>3, <3>2, <3>3
    <2>5. rows \in [Frames -> Rows]
        BY <2>3, <2>4
    <2>6. PICK next : next = [job EXCEPT !.todo = Rest(job.todo), !.loaded = loads, !.rows = rows]
        OBVIOUS
    <2>7. Works(next)
        BY <2>1, <2>2, <2>3, <2>6 DEF OcrJobs
    <2>8. next \in OcrJobs /\ next.stage = "ocr"
        <3>1. Rest(job.todo) \in Seq(Frames)
            BY <2>1, PartsOfFrames DEF OcrJobs
        <3> QED  BY <2>1, <2>2, <2>5, <2>6, <3>1 DEF OcrJobs
    <2> QED  BY <2>1, <2>7, <2>8, WorksWithin DEF Jobs, OcrOK
<1>3. ASSUME Revise PROVE Within("ocr") /\ OcrOK'
    <2>1. At("ocr") /\ job \in OcrJobs /\ ocr' = ocr /\ regions' = regions
        BY <1>3, JobKinds DEF Revise
    <2>2. PICK again : again = [job EXCEPT !.revision = Resolved, !.rows = NoRows, !.kept = {},
                                           !.todo = InOrder(Frames)]
        OBVIOUS
    <2>3. PICK rows : rows = [f \in Frames |-> IF job.rows[f] = Missing THEN Missing
                                               ELSE [job.rows[f] EXCEPT !.revision = Resolved]]
        OBVIOUS
    <2>4. PICK stamped : stamped = [job EXCEPT !.revision = Resolved, !.rows = rows]
        OBVIOUS
    <2>5. Works(again) \/ Works(stamped)
        BY <1>3, <2>1, <2>2, <2>3, <2>4 DEF Revise, OcrJobs
    <2>6. again \in OcrJobs /\ again.stage = "ocr"
        <3>1. InOrder(Frames) \in Seq(Frames) /\ NoRows \in [Frames -> Rows]
            BY TodoOfFrames, RowsOfOcr DEF NoRows
        <3> QED  BY <2>1, <2>2, <3>1, RowsOfOcr DEF OcrJobs
    <2>7. stamped \in OcrJobs /\ stamped.stage = "ocr"
        <3>1. rows \in [Frames -> Rows]
            BY <2>1, <2>3, RowsOfOcr DEF OcrJobs
        <3> QED  BY <2>1, <2>4, <3>1, RowsOfOcr DEF OcrJobs
    <2> QED  BY <2>1, <2>5, <2>6, <2>7, WorksWithin DEF Jobs, OcrOK
<1>4. ASSUME FinishOcr PROVE Within("ocr") /\ OcrOK'
    <2>1. At("ocr") /\ job \in OcrJobs
        BY <1>4, JobKinds DEF FinishOcr
    <2>2. /\ job' = Idle /\ UNCHANGED <<config, lineage, upstream, plan, runs, stops>>
          /\ \E status \in {"done", "failed"} : Records(job.stage, status)
        BY <1>4 DEF FinishOcr, Ends
    <2>3. Within("ocr")
        BY <2>1, <2>2, EndsWithin DEF At
    <2>4. [rows |-> job.rows, manifest |-> OcrManifest] \in Published
        BY <2>1 DEF OcrJobs, OcrManifest, Manifests, Stores, Published, SharedOK
    <2> QED  BY <1>4, <2>3, <2>4 DEF FinishOcr, OcrOK
<1>5. ASSUME StopOcr PROVE Within("ocr") /\ OcrOK'
    <2>1. At("ocr") /\ job \in OcrJobs /\ Dies
        BY <1>5, JobKinds DEF StopOcr
    <2>2. [rows |-> job.rows, manifest |-> NoManifest] \in Published
        BY <2>1 DEF OcrJobs, Manifests, Published
    <2> QED  BY <1>5, <2>1, <2>2, DiesWithin DEF StopOcr, OcrOK, At
<1> QED  BY <1>1, <1>2, <1>3, <1>4, <1>5 DEF OcrNext

ObjectsOK == raw \in [FrameIds -> Nat] /\ objects \in Published

\* Every step of the object stage keeps its artifacts in order.
LEMMA ObjectStep ==
    ASSUME SharedOK, ObjectsOK, ObjectNext
    PROVE  Within("objects") /\ ObjectsOK'
<1>1. ASSUME StartObjects PROVE Within("objects") /\ ObjectsOK'
    <2> DEFINE pending == InOrder({f \in Frames : raw[IdOf(lineage, f)] = 0})
    <2>1. PICK limit \in 0..Len(pending) :
              Starts([stage |-> "objects", batch |-> {}, todo |-> SubSeq(pending, 1, limit)])
        BY <1>1 DEF StartObjects
    <2>2. pending \in Seq(Frames)
        BY TodoOfFrames
    <2> HIDE DEF pending
    <2>3. PICK started : started = [stage |-> "objects", batch |-> {}, todo |-> SubSeq(pending, 1, limit)]
        OBVIOUS
    <2>4. started \in ObjectJobs /\ started.stage = "objects"
        BY <2>2, <2>3, PartsOfFrames DEF ObjectJobs
    <2> QED  BY <1>1, <2>1, <2>3, <2>4, StartsWithin DEF StartObjects, Jobs, ObjectsOK
<1>2. ASSUME DetectBatch PROVE Within("objects") /\ ObjectsOK'
    <2>1. At("objects") /\ job \in ObjectJobs /\ objects' = objects
        BY <1>2, JobKinds DEF DetectBatch
    <2>2. PICK unavailable \in SUBSET Chunk(job.todo) :
              LET batch == job.batch \cup (Chunk(job.todo) \ unavailable) IN
              \/ /\ Works([job EXCEPT !.todo = Rest(@), !.batch = batch])
                 /\ raw' = [id \in DOMAIN raw |-> IF \E f \in batch : id = IdOf(lineage, f)
                                                 THEN config.setting ELSE raw[id]]
              \/ batch # {} /\ Ends(FALSE) /\ UNCHANGED raw
        BY <1>2 DEF DetectBatch
    <2>3. PICK batch : batch = job.batch \cup (Chunk(job.todo) \ unavailable)
        OBVIOUS
    <2>4. PICK next : next = [job EXCEPT !.todo = Rest(@), !.batch = batch]
        OBVIOUS
    <2>5. next \in ObjectJobs /\ next.stage = "objects"
        <3>1. job.todo \in Seq(Frames) /\ job.batch \in SUBSET Frames
            BY <2>1 DEF ObjectJobs
        <3>2. Rest(job.todo) \in Seq(Frames) /\ batch \in SUBSET Frames
            BY <2>3, <3>1, PartsOfFrames
        <3> QED  BY <2>1, <2>4, <3>2 DEF ObjectJobs
    <2>6. config.setting \in Nat
        BY ConfigAssumption DEF SharedOK, Settings
    <2>7. CASE /\ Works(next)
               /\ raw' = [id \in DOMAIN raw |-> IF \E f \in batch : id = IdOf(lineage, f)
                                               THEN config.setting ELSE raw[id]]
        <3>1. raw' \in [FrameIds -> Nat]
            BY <2>6, <2>7 DEF ObjectsOK
        <3> QED  BY <2>1, <2>5, <2>7, <3>1, WorksWithin DEF Jobs, ObjectsOK
    <2>8. CASE Ends(FALSE) /\ raw' = raw
        <3>1. /\ job' = Idle /\ UNCHANGED <<config, lineage, upstream, plan, runs, stops>>
              /\ Records(job.stage, "failed")
            BY <2>8 DEF Ends
        <3>2. Within("objects")
            BY <2>1, <3>1, EndsWithin DEF At
        <3> QED  BY <2>1, <2>8, <3>2 DEF ObjectsOK
    <2> QED  BY <2>2, <2>3, <2>4, <2>7, <2>8
<1>3. ASSUME MaterializeObjects PROVE Within("objects") /\ ObjectsOK'
    <2>1. /\ At("objects") /\ raw' = raw
          /\ job' = Idle /\ UNCHANGED <<config, lineage, upstream, plan, runs, stops>>
          /\ \E status \in {"done", "failed"} : Records(job.stage, status)
        BY <1>3 DEF MaterializeObjects, Ends
    <2>2. Within("objects")
        BY <2>1, EndsWithin DEF At
    <2>3. ASSUME NEW f \in Frames PROVE ObjectRow(f) \in Rows
        <3>1. PICK failed \in Rows, completed \in Rows :
                  /\ failed = Row(lineage, "failed", 0, FALSE)
                  /\ completed = Row(lineage, "completed", 0, TRUE)
            <4>1. {"failed", "completed"} \subseteq Statuses /\ 0 \in Revisions
                BY ConfigAssumption DEF Statuses
            <4> QED  BY <4>1, RowFacts DEF SharedOK, Stores
        <3>2. raw[IdOf(lineage, f)] \in Nat
            BY FramesFacts DEF ObjectsOK, SharedOK
        <3>3. [failed EXCEPT !.model = 0] \in Rows
            BY DEF Rows
        <3>4. [completed EXCEPT !.model = 0, !.by.setting = raw[IdOf(lineage, f)]] \in Rows
            BY <3>2 DEF Rows
        <3> QED  BY <3>1, <3>3, <3>4 DEF ObjectRow
    <2>4. [rows |-> [f \in Frames |-> ObjectRow(f)], manifest |-> ObjectManifest] \in Published
        <3>1. ObjectManifest \in Manifests
            BY ConfigAssumption DEF ObjectManifest, Manifests, Stores, SharedOK
        <3> QED  BY <2>3, <3>1 DEF Published
    <2> QED  BY <1>3, <2>1, <2>2, <2>4 DEF MaterializeObjects, ObjectsOK
<1>4. ASSUME StopObjects PROVE Within("objects") /\ ObjectsOK'
    BY <1>4, DiesWithin DEF StopObjects, ObjectsOK, At
<1> QED  BY <1>1, <1>2, <1>3, <1>4 DEF ObjectNext

\* A context job is done in one step between other jobs, and joins texts of its frame store.
LEMMA ContextStep ==
    ASSUME SharedOK, CaptionsOK, OcrOK, ObjectsOK, ContextOK, ContextNext
    PROVE  Within("context") /\ At("none") /\ job' = job /\ ContextOK'
<1>1. /\ At("none") /\ job' = job /\ runs' = runs + 1
      /\ UNCHANGED <<config, lineage, upstream, plan, stops>>
      /\ \E status \in {"done", "failed"} : Records("context", status)
    BY DEF ContextNext, BuildContext, RefuseContext, AtOnce
<1>2. ASSUME ContextReady, NEW bundle \in {captions, ocr, objects}, NEW f \in Frames
      PROVE  Text(bundle.rows[f]).lineage \in {0, lineage}
    <2>1. CASE bundle.rows[f] = Missing
        BY <2>1 DEF Text, Usable, Missing, NoText
    <2>2. CASE bundle.rows[f] # Missing
        <3>1. bundle \in Bundles
            BY <2>2 DEF Bundles, Present, NoBundle, NoRows
        <3>2. bundle.rows[f].lineage = lineage
            BY <1>2, <2>2, <3>1 DEF ContextReady, Validated
        <3> QED  BY <3>2 DEF Text, NoText
    <2> QED  BY <2>1, <2>2
<1>3. ASSUME context' = context PROVE ContextOK'
    BY <1>3 DEF ContextOK
<1>4. ASSUME ContextReady, context' = [rows |-> Derived, manifest |-> Identity] PROVE ContextOK'
    <2>1. context'.rows = Derived /\ context'.manifest.lineage = lineage
        BY <1>4 DEF Identity
    <2>2. ASSUME NEW f \in Frames, NEW part \in Parts PROVE Derived[f][part].lineage \in {0, lineage}
        BY <1>2, <1>4 DEF Derived, Parts
    <2> QED  BY <2>1, <2>2 DEF ContextOK, Derived
<1>5. context' = context \/ (ContextReady /\ context' = [rows |-> Derived, manifest |-> Identity])
    BY DEF ContextNext, BuildContext, RefuseContext
<1> QED  BY <1>1, <1>3, <1>4, <1>5, AtOnceWithin

-----------------------------------------------------------------------------
(* The whole preparation.                                                  *)

PreparationInv ==
    SharedOK /\ CaptionsOK /\ OcrOK /\ ObjectsOK /\ ContextOK /\ TranscriptsOK /\ IndexesOK

\* What a stage has published stays right while another one is at work.
LEMMA CaptionsStay ==
    ASSUME CaptionsOK, captions' = captions, job'.stage # "caption"
    PROVE  CaptionsOK'
    BY DEF CaptionsOK, CaptionJob, CaptionsStated, At

\* Transcripts stay current while other stages work.
LEMMA TranscriptsStay ==
    ASSUME TranscriptsOK, transcriptVars' = transcriptVars, job'.stage # "asr"
    PROVE  TranscriptsOK'
    BY DEF TranscriptsOK, transcriptVars, PairsBelong, TranscriptJob, At

\* The indexes stay right while other stages work.
LEMMA IndexesStay ==
    ASSUME IndexesOK, indexes' = indexes, job'.stage # "visual-index", VisualDone' => VisualDone
    PROVE  IndexesOK'
    BY DEF IndexesOK, indexes, IndexBelongs, VisualJob, VectorsAligned, VisualDone, At

\* So do the artifacts of OCR and of the objects, and the context.
LEMMA OthersStay ==
    /\ OcrOK /\ ocrVars' = ocrVars => OcrOK'
    /\ ObjectsOK /\ objectVars' = objectVars => ObjectsOK'
    /\ ContextOK /\ context' = context => ContextOK'
    BY DEF OcrOK, ObjectsOK, ContextOK, ocrVars, objectVars

\* The first frame store and the first content of a video are there to be chosen.
LEMMA LeastNumber ==
    ASSUME NEW S, S \subseteq Nat, S # {}
    PROVE  (CHOOSE x \in S : \A y \in S : x <= y) \in S
<1>1. PICK x \in S : \A y \in S : ~(<<y, x>> \in OpToRel(<, Nat))
    <2>1. IsWellFoundedOn(OpToRel(<, Nat), Nat)
        BY NatLessThanWellFounded
    <2> QED  BY <2>1, WFMin
<1>2. ASSUME NEW y \in S PROVE x <= y
    <2>1. y < x => <<y, x>> \in OpToRel(<, Nat)
        BY DEF OpToRel
    <2>2. ~(y < x)
        BY <1>1, <2>1
    <2> QED  BY <2>2
<1> QED  BY <1>2

\* The invariant holds before any job ran.
LEMMA PreparationStarts == Init => PreparationInv
<1> SUFFICES ASSUME Init PROVE PreparationInv
    OBVIOUS
<1> USE DEF Init
<1>1. SharedOK /\ job = Idle
    <2>1. lineage \in Lineages
        <3>1. Lineages \subseteq Nat /\ Lineages # {}
            BY VideoAssumption, ConfigAssumption
        <3> QED  BY <3>1, LeastNumber DEF SharedInit
    <2>2. journal \in [plan.stages \cap Journaled -> JournalEntries]
        BY DEF SharedInit, JournalEntries
    <2> QED  BY <2>1, <2>2 DEF SharedInit, SharedOK, Jobs
<1>2. NoBundle \in Published
    BY ConfigAssumption DEF NoBundle, NoRows, Missing, Unmade, Rows, Statuses, Manifests, Published
<1>3. CaptionsOK
    BY <1>1, <1>2 DEF InitCaptions, CaptionsOK, CaptionJob, CaptionsStated, At, Idle, NoBundle, NoManifest
<1>4. OcrOK /\ ObjectsOK /\ ContextOK
    BY <1>2 DEF InitOcr, InitObjects, InitContext, NoContext, OcrOK, ObjectsOK, ContextOK, FrameIds
<1>5. TranscriptsOK
    <2>1. source \in [Videos -> Sources]
        <3>1. Sources \subseteq Nat /\ Sources # {}
            BY SourceAssumption
        <3> QED  BY <3>1, LeastNumber DEF InitTranscripts
    <2>2. NoPair \in Pairs
        BY DEF NoPair, NoSegments, NoIdentity, Pairs, Identities
    <2> QED  BY <1>1, <2>1, <2>2
             DEF InitTranscripts, TranscriptsOK, PairsBelong, TranscriptJob, At, Idle, NoPair
<1>6. IndexesOK
    <2>1. NoShard \in Shards
        <3>1. <<>> \in [{} -> FrameIds] /\ {} \in SUBSET Frames
            OBVIOUS
        <3> QED  BY <3>1 DEF NoShard, Shards
    <2>2. ~VisualDone
        BY DEF VisualDone, SharedInit
    <2>3. IndexBelongs
        BY DEF IndexBelongs, InitIndexes, NoIndex, TextSources
    <2> QED  BY <1>1, <2>1, <2>2, <2>3
             DEF InitIndexes, IndexesOK, VisualJob, VectorsAligned, VisualDone, At, Idle
<1> QED  BY <1>1, <1>3, <1>4, <1>5, <1>6 DEF PreparationInv

\* The invariant is inductive.
LEMMA PreparationContinues == PreparationInv /\ [Next]_vars => PreparationInv'
<1> SUFFICES ASSUME PreparationInv, [Next]_vars PROVE PreparationInv'
    OBVIOUS
<1> USE DEF PreparationInv
<1>1. CASE CaptionNext /\ UNCHANGED <<ocrVars, objectVars, context, transcriptVars, indexes>>
    <2>1. Within("caption") /\ CaptionsOK'
        BY <1>1, CaptionStep
    <2> QED  BY <1>1, <2>1, TranscriptsStay, IndexesStay, OthersStay DEF Within
<1>2. CASE OcrNext /\ UNCHANGED <<captionVars, objectVars, context, transcriptVars, indexes>>
    <2>1. Within("ocr") /\ OcrOK'
        BY <1>2, OcrStep
    <2> QED  BY <1>2, <2>1, CaptionsStay, TranscriptsStay, IndexesStay, OthersStay
             DEF Within, captionVars
<1>3. CASE ObjectNext /\ UNCHANGED <<captionVars, ocrVars, context, transcriptVars, indexes>>
    <2>1. Within("objects") /\ ObjectsOK'
        BY <1>3, ObjectStep
    <2> QED  BY <1>3, <2>1, CaptionsStay, TranscriptsStay, IndexesStay, OthersStay
             DEF Within, captionVars
<1>4. CASE ContextNext /\ UNCHANGED <<transcriptVars, indexes>>
    <2>1. Within("context") /\ ContextOK'
        BY <1>4, ContextStep
    <2>2. captions' = captions /\ ocrVars' = ocrVars /\ objectVars' = objectVars
        BY <1>4 DEF ContextNext, BuildContext, RefuseContext, SourcesUnchanged, ocrVars, objectVars
    <2> QED  BY <1>4, <2>1, <2>2, CaptionsStay, TranscriptsStay, IndexesStay, OthersStay DEF Within
<1>5. CASE TranscriptNext /\ UNCHANGED <<captionVars, ocrVars, objectVars, context, indexes>>
    <2>1. Within("asr") /\ TranscriptsOK'
        BY <1>5, TranscriptStep
    <2> QED  BY <1>5, <2>1, CaptionsStay, IndexesStay, OthersStay DEF Within, captionVars
<1>6. CASE IndexNext /\ UNCHANGED <<captionVars, ocrVars, objectVars, context, transcriptVars>>
    <2>1. SharedOK' /\ IndexesOK' /\ job'.stage \notin {"caption", "asr"}
        <3>1. CASE StartVisual \/ EmbedSlice \/ StopVisual
            BY <3>1, StartVisualStep, EmbedSliceStep, StopVisualStep DEF Within
        <3>2. CASE EndVisual
            BY <3>2, EndVisualStep DEF Idle
        <3>3. CASE BuildText
            BY <3>3, BuildTextStep DEF Within
        <3>4. CASE BuildContextIndex \/ BuildSpoken \/ BuildKeywords
            BY <3>4, OtherBuildsStep DEF At
        <3> QED  BY <1>6, <3>1, <3>2, <3>3, <3>4 DEF IndexNext
    <2> QED  BY <1>6, <2>1, CaptionsStay, TranscriptsStay, OthersStay DEF captionVars
<1>7. CASE Change
    <2>1. SharedOK' /\ job'.stage = "none" /\ (VisualDone' => VisualDone)
        <3>1. At("none") /\ UNCHANGED <<job, journal, plan, runs, stops>>
              /\ config' \in Configs /\ lineage' \in Lineages /\ upstream' \in Revisions
            BY <1>7 DEF Change, Configure, Reingest, Upstream, SharedOK
        <3> QED  BY <3>1 DEF SharedOK, At, VisualDone
    <2> QED  BY <1>7, <2>1, CaptionsStay, TranscriptsStay, IndexesStay, OthersStay
             DEF Change, captionVars
<1>8. CASE UNCHANGED vars
    <2>1. SharedOK' /\ VisualDone' = VisualDone /\ job' = job /\ config' = config /\ lineage' = lineage
        BY <1>8 DEF vars, shared, SharedOK, VisualDone
    <2>2. captions' = captions /\ ocrVars' = ocrVars /\ objectVars' = objectVars
          /\ transcriptVars' = transcriptVars /\ indexes' = indexes /\ context' = context
        BY <1>8 DEF vars, captionVars
    <2>3. CaptionsOK'
        BY <2>1, <2>2 DEF CaptionsOK, CaptionJob, CaptionsStated, OwnRow, At
    <2>4. TranscriptsOK'
        BY <2>1, <2>2 DEF TranscriptsOK, transcriptVars, PairsBelong, TranscriptJob, Current, IdentityOf, At
    <2>5. IndexesOK'
        BY <2>1, <2>2 DEF IndexesOK, indexes, IndexBelongs, VisualJob, VectorsAligned, VisualDone, At, IdOf
    <2> QED  BY <2>1, <2>2, <2>3, <2>4, <2>5, OthersStay
<1> QED  BY <1>1, <1>2, <1>3, <1>4, <1>5, <1>6, <1>7, <1>8 DEF Next, Prepare

\* The inductive invariant of the preparation: the types of the artifacts, what the job under
\* way has in hand, and what is published, together, over every stage and every change between
\* two jobs.
THEOREM PreparationInvHolds == Spec => []PreparationInv
<1>1. Init => PreparationInv
    BY PreparationStarts
<1>2. PreparationInv /\ [Next]_vars => PreparationInv'
    BY PreparationContinues
<1> QED  BY <1>1, <1>2, PTL DEF Spec

\* Every row of a finished caption bundle is of the version, the model and the frame store that
\* its manifest states, whatever was interrupted, configured anew and resumed before.
THEOREM CaptionsAlwaysStated == Spec => []CaptionsStated
<1>1. PreparationInv => CaptionsStated
    BY DEF PreparationInv, CaptionsOK
<1> QED  BY <1>1, PreparationInvHolds, PTL

\* After a build of the image index that succeeded, every vector stands at its own frame's place,
\* for any number of frames, slices, reused shards and deaths.
THEOREM VectorsStayAligned == Spec => []VectorsAligned
<1>1. PreparationInv => VectorsAligned
    BY DEF PreparationInv, IndexesOK
<1> QED  BY <1>1, PreparationInvHolds, PTL

\* A text index of a frame store holds texts of that frame store only, the index of contexts
\* too, for any bundles and any context it is built from.
THEOREM IndexesBelong == Spec => []IndexBelongs
<1>1. PreparationInv => IndexBelongs
    BY DEF PreparationInv, IndexesOK
<1> QED  BY <1>1, PreparationInvHolds, PTL

\* A transcript job that reports no failure leaves, for every video, segments and manifest of the
\* present recording and settings: what it reuses was made from the same identity.
THEOREM TranscriptsStayCurrent == Spec => TranscriptsCurrent
<1>1. PreparationInv /\ [Next]_vars =>
          [EndTranscripts /\ job.failed = {}
            => \A v \in Videos : /\ transcripts[v].segments.by = IdentityOf(v)
                                 /\ transcripts[v].manifest = IdentityOf(v)]_vars
    <2> SUFFICES ASSUME PreparationInv, EndTranscripts, job.failed = {}, NEW v \in Videos
                 PROVE  Current(v)
        BY DEF Current
    <2>1. At("asr") /\ ToSet(job.todo) = {}
        BY DEF EndTranscripts, ToSet
    <2> QED  BY <2>1 DEF PreparationInv, TranscriptsOK, TranscriptJob
<1> QED  BY <1>1, PreparationInvHolds, PTL DEF Spec, TranscriptsCurrent
=============================================================================
