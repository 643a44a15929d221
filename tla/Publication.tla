----------------------------- MODULE Publication -----------------------------
(***************************************************************************)
(* How the offline jobs replace published files by newly built ones, one   *)
(* file-system operation at a time, when any operation may fail and the    *)
(* process may die between two of them:                                    *)
(*   "bundle"      enrichment/bundle.py: data files, the manifest last;    *)
(*   "transcript"  enrichment/transcripts/publication.py: the segments and *)
(*                 manifest of one video;                                  *)
(*   "directory"   retrieval/retriever/artifacts.py: one directory,        *)
(*                 renamed as a whole, deleted file by file.               *)
(* Contents are numbered by the publication that built them, 0 is absent.  *)
(***************************************************************************)
EXTENDS Integers, FiniteSets, FiniteSetsExt

CONSTANTS
    Kinds,              \* the protocols of this instance
    Data,               \* number of data files; file Data + 1 is the manifest
    MaxPublications,    \* bound on publications
    MaxFaults,          \* bound on operations that fail
    MaxCrashes          \* bound on processes that die or are interrupted

ASSUME KindAssumption == Kinds \subseteq {"bundle", "transcript", "directory"}
ASSUME BoundAssumption == /\ Data \in Nat \ {0}
                          /\ {MaxPublications, MaxFaults, MaxCrashes} \subseteq Nat

Files == 1..(Data + 1)
Manifest == Data + 1
Absent == [f \in Files |-> 0]

VARIABLES
    kind,       \* the protocol
    target,     \* contents of the published files
    backup,     \* contents of their backups
    work,       \* the publication under way
    count,      \* publications started
    faults, crashes,
    last,       \* history: the newest generation that was whole in the target
    broken      \* history: a recovery failed, or the deletion of a directory's or a transcript's
                \* backup

publicationVars == <<kind, target, backup, work, count, faults, crashes, last, broken>>

\* step: idle, backup, place, undo, restore or clean; left: the files its loop still has
\* to visit; touched: those it has placed; existing and base: the files it found.
NoWork == [step |-> "idle", left |-> {}, touched |-> {}, existing |-> {}, base |-> Absent]

PublicationInit ==
    /\ kind \in Kinds /\ target = Absent /\ backup = Absent
    /\ work = NoWork /\ count = 0 /\ faults = 0 /\ crashes = 0
    /\ last = 0 /\ broken = FALSE

-----------------------------------------------------------------------------
Doing(step) == work.step = step
Here(files) == {f \in Files : files[f] # 0}

Whole(files) == Here(files) = Files /\ \A f \in Files : files[f] = files[Manifest]
Witnessed == last' = IF Whole(target') THEN target'[Manifest] ELSE last

\* The next file of the step's loop.
Turn == Min(work.left)

\* Files are moved one by one, a directory with everything in it.
Moved == IF kind = "directory" THEN Files ELSE {Turn}

\* A loop goes on with the files it has left, or hands over to the next one.
Then(step, left) ==
    IF left = {} THEN NoWork ELSE [work EXCEPT !.step = step, !.left = left]
ThenRestore(before) ==
    [before EXCEPT !.step = "restore",
                   !.left = IF kind = "transcript" THEN before.existing ELSE Here(backup)]

\* Mutant: stale backups are not looked for.
PublishOverStale ==
    /\ Doing("idle") /\ count < MaxPublications
    /\ count' = count + 1
    /\ LET existing == Here(target)
           started == [NoWork EXCEPT !.existing = existing, !.base = target]
       IN  work' = IF existing = {}
                  THEN [started EXCEPT !.step = "place", !.left = Files]
                  ELSE [started EXCEPT !.step = "backup", !.left = existing]
    /\ UNCHANGED <<kind, target, backup, faults, crashes, last, broken>>
\* publish_staged_bundle(), publish_staged(), publish_directory().  Only the
\* transcripts' does not refuse to start over a backup that it finds.
Publish ==
    /\ Doing("idle") /\ count < MaxPublications
    /\ kind # "transcript" => backup = Absent
    /\ count' = count + 1
    /\ LET existing == Here(target)
           started == [NoWork EXCEPT !.existing = existing, !.base = target]
       IN  work' = IF existing = {}
                  THEN [started EXCEPT !.step = "place", !.left = Files]
                  ELSE [started EXCEPT !.step = "backup", !.left = existing]
    /\ UNCHANGED <<kind, target, backup, faults, crashes, last, broken>>

\* target.replace(backup)
Backup ==
    /\ Doing("backup")
    /\ backup' = [f \in Files |-> IF f \in Moved THEN target[f] ELSE backup[f]]
    /\ target' = [f \in Files |-> IF f \in Moved THEN 0 ELSE target[f]]
    /\ LET left == work.left \ Moved IN
       work' = IF left = {} THEN [work EXCEPT !.step = "place", !.left = Files]
              ELSE [work EXCEPT !.left = left]
    /\ UNCHANGED <<kind, count, faults, crashes, last, broken>>

\* source.replace(target), data first
Place ==
    /\ Doing("place")
    /\ target' = [f \in Files |-> IF f \in Moved THEN count ELSE target[f]]
    /\ LET left == work.left \ Moved
           cleaned == IF kind = "transcript" THEN work.existing ELSE Here(backup)
       IN  work' = IF left # {} THEN [work EXCEPT !.left = left, !.touched = @ \cup Moved]
                  ELSE Then("clean", cleaned)
    /\ Witnessed
    /\ UNCHANGED <<kind, backup, count, faults, crashes, broken>>

\* backup.unlink(), rmtree(backup); a directory's files go in any order.
Clean ==
    /\ Doing("clean")
    /\ \E f \in work.left :
          /\ kind # "directory" => f = Turn
          /\ backup' = [backup EXCEPT ![f] = 0]
          /\ work' = Then("clean", work.left \ {f})
    /\ UNCHANGED <<kind, target, count, faults, crashes, last, broken>>

\* target.unlink() of what was placed, rmtree(destination)
Undo ==
    /\ Doing("undo")
    /\ \E f \in work.left :
          /\ kind # "directory" => f = Turn
          /\ target' = [target EXCEPT ![f] = 0]
          /\ work' = IF work.left = {f} THEN ThenRestore(work) ELSE [work EXCEPT !.left = @ \ {f}]
    /\ Witnessed
    /\ UNCHANGED <<kind, backup, count, faults, crashes, broken>>

\* Mutant: only files that had been replaced are restored.
RestoreTouched ==
    /\ Doing("restore")
    /\ LET files == work.left \cap work.touched IN
       /\ target' = [f \in Files |-> IF f \in files THEN backup[f] ELSE target[f]]
       /\ backup' = [f \in Files |-> IF f \in files THEN 0 ELSE backup[f]]
    /\ work' = NoWork
    /\ Witnessed
    /\ UNCHANGED <<kind, count, faults, crashes, broken>>
\* backup.replace(target), data first; the exception is raised again.  What is left to
\* clean then are backups that the restore has just moved.
Restore ==
    /\ Doing("restore")
    /\ IF work.left = {} THEN work' = NoWork /\ UNCHANGED <<target, backup>>
       ELSE /\ target' = [f \in Files |-> IF f \in Moved \cap Here(backup) THEN backup[f] ELSE target[f]]
            /\ backup' = [f \in Files |-> IF f \in Moved THEN 0 ELSE backup[f]]
            /\ work' = Then("restore", work.left \ Moved)
    /\ Witnessed
    /\ UNCHANGED <<kind, count, faults, crashes, broken>>

-----------------------------------------------------------------------------
\* An operation raises.  In the first try this starts the recovery; the bundle counts a
\* file as attempted before it replaces it.
Removed ==
    CASE kind = "bundle"     -> (IF Doing("place") THEN work.touched \cup {Turn} ELSE {}) \cap Here(target)
      [] kind = "transcript" -> work.touched
      [] OTHER               -> IF backup = Absent THEN {} ELSE Here(target)

Recover ==
    work' = IF Removed = {} THEN ThenRestore(work)
           ELSE [work EXCEPT !.step = "undo", !.left = Removed]

\* Mutant: the finally of the bundle deletes the backups unconditionally.
GiveUpCleaning ==
    work' = IF kind # "directory" /\ ~Doing("clean") THEN Then("clean", Here(backup)) ELSE NoWork
\* A failure of the recovery, or of the cleaning, ends the publication; the
\* transcripts' finally still deletes the backups.
GiveUp ==
    work' = IF kind = "transcript" /\ ~Doing("clean") THEN Then("clean", work.existing) ELSE NoWork

\* A transcript's old backup is deleted right before it is replaced.
CutShort ==
    {backup} \cup IF kind = "transcript" /\ Doing("backup") THEN {[backup EXCEPT ![Turn] = 0]} ELSE {}

Fault ==
    /\ ~Doing("idle") /\ faults < MaxFaults
    /\ faults' = faults + 1
    /\ backup' \in CutShort
    /\ IF Doing("backup") \/ Doing("place") \/ (Doing("clean") /\ kind = "directory")
       THEN Recover ELSE GiveUp
    /\ broken' = (broken \/ Doing("undo") \/ Doing("restore") \/ (Doing("clean") /\ kind # "bundle"))
    /\ UNCHANGED <<kind, target, count, crashes, last>>

\* Ctrl-C is no Exception and passes by the recovery.  Only the transcripts' finally
\* reacts, and deletes the backups of files it has not put back; for the others
\* it is a Crash.
Interrupt ==
    /\ kind = "transcript" /\ ~Doing("idle") /\ crashes < MaxCrashes
    /\ crashes' = crashes + 1
    /\ backup' \in CutShort
    /\ GiveUp
    /\ UNCHANGED <<kind, target, count, faults, last, broken>>

Crash ==
    /\ ~Doing("idle") /\ crashes < MaxCrashes
    /\ crashes' = crashes + 1 /\ work' = NoWork
    /\ backup' \in CutShort
    /\ UNCHANGED <<kind, target, count, faults, last, broken>>

\* The operator, told of a stale backup, deletes it when the files are whole and puts it
\* back otherwise.
Tidy ==
    /\ Doing("idle") /\ kind # "transcript" /\ backup # Absent
    /\ backup' = Absent
    /\ target' = IF Whole(target) THEN target
                 ELSE [f \in Files |-> IF backup[f] = 0 /\ kind = "bundle" THEN target[f]
                                       ELSE backup[f]]
    /\ Witnessed
    /\ UNCHANGED <<kind, work, count, faults, crashes, broken>>

PublicationNext ==
    \/ Publish \/ Backup \/ Place \/ Clean \/ Undo \/ Restore
    \/ Fault \/ Interrupt \/ Crash \/ Tidy

PublicationSpec == PublicationInit /\ [][PublicationNext]_publicationVars

-----------------------------------------------------------------------------
(* Properties.                                                             *)

\* A manifest is never found next to data of another generation, whatever fails and
\* wherever the process dies: readers that see the manifest see its bundle or miss a
\* file.  Not for transcripts once a backup has outlived its publication: the next
\* failure puts it back.
NeverMixed ==
    (kind = "transcript" => ~broken /\ crashes = 0) /\ target[Manifest] # 0
        => \A f \in Files : target[f] \in {0, target[Manifest]}

\* The newest generation that was ever whole can be put together from the files and the
\* backups until a newer one is.  For bundles this needs no assumption.  Directories
\* promise it until a recovery or the deletion of a backup fails (which takes the new
\* directory back), transcripts until then or until a process is killed or interrupted.
NothingLost ==
    last # 0 /\ (kind # "bundle" => ~broken) /\ (kind = "transcript" => crashes = 0)
        => \A f \in Files : last \in {target[f], backup[f]}

RecoveryFails == (Doing("undo") \/ Doing("restore")) /\ faults' # faults

\* The directory put back is not what was found: files of it had been deleted.
PartOfOld ==
    /\ kind = "directory" /\ Doing("restore") /\ backup # work.base
    /\ \A f \in Files : target'[f] \in {0, work.base[f]}

\* A publication that ends, neither killed nor interrupted nor by a failure of its
\* recovery, leaves the files it found or all of the new ones, with one exception, which
\* is the code's: a directory whose backup could not be deleted to the end is put back
\* without the files that were deleted, never with a file of another generation.
\* Transcripts promise it until one of their backups outlives its publication.
EndsOldOrNew ==
    /\ ~Doing("idle") /\ work'.step = "idle"
    /\ crashes' = crashes /\ ~RecoveryFails
    /\ kind = "transcript" => ~broken /\ crashes = 0
    => \/ target' = work.base
       \/ Whole(target') /\ target'[Manifest] = count
       \/ PartOfOld
OldOrNew == [][EndsOldOrNew]_publicationVars

=============================================================================
