---------------------------- MODULE CheckpointStore ----------------------------
(***************************************************************************)
(* cpCapture, cpPrepareRestore, cpCommit and cpPrune of                    *)
(* checkpoint_store.cpp, driven by the startup sequence that               *)
(* docs/checkpoint-recovery.md prescribes and examples/                    *)
(* 05_firmware_rollback.cpp performs:                                      *)
(*                                                                         *)
(*    newer firmware   capture, synchronize, commit, prune                 *)
(*    same firmware    synchronize, commit, prune                          *)
(*    older firmware   prepare a restore, commit it                        *)
(*                                                                         *)
(* A device starts with any firmware, the application edits its            *)
(* configuration while it runs, any step may fail, and the process may die *)
(* between any two steps.                                                  *)
(*                                                                         *)
(* A document is its embedded version and a tag that says which edit of    *)
(* the application it descends from: migration and repair keep the tag.    *)
(* One replacement of a file is one step here; ReplaceFile justifies that. *)
(***************************************************************************)
EXTENDS Integers, FiniteSets

CONSTANTS Versions,   \* registered configuration versions
          Retention,  \* CheckpointOptions::retention
          MaxEdits,   \* bound: edits of the application
          MaxClock,   \* bound: captures at distinct times
          Corrupt,    \* contents that the backend does not load
          NoFile, NoDoc

ASSUME StoreAssumption ==
  /\ Versions \subseteq Nat \ {0}
  /\ IsFiniteSet(Versions)
  /\ Retention \in Nat
  /\ MaxEdits \in Nat
  /\ MaxClock \in Nat

Docs == [ver : Versions, tag : Nat]

ASSUME SentinelAssumption ==
  /\ Corrupt \notin Docs
  /\ NoDoc \notin Docs
  /\ NoFile \notin [doc : Docs \cup {Corrupt}, mtime : Nat]

VARIABLES
  canon,    \* the canonical file's document
  cp,       \* the checkpoint directory
  clock,    \* file system time
  timing,   \* history: how captures were timed at the worst: "strict", each later
            \* than the one before, "coarse", some at the same time, or "back"
  pc,       \* where the process is; "off" when there is none
  fw,       \* the version its firmware supports
  config,   \* the VersionedConfig in memory
  pending,  \* cpPrune: files still to remove
  scan,     \* cpPrune: the verified files it has found
  edits,    \* edits made so far
  usable,   \* history: cpPrepareRestore's candidates that synchronize
  undo,     \* history: the document the last committed upgrade replaced
  touched   \* history: someone else has changed the checkpoint directory

vars == <<canon, cp, clock, timing, pc, fw, config, pending, scan, edits, usable, undo, touched>>

\* A file name is a number: version n's checkpoint is its zero-padded number,
\* so that the order of paths is the order of numbers; 0 is a temporary.
TempName == 0
Names == Versions \cup {TempName}

Files == [doc : Docs \cup {Corrupt}, mtime : Nat]
Directory == [Names -> Files \cup {NoFile}]

EmptyDirectory == [n \in Names |-> NoFile]

TypeOK ==
  /\ canon \in Docs
  /\ cp \in Directory
  /\ clock \in Nat
  /\ timing \in {"strict", "coarse", "back"}
  /\ pc \in {"off", "capture", "captureReplace", "sync", "commit", "prune", "remove",
             "restore", "commitRestored", "run"}
  /\ fw \in Versions
  /\ config \in Docs \cup {NoDoc}
  /\ (pc = "off") <=> (config = NoDoc)
  /\ pending \in SUBSET Versions
  /\ scan \in Directory
  /\ edits \in Nat
  /\ usable \in SUBSET Versions
  /\ undo \in Docs \cup {NoDoc}
  /\ touched \in BOOLEAN

Init ==
  /\ canon \in [ver : Versions, tag : {0}]
  /\ cp = EmptyDirectory
  /\ clock = 0
  /\ timing = "strict"
  /\ pc = "off"
  /\ fw \in Versions
  /\ config = NoDoc
  /\ pending = {}
  /\ scan = EmptyDirectory
  /\ edits = 0
  /\ usable = {}
  /\ undo = NoDoc
  /\ touched = FALSE

-------------------------------------------------------------------------------
(***************************************************************************)
(* Finding checkpoints.                                                    *)
(***************************************************************************)

\* Mutant: every file counts.
IsCheckpointFilename_Any(n) == TRUE

\* isCheckpointFilename: ten digits and the canonical file's extension, which
\* no temporary has.
IsCheckpointFilename(n) == n # TempName

CheckpointFiles(dir) == {n \in Names : IsCheckpointFilename(n) /\ dir[n] # NoFile}

\* Files that can be read and loaded: those with a document, minus the ones
\* whose read or whose modification time fails this time.
Loadable(dir) == {n \in CheckpointFiles(dir) : dir[n].doc # Corrupt}

\* Newest first, then by path: the order of the files of one version, and of
\* the files cpPrune retains.
NewerFirst(dir, n, m) ==
  \/ dir[n].mtime > dir[m].mtime
  \/ dir[n].mtime = dir[m].mtime /\ n < m

\* Mutant: lowest version first.
CandidateBefore_Lowest(dir, n, m) ==
  \/ dir[n].doc.ver < dir[m].doc.ver
  \/ dir[n].doc.ver = dir[m].doc.ver /\ NewerFirst(dir, n, m)

\* Highest version first, then newest, then by path: cpPrepareRestore's order.
CandidateBefore(dir, n, m) ==
  \/ dir[n].doc.ver > dir[m].doc.ver
  \/ dir[n].doc.ver = dir[m].doc.ver /\ NewerFirst(dir, n, m)

-------------------------------------------------------------------------------
(***************************************************************************)
(* The process ends: it was stopped, it died, or an operation failed and   *)
(* the application refuses to start.                                       *)
(***************************************************************************)
Exit ==
  /\ pc' = "off"
  /\ config' = NoDoc
  /\ pending' = {}
  /\ scan' = EmptyDirectory
  /\ usable' = {}

\* Between two steps, for any reason; what is on disk stays.
Stop ==
  /\ pc # "off"
  /\ Exit
  /\ UNCHANGED <<canon, cp, clock, timing, fw, edits, undo, touched>>

\* ConfigRuntime::inspect.
Inspect(v, f) ==
  CASE v = f -> "InSync"
    [] v < f -> "UpgradeRequired"
    [] v > f -> "DowngradeRequired"

\* The application loads the canonical file and inspects it.
Boot(f) ==
  /\ pc = "off"
  /\ canon.ver < f => clock < MaxClock      \* bound
  /\ fw' = f
  /\ config' = canon
  /\ pc' = CASE Inspect(canon.ver, f) = "UpgradeRequired" -> "capture"
             [] Inspect(canon.ver, f) = "InSync" -> "sync"
             [] Inspect(canon.ver, f) = "DowngradeRequired" -> "restore"
  /\ UNCHANGED <<canon, cp, clock, timing, pending, scan, edits, usable, undo, touched>>

-------------------------------------------------------------------------------
(***************************************************************************)
(* cpCapture.                                                              *)
(***************************************************************************)

\* The file system's clock may stand still between captures or be set back.
Timing(now) == CASE now > clock -> timing
                 [] now = clock -> IF timing = "strict" THEN "coarse" ELSE timing
                 [] now < clock -> "back"

\* It reads the canonical file, checks that its version is the one of the
\* supplied configuration, and writes the bytes it read to a temporary.
CaptureWrite ==
  /\ pc = "capture"
  /\ canon.ver = config.ver
  /\ \E now \in 0..clock + 1 :
       /\ clock' = now
       /\ timing' = Timing(now)
       /\ cp' = [cp EXCEPT ![TempName] = [doc |-> canon, mtime |-> now]]
  /\ pc' = "captureReplace"
  /\ UNCHANGED <<canon, fw, config, pending, scan, edits, usable, undo, touched>>

\* rename: the file keeps the time of its last write.
CaptureReplace ==
  /\ pc = "captureReplace"
  /\ cp' = [cp EXCEPT ![config.ver] = cp[TempName], ![TempName] = NoFile]
  /\ pc' = "sync"
  /\ UNCHANGED <<canon, clock, timing, fw, config, pending, scan, edits, usable, undo, touched>>

\* Mutant: the error of rename is not looked at.
CaptureReplaceFail_Ignored ==
  /\ pc = "captureReplace"
  /\ cp' = [cp EXCEPT ![TempName] = NoFile]
  /\ pc' = "sync"
  /\ UNCHANGED <<canon, clock, timing, fw, config, pending, scan, edits, usable, undo, touched>>

\* rename fails: removeTemporary, and the application refuses to start.
\* (Any earlier failure changes nothing that lasts: Stop.)
CaptureReplaceFail ==
  /\ pc = "captureReplace"
  /\ cp' = [cp EXCEPT ![TempName] = NoFile]
  /\ Exit
  /\ UNCHANGED <<canon, clock, timing, fw, edits, undo, touched>>

-------------------------------------------------------------------------------
(***************************************************************************)
(* ConfigRuntime::synchronize and cpCommit.                                *)
(***************************************************************************)

\* What a successful synchronize makes of a document that is not newer.
Synchronized(doc, f) == [doc EXCEPT !.ver = f]

Synchronize ==
  /\ pc = "sync"
  /\ config' = Synchronized(config, fw)
  /\ pc' = "commit"
  /\ UNCHANGED <<canon, cp, clock, timing, fw, pending, scan, edits, usable, undo, touched>>

\* cpCommit of the synchronized configuration.
Commit ==
  /\ pc = "commit"
  /\ canon' = config
  /\ undo' = IF config.ver > canon.ver THEN canon ELSE undo
  /\ pc' = "prune"
  /\ UNCHANGED <<cp, clock, timing, fw, config, pending, scan, edits, usable, touched>>

\* Mutant: the restored configuration is used and never committed.
CommitRestored_MemoryOnly ==
  /\ pc = "commitRestored"
  /\ undo' = NoDoc
  /\ usable' = {}
  /\ pc' = "run"
  /\ UNCHANGED <<canon, cp, clock, timing, fw, config, pending, scan, edits, touched>>

\* cpCommit of a prepared restore; this flow does not prune.
CommitRestored ==
  /\ pc = "commitRestored"
  /\ canon' = config
  /\ undo' = NoDoc
  /\ usable' = {}
  /\ pc' = "run"
  /\ UNCHANGED <<cp, clock, timing, fw, config, pending, scan, edits, touched>>

\* The running application changes a setting and commits.
Edit ==
  /\ pc = "run"
  /\ edits < MaxEdits
  /\ edits' = edits + 1
  /\ config' = [config EXCEPT !.tag = edits + 1]
  /\ canon' = config'
  /\ UNCHANGED <<cp, clock, timing, pc, fw, pending, scan, usable, undo, touched>>

-------------------------------------------------------------------------------
(***************************************************************************)
(* cpPrepareRestore.  It changes nothing on disk: one step.                *)
(***************************************************************************)

Candidates(dir, readable, f) == {n \in readable : dir[n].doc.ver <= f}

\* Candidates are tried in order; the first that synchronizes is returned.
FirstCandidate(dir, good, n) ==
  /\ n \in good
  /\ \A m \in good \ {n} : CandidateBefore(dir, n, m)

\* Mutant: the candidates are not sorted.
PrepareRestore_Unsorted ==
  /\ pc = "restore"
  /\ \E readable \in SUBSET Loadable(cp) :
       \E good \in SUBSET Candidates(cp, readable, fw) :
         \E n \in good :
           /\ config' = Synchronized(cp[n].doc, fw)
           /\ usable' = good
  /\ pc' = "commitRestored"
  /\ UNCHANGED <<canon, cp, clock, timing, fw, pending, scan, edits, undo, touched>>

\* readable: the files that load this time; good: those candidates that
\* synchronize.
PrepareRestore ==
  /\ pc = "restore"
  /\ \E readable \in SUBSET Loadable(cp) :
       \E good \in SUBSET Candidates(cp, readable, fw), n \in Versions :
         /\ FirstCandidate(cp, good, n)
         /\ config' = Synchronized(cp[n].doc, fw)
         /\ usable' = good
  /\ pc' = "commitRestored"
  /\ UNCHANGED <<canon, cp, clock, timing, fw, pending, scan, edits, undo, touched>>

\* No candidate synchronizes: the application refuses to start.
PrepareRestoreNone ==
  /\ pc = "restore"
  /\ Exit
  /\ UNCHANGED <<canon, cp, clock, timing, fw, edits, undo, touched>>

-------------------------------------------------------------------------------
(***************************************************************************)
(* cpPrune.                                                                *)
(***************************************************************************)

\* Mutant: the oldest file of a version stays.
Duplicate_Oldest(dir, verified, n) ==
  \E m \in verified \ {n} : dir[m].doc.ver = dir[n].doc.ver /\ NewerFirst(dir, n, m)

\* Of several files of one embedded version all but the first are duplicates.
Duplicate(dir, verified, n) ==
  \E m \in verified \ {n} : dir[m].doc.ver = dir[n].doc.ver /\ NewerFirst(dir, m, n)

RetainedVersions(dir, verified) == {n \in verified : ~Duplicate(dir, verified, n)}

\* The index of n in the sorted vector retained_versions.
Index(dir, verified, n) ==
  Cardinality({m \in RetainedVersions(dir, verified) : m # n /\ NewerFirst(dir, m, n)})

\* Mutant: one version too few stays.
Surplus_OffByOne(dir, verified, n) ==
  /\ ~Duplicate(dir, verified, n)
  /\ Index(dir, verified, n) + 1 >= Retention

Surplus(dir, verified, n) ==
  /\ ~Duplicate(dir, verified, n)
  /\ Index(dir, verified, n) >= Retention

Removals(dir, verified) ==
  {n \in verified : Duplicate(dir, verified, n) \/ Surplus(dir, verified, n)}

\* The order of the vector `removals': duplicates by version, then surplus
\* versions from the newest.
RemovedBefore(dir, verified, n, m) ==
  IF Duplicate(dir, verified, n)
    THEN Duplicate(dir, verified, m) =>
           \/ dir[n].doc.ver < dir[m].doc.ver
           \/ dir[n].doc.ver = dir[m].doc.ver /\ NewerFirst(dir, n, m)
    ELSE ~Duplicate(dir, verified, m) /\ NewerFirst(dir, n, m)

\* Enumerate, verify, group and sort.  Files that do not load are left alone.
PruneScan ==
  /\ pc = "prune"
  /\ \E verified \in SUBSET Loadable(cp) :
       /\ pending' = Removals(cp, verified)
       /\ scan' = [n \in Names |-> IF n \in verified THEN cp[n] ELSE NoFile]
  /\ pc' = "remove"
  /\ UNCHANGED <<canon, cp, clock, timing, fw, config, edits, usable, undo, touched>>

\* Remove the next file.  (A failed removal ends cpPrune with an error: Stop.)
PruneRemove ==
  /\ pc = "remove"
  /\ \E n \in pending :
       /\ \A m \in pending \ {n} : RemovedBefore(scan, CheckpointFiles(scan), n, m)
       /\ cp' = [cp EXCEPT ![n] = NoFile]
       /\ pending' = pending \ {n}
  /\ UNCHANGED <<canon, clock, timing, pc, fw, config, scan, edits, usable, undo, touched>>

PruneDone ==
  /\ pc = "remove"
  /\ pending = {}
  /\ pc' = "run"
  /\ scan' = EmptyDirectory
  /\ UNCHANGED <<canon, cp, clock, timing, fw, config, pending, edits, usable, undo, touched>>

-------------------------------------------------------------------------------
(***************************************************************************)
(* What others do to the checkpoint directory while no process runs.       *)
(***************************************************************************)

Damage(n) ==
  /\ pc = "off" /\ ~touched
  /\ cp[n] # NoFile
  /\ cp' = [cp EXCEPT ![n].doc = Corrupt]
  /\ touched' = TRUE
  /\ UNCHANGED <<canon, clock, timing, pc, fw, config, pending, scan, edits, usable, undo>>

\* An operator copies a checkpoint to another checkpoint's name.
Copy(n, m) ==
  /\ pc = "off" /\ ~touched
  /\ n # m /\ cp[n] # NoFile
  /\ clock < MaxClock
  /\ clock' = clock + 1
  /\ cp' = [cp EXCEPT ![m] = [cp[n] EXCEPT !.mtime = clock + 1]]
  /\ touched' = TRUE
  /\ UNCHANGED <<canon, timing, pc, fw, config, pending, scan, edits, usable, undo>>

-------------------------------------------------------------------------------
\* The steps of a startup.
StartupStep ==
  \/ CaptureWrite \/ CaptureReplace \/ CaptureReplaceFail
  \/ Synchronize \/ Commit \/ CommitRestored
  \/ PrepareRestore \/ PrepareRestoreNone
  \/ PruneScan \/ PruneRemove \/ PruneDone

Next ==
  \/ \E f \in Versions : Boot(f)
  \/ StartupStep
  \/ Edit
  \/ Stop
  \/ \E n \in Versions : Damage(n)
  \/ \E n, m \in Versions : Copy(n, m)

Spec == Init /\ [][Next]_vars

-------------------------------------------------------------------------------
(***************************************************************************)
(* Properties.                                                             *)
(***************************************************************************)

\* Whenever cpCommit replaces the canonical file by a newer version, the
\* document it replaces is in the checkpoint of its version.
UpgradeIsCaptured ==
  [][canon'.ver > canon.ver =>
       /\ cp[canon.ver] # NoFile
       /\ cp[canon.ver].doc = canon]_vars

\* The last upgrade can be undone exactly: as long as nobody else touches the
\* directory, a device whose firmware goes back to the version the upgrade
\* came from finds the very document the upgrade replaced, whatever upgrades
\* were begun and not finished since, and wherever cpPrune was interrupted.
\* Two retained versions and captures at increasing times are enough.
RollbackIsExact ==
  undo # NoDoc /\ ~touched /\ timing = "strict" =>
    LET found == Candidates(cp, Loadable(cp), undo.ver)
    IN  \E n \in found : FirstCandidate(cp, found, n) /\ cp[n].doc = undo

\* With a clock too coarse to order captures, cpPrune may drop that document,
\* but never the last checkpoint which the older firmware can use.  (With a
\* clock that was set back it may drop that one too.)
RollbackAvailable ==
  undo # NoDoc /\ ~touched /\ timing # "back" => Candidates(cp, Loadable(cp), undo.ver) # {}

\* A running device has a canonical file of the version its firmware supports,
\* and it is what the application has in memory.
RunMatchesFirmware == pc = "run" => canon = config /\ canon.ver = fw

\* What cpPrepareRestore returns comes from a checkpoint that synchronizes, and
\* no other such checkpoint has a higher version, or the same and a later time.
RestoreIsBest ==
  pc = "commitRestored" =>
    \E n \in usable :
      /\ config = Synchronized(cp[n].doc, fw)
      /\ \A m \in usable :
           \/ cp[m].doc.ver < cp[n].doc.ver
           \/ cp[m].doc.ver = cp[n].doc.ver /\ cp[m].mtime <= cp[n].mtime

\* At every point of cpPrune: what it leaves are as many versions as retention
\* allows, one file each, and every other verified file is older than one of
\* its version that stays, or than everything that stays.
PruneKeepsNewest ==
  LET verified == Loadable(scan)
      left == {n \in verified : cp[n] = scan[n]} \ pending
      vers(S) == {scan[n].doc.ver : n \in S}
  IN  pc = "remove" =>
        /\ Cardinality(left) = Cardinality(vers(left))
        /\ \/ Cardinality(left) = Retention
           \/ Cardinality(left) < Retention /\ vers(left) = vers(verified)
        /\ \A n \in verified \ left :
             \/ \E m \in left : scan[m].doc.ver = scan[n].doc.ver /\ NewerFirst(scan, m, n)
             \/ \A m \in left : NewerFirst(scan, m, n)
===============================================================================
