------------------------- MODULE CheckpointStoreProofs -------------------------
(***************************************************************************)
(* CheckpointStore, for every set of versions, every retention and any     *)
(* number of edits, captures and interruptions: the type invariant, that   *)
(* every committed upgrade was captured, and that the last upgrade can be  *)
(* undone exactly when two versions are retained and captures get          *)
(* increasing times.  Then what cpPrune and cpPrepareRestore choose, for   *)
(* any clock: what a restore returns is the best that synchronizes, what   *)
(* cpPrune leaves is what retention promises, wherever it is interrupted,  *)
(* and it never takes the last checkpoint the last upgrade can be rolled   *)
(* back to.                                                                *)
(***************************************************************************)
EXTENDS CheckpointStore, FiniteOrders

\* Times are in the past, unless the clock was set back.
TimesInv == timing # "back" => \A n \in Names : cp[n] # NoFile => cp[n].mtime <= clock

\* Where the configuration in memory stands to the canonical file.
FlowInv ==
  /\ pc \in {"capture", "captureReplace", "sync", "restore"} => config = canon
  /\ pc \in {"capture", "captureReplace"} => canon.ver < fw
  /\ pc = "sync" => canon.ver <= fw
  /\ pc = "commit" => canon.ver <= fw /\ config.ver = fw
  /\ pc = "commitRestored" => config.ver = fw /\ canon.ver > fw
  /\ pc = "restore" => canon.ver > fw
  /\ pc \in {"prune", "remove", "run"} => config = canon /\ canon.ver = fw
  /\ pc = "captureReplace" => cp[TempName] = [doc |-> canon, mtime |-> clock]

\* From the capture to the commit of an upgrade its document is in place.
CaptureInv ==
  pc \in {"sync", "commit"} /\ canon.ver < fw =>
    cp[canon.ver] # NoFile /\ cp[canon.ver].doc = canon

StructInv == TypeOK /\ TimesInv /\ FlowInv /\ CaptureInv

-------------------------------------------------------------------------------
LEMMA TempNameFresh == TempName \notin Versions
  BY StoreAssumption DEF TempName

LEMMA VersionsNat ==
  /\ \A v \in Versions : v \in Nat /\ v # TempName
  /\ \A d \in Docs : d.ver \in Versions /\ d.ver \in Nat
  BY StoreAssumption DEF Docs, TempName

LEMMA StructInit == Init => StructInv
<1> SUFFICES ASSUME Init PROVE StructInv
  OBVIOUS
<1>1. canon \in Docs
  BY StoreAssumption DEF Init, Docs
<1> QED
  BY <1>1, StoreAssumption, SentinelAssumption
     DEF Init, StructInv, TypeOK, TimesInv, FlowInv, CaptureInv, Docs, Files, Directory,
         EmptyDirectory, Names

LEMMA StructStep == StructInv /\ [Next]_vars => StructInv'
<1> SUFFICES ASSUME StructInv, [Next]_vars PROVE StructInv'
  OBVIOUS
<1> USE StoreAssumption, SentinelAssumption, TempNameFresh
    DEF StructInv, TypeOK, TimesInv, FlowInv, CaptureInv, Docs, Files, Directory,
        EmptyDirectory, Names, Exit, vars
<1>1. CASE CaptureWrite
  BY <1>1 DEF CaptureWrite, Timing
<1>2. CASE CaptureReplace
  <2>1. /\ pc = "captureReplace" /\ pc' = "sync" /\ config = canon
        /\ canon.ver \in Versions /\ canon.ver # TempName
        /\ cp[TempName] = [doc |-> canon, mtime |-> clock]
        /\ UNCHANGED <<canon, clock, timing, fw, config, pending, scan, edits, usable, undo, touched>>
    BY <1>2 DEF CaptureReplace
  <2>2. cp' = [cp EXCEPT ![canon.ver] = [doc |-> canon, mtime |-> clock], ![TempName] = NoFile]
    BY <1>2, <2>1 DEF CaptureReplace
  <2>3. [doc |-> canon, mtime |-> clock] \in Files
    OBVIOUS
  <2>4. /\ cp' \in Directory
        /\ cp'[canon.ver] = [doc |-> canon, mtime |-> clock]
        /\ \A n \in Names \ {canon.ver} : cp'[n] = cp[n] \/ cp'[n] = NoFile
    BY <2>1, <2>2, <2>3
  <2>5. TypeOK'
    BY <2>1, <2>4
  <2>6. TimesInv'
    BY <2>1, <2>4
  <2>7. FlowInv' /\ CaptureInv'
    <3>1. cp'[canon.ver] # NoFile /\ cp'[canon.ver].doc = canon
      BY <2>3, <2>4
    <3>2. canon.ver <= fw
      <4>1. canon.ver \in Nat /\ fw \in Nat
        BY VersionsNat
      <4> QED
        BY <2>1, <4>1
    <3>3. FlowInv'
      BY <2>1, <3>2 DEF FlowInv
    <3>4. CaptureInv'
      BY <2>1, <3>1 DEF CaptureInv
    <3> QED
      BY <3>3, <3>4
  <2> QED
    BY <2>5, <2>6, <2>7
<1>3. CASE CaptureReplaceFail
  BY <1>3 DEF CaptureReplaceFail
<1>4. CASE Synchronize
  BY <1>4 DEF Synchronize, Synchronized
<1>5. CASE Commit
  BY <1>5 DEF Commit
<1>6. CASE CommitRestored
  BY <1>6 DEF CommitRestored
<1>7. CASE PrepareRestoreNone
  BY <1>7 DEF PrepareRestoreNone
<1>8. CASE PrepareRestore
  BY <1>8 DEF PrepareRestore, Synchronized, Loadable, CheckpointFiles, IsCheckpointFilename, Candidates, FirstCandidate
<1>9. CASE PruneScan
  BY <1>9 DEF PruneScan, Removals, Loadable, CheckpointFiles, IsCheckpointFilename
<1>10. CASE PruneRemove
  BY <1>10 DEF PruneRemove
<1>11. CASE PruneDone
  BY <1>11 DEF PruneDone
<1>12. CASE Edit
  BY <1>12 DEF Edit
<1>13. CASE Stop
  BY <1>13 DEF Stop
<1>14. ASSUME NEW f \in Versions, Boot(f) PROVE StructInv'
  BY <1>14 DEF Boot, Inspect
<1>15. ASSUME NEW n \in Versions, Damage(n) PROVE StructInv'
  BY <1>15 DEF Damage
<1>16. ASSUME NEW n \in Versions, NEW m \in Versions, Copy(n, m) PROVE StructInv'
  BY <1>16 DEF Copy
<1>17. CASE UNCHANGED vars
  BY <1>17
<1> QED
  BY <1>1, <1>2, <1>3, <1>4, <1>5, <1>6, <1>7, <1>8, <1>9, <1>10, <1>11, <1>12, <1>13, <1>14, <1>15, <1>16, <1>17 DEF Next, StartupStep

\* The files, the process and the history have their types, and a device that
\* runs has a canonical file of its firmware's version.
THEOREM TypeCorrect == Spec => [](TypeOK /\ RunMatchesFirmware)
<1>1. StructInv => TypeOK /\ RunMatchesFirmware
  BY DEF StructInv, FlowInv, RunMatchesFirmware
<1> QED
  BY <1>1, StructInit, StructStep, PTL DEF Spec

\* Only Commit raises the canonical version, and it finds the capture there:
\* no upgrade is committed whose predecessor is not in the directory.
THEOREM UpgradesCaptured == Spec => UpgradeIsCaptured
<1>1. StructInv /\ Next =>
        (canon'.ver > canon.ver => cp[canon.ver] # NoFile /\ cp[canon.ver].doc = canon)
  <2> SUFFICES ASSUME StructInv, Next, canon'.ver > canon.ver
               PROVE  cp[canon.ver] # NoFile /\ cp[canon.ver].doc = canon
    OBVIOUS
  <2> USE StoreAssumption DEF StructInv, TypeOK, Docs
  <2>1. canon' # canon
    <3>1. canon.ver \in Nat
      BY VersionsNat
    <3> QED
      BY <3>1
  <2>2. CASE Commit
    BY <2>2 DEF Commit, FlowInv, CaptureInv
  <2>3. CASE CommitRestored
    <3>1. canon'.ver = fw /\ canon.ver > fw
      BY <2>3 DEF CommitRestored, FlowInv
    <3>2. canon.ver \in Nat /\ fw \in Nat
      BY VersionsNat
    <3> QED
      BY ONLY <3>1, <3>2, canon'.ver > canon.ver
  <2>4. CASE Edit
    BY <2>4 DEF Edit, FlowInv
  <2> QED
    BY <2>1, <2>2, <2>3, <2>4
       DEF Next, StartupStep, Boot, CaptureWrite, CaptureReplace, CaptureReplaceFail,
           Synchronize, PrepareRestore, PrepareRestoreNone, PruneScan, PruneRemove, PruneDone,
           Stop, Damage, Copy
<1>2. StructInv /\ [Next]_vars =>
        [canon'.ver > canon.ver => cp[canon.ver] # NoFile /\ cp[canon.ver].doc = canon]_vars
  BY <1>1
<1> QED
  BY <1>2, StructInit, StructStep, PTL DEF Spec, UpgradeIsCaptured

-------------------------------------------------------------------------------
(***************************************************************************)
(* Undoing the last upgrade.                                               *)
(***************************************************************************)

\* Nobody but cpCapture writes checkpoints: a file is named by its version.
NamesInv ==
  ~touched => \A n \in Versions : cp[n] # NoFile => cp[n].doc \in Docs /\ cp[n].doc.ver = n

\* The capture in progress is newer than every other checkpoint.
FreshInv ==
  timing = "strict" =>
  /\ pc = "captureReplace" => \A n \in Versions : cp[n] # NoFile => cp[n].mtime < clock
  /\ pc \in {"sync", "commit"} /\ canon.ver < fw =>
       \A n \in Versions \ {canon.ver} : cp[n] # NoFile => cp[n].mtime < cp[canon.ver].mtime

\* Only a checkpoint of the current version, left by an upgrade that was not
\* finished, can be newer than the one the last upgrade needs.
UndoInv ==
  undo # NoDoc /\ ~touched /\ timing = "strict" =>
    /\ undo.ver < canon.ver
    /\ cp[undo.ver] # NoFile
    /\ cp[undo.ver].doc = undo
    /\ \A n \in Versions \ {undo.ver, canon.ver} :
         cp[n] # NoFile => cp[n].mtime < cp[undo.ver].mtime
    /\ undo.ver \notin pending

PendingInv == pc # "remove" => pending = {}

Inv == StructInv /\ NamesInv /\ FreshInv /\ UndoInv /\ PendingInv

LEMMA UndoInit == Init => Inv
<1> SUFFICES ASSUME Init PROVE Inv
  OBVIOUS
<1>1. StructInv
  BY StructInit
<1> QED
  BY <1>1 DEF Init, Inv, NamesInv, FreshInv, UndoInv, PendingInv, EmptyDirectory, Names

\* cpPrune never chooses the file the last upgrade needs: its version has no
\* other file, and at most one version has a newer one.
LEMMA PruneSparesUndo ==
  ASSUME Retention >= 2, Inv, undo # NoDoc, ~touched, timing = "strict",
         NEW verified \in SUBSET Loadable(cp)
  PROVE  undo.ver \notin Removals(cp, verified)
<1> DEFINE u == undo.ver
           newer == {m \in RetainedVersions(cp, verified) : m # u /\ NewerFirst(cp, m, u)}
<1>1. /\ u \in Versions /\ canon.ver \in Versions
      /\ verified \subseteq Versions
      /\ \A n \in verified : cp[n] # NoFile /\ cp[n].doc.ver = n /\ cp[n].mtime \in Nat
      /\ cp[u].mtime \in Nat
      /\ \A n \in verified \ {u, canon.ver} : cp[n].mtime < cp[u].mtime
  BY StoreAssumption, SentinelAssumption
     DEF Inv, StructInv, TypeOK, NamesInv, UndoInv, Docs, Directory, Files, Names, Loadable,
         CheckpointFiles, IsCheckpointFilename
<1>2. \A n \in verified : ~Duplicate(cp, verified, n)
  BY <1>1 DEF Duplicate
<1>3. newer \subseteq {canon.ver}
  BY <1>1, StoreAssumption DEF RetainedVersions, NewerFirst
<1>4. Cardinality(newer) \in Nat /\ Cardinality(newer) <= 1
  <2>1. IsFiniteSet({canon.ver}) /\ Cardinality({canon.ver}) = 1
    BY FS_Singleton
  <2>2. IsFiniteSet(newer) /\ Cardinality(newer) <= Cardinality({canon.ver})
    BY <1>3, <2>1, FS_Subset
  <2> QED
    BY <2>1, <2>2, FS_CardinalityType
<1>5. Index(cp, verified, u) \in Nat /\ Index(cp, verified, u) <= 1
  BY <1>4 DEF Index
<1> HIDE DEF u
<1>6. ~Surplus(cp, verified, u)
  BY <1>5, StoreAssumption DEF Surplus
<1> QED
  BY <1>2, <1>6 DEF Removals, u

LEMMA UndoStep ==
  ASSUME Retention >= 2
  PROVE  Inv /\ [Next]_vars => Inv'
<1> SUFFICES ASSUME Inv, [Next]_vars PROVE Inv'
  OBVIOUS
<1>0. StructInv'
  BY StructStep DEF Inv
<1> USE <1>0, StoreAssumption, SentinelAssumption, TempNameFresh
    DEF Inv, StructInv, TypeOK, TimesInv, FlowInv, CaptureInv, Docs, Files, Directory,
        EmptyDirectory, Names, NamesInv, FreshInv, UndoInv, PendingInv, Exit, vars
<1>1. CASE CaptureWrite
  BY <1>1 DEF CaptureWrite, Timing
<1>2. CASE CaptureReplace
  <2> DEFINE v == canon.ver
             new == [doc |-> canon, mtime |-> clock]
  <2>1. /\ pc = "captureReplace" /\ pc' = "sync" /\ config = canon /\ cp[TempName] = new
        /\ v \in Versions /\ v # TempName /\ v \in Nat /\ fw \in Nat /\ v < fw
        /\ new # NoFile /\ new.mtime = clock /\ new.doc = canon
        /\ UNCHANGED <<canon, clock, timing, fw, config, pending, scan, edits, usable, undo, touched>>
    BY <1>2, VersionsNat DEF CaptureReplace
  <2>2. cp'[v] = new /\ \A n \in Versions \ {v} : cp'[n] = cp[n]
    BY <1>2, <2>1 DEF CaptureReplace
  <2> HIDE DEF v, new
  <2>3. NamesInv'
    BY <2>1, <2>2 DEF v
  <2>4. FreshInv'
    BY <2>1, <2>2 DEF v
  <2>5. UndoInv'
    <3> SUFFICES ASSUME undo # NoDoc, ~touched, timing = "strict" PROVE UndoInv'
      BY <2>1
    <3>1. undo.ver \in Versions /\ undo.ver # v
      BY <2>1, VersionsNat DEF v
    <3>2. cp'[undo.ver] = cp[undo.ver] /\ canon'.ver = v /\ undo' = undo /\ pending' = pending
      BY <2>1, <2>2, <3>1 DEF v
    <3>3. \A n \in Versions \ {undo.ver, v} :
            cp'[n] # NoFile => cp'[n].mtime < cp'[undo.ver].mtime
      BY <2>2, <3>2 DEF v
    <3> QED
      BY <3>2, <3>3 DEF v
  <2>6. PendingInv'
    BY <2>1
  <2> QED
    BY <2>3, <2>4, <2>5, <2>6
<1>3. CASE CaptureReplaceFail
  BY <1>3 DEF CaptureReplaceFail
<1>4. CASE Synchronize
  BY <1>4 DEF Synchronize, Synchronized
<1>5. CASE Commit
  <2>1. /\ pc = "commit" /\ pc' = "prune" /\ canon' = config /\ config.ver = fw
        /\ canon.ver \in Nat /\ fw \in Nat /\ canon.ver <= fw /\ canon.ver \in Versions
        /\ canon \in Docs /\ canon # NoDoc
        /\ UNCHANGED <<cp, clock, timing, fw, config, pending, scan, edits, usable, touched>>
    BY <1>5, VersionsNat DEF Commit
  <2>2. CASE canon.ver < fw
    <3>1. undo' = canon
      BY <1>5, <2>1, <2>2 DEF Commit
    <3> QED
      BY <2>1, <2>2, <3>1
  <2>3. CASE canon.ver = fw
    <3>1. undo' = undo /\ canon'.ver = canon.ver
      BY <1>5, <2>1, <2>3 DEF Commit
    <3> QED
      BY <2>1, <2>3, <3>1
  <2> QED
    BY <2>1, <2>2, <2>3
<1>6. CASE CommitRestored
  BY <1>6 DEF CommitRestored
<1>7. CASE PrepareRestoreNone
  BY <1>7 DEF PrepareRestoreNone
<1>8. CASE PrepareRestore
  BY <1>8 DEF PrepareRestore, Synchronized, Loadable, CheckpointFiles, IsCheckpointFilename, Candidates, FirstCandidate
<1>9. CASE PruneRemove
  BY <1>9 DEF PruneRemove
<1>10. CASE PruneDone
  BY <1>10 DEF PruneDone
<1>11. CASE Edit
  BY <1>11 DEF Edit
<1>12. CASE Stop
  BY <1>12 DEF Stop
<1>13. CASE PruneScan
  BY <1>13, PruneSparesUndo DEF PruneScan
<1>14. ASSUME NEW f \in Versions, Boot(f) PROVE Inv'
  BY <1>14 DEF Boot, Inspect
<1>15. ASSUME NEW n \in Versions, Damage(n) PROVE Inv'
  BY <1>15 DEF Damage
<1>16. ASSUME NEW n \in Versions, NEW m \in Versions, Copy(n, m) PROVE Inv'
  BY <1>16 DEF Copy
<1>17. CASE UNCHANGED vars
  BY <1>17
<1> QED
  BY <1>1, <1>2, <1>3, <1>4, <1>5, <1>6, <1>7, <1>8, <1>9, <1>10, <1>11, <1>12, <1>13, <1>14, <1>15, <1>16, <1>17 DEF Next, StartupStep

\* With two retained versions, and as long as captures get increasing times, the
\* last committed upgrade can always be undone exactly, for any number of versions and
\* whatever was interrupted since.
THEOREM LastUpgradeUndoable ==
  ASSUME Retention >= 2
  PROVE  Spec => []RollbackIsExact
<1>1. Inv => RollbackIsExact
  <2> SUFFICES ASSUME Inv, undo # NoDoc, ~touched, timing = "strict"
               PROVE  \E n \in Candidates(cp, Loadable(cp), undo.ver) :
                        /\ FirstCandidate(cp, Candidates(cp, Loadable(cp), undo.ver), n)
                        /\ cp[n].doc = undo
    BY DEF RollbackIsExact
  <2> DEFINE found == Candidates(cp, Loadable(cp), undo.ver)
  <2>1. /\ undo.ver \in Versions
        /\ cp[undo.ver] # NoFile /\ cp[undo.ver].doc = undo
        /\ \A n \in Loadable(cp) : n \in Versions /\ cp[n].doc.ver = n
    BY StoreAssumption, SentinelAssumption
       DEF Inv, StructInv, TypeOK, NamesInv, UndoInv, Docs, Names, Loadable, CheckpointFiles,
           IsCheckpointFilename
  <2>2. undo.ver \in found
    <3>1. undo \in Docs /\ undo # Corrupt /\ undo.ver \in Nat /\ undo.ver # TempName
      BY <2>1, SentinelAssumption, VersionsNat DEF Inv, StructInv, TypeOK
    <3>2. undo.ver \in Loadable(cp)
      BY <2>1, <3>1 DEF Loadable, CheckpointFiles, IsCheckpointFilename, Names
    <3> QED
      BY <2>1, <3>1, <3>2 DEF Candidates
  <2>3. \A m \in found \ {undo.ver} : CandidateBefore(cp, undo.ver, m)
    <3>1. \A m \in found : m \in Nat /\ cp[m].doc.ver = m /\ m <= undo.ver
      BY <2>1, VersionsNat DEF Candidates
    <3>2. undo.ver \in Nat
      BY <2>1, VersionsNat
    <3> QED
      BY <2>1, <3>1, <3>2 DEF CandidateBefore
  <2> QED
    BY <2>1, <2>2, <2>3 DEF FirstCandidate
<1>2. Inv /\ [Next]_vars => Inv'
  BY UndoStep
<1> QED
  BY <1>1, <1>2, UndoInit, PTL DEF Spec

-------------------------------------------------------------------------------
(* What cpPrune and cpPrepareRestore choose.                               *)

\* The comparison of cpPrune's sort, as a set of pairs.
NewerOrder(dir) ==
  {p \in Versions \X Versions : p[1] # p[2] /\ NewerFirst(dir, p[1], p[2])}

Timed(dir, A) == \A n \in A : dir[n].mtime \in Nat

Kept(dir, verified) == verified \ Removals(dir, verified)

VersionsIn(dir, A) == {dir[n].doc.ver : n \in A}

-------------------------------------------------------------------------------
(***************************************************************************)
(* The sorted vectors of cpPrune.                                          *)
(***************************************************************************)

\* Two checkpoints are never equal in the sort: the path decides between
\* files of one time.
LEMMA NewerIsOrder ==
  ASSUME NEW dir, NEW A \in SUBSET Versions, Timed(dir, A)
  PROVE  /\ IsFiniteSet(A)
         /\ IsStrictOrder(NewerOrder(dir), A)
         /\ \A n, m \in A : <<n, m>> \in NewerOrder(dir) <=> NewerFirst(dir, n, m)
         /\ \A n, m \in A : n # m => NewerFirst(dir, n, m) \/ NewerFirst(dir, m, n)
         /\ \A n, m \in A : ~(NewerFirst(dir, n, m) /\ NewerFirst(dir, m, n))
         /\ \A l, n, m \in A : NewerFirst(dir, l, n) /\ NewerFirst(dir, n, m) => NewerFirst(dir, l, m)
<1>1. IsFiniteSet(A)
  BY StoreAssumption, FS_Subset
<1>2. \A n \in A : n \in Nat /\ n \in Versions /\ dir[n].mtime \in Nat
  BY VersionsNat DEF Timed
<1>3. \A n, m \in A : n # m => NewerFirst(dir, n, m) \/ NewerFirst(dir, m, n)
  BY <1>2 DEF NewerFirst
<1>4. \A n, m \in A : ~(NewerFirst(dir, n, m) /\ NewerFirst(dir, m, n))
  BY <1>2 DEF NewerFirst
<1>5. \A l, n, m \in A : NewerFirst(dir, l, n) /\ NewerFirst(dir, n, m) => NewerFirst(dir, l, m)
  BY <1>2 DEF NewerFirst
<1>6. \A n, m \in A : <<n, m>> \in NewerOrder(dir) <=> NewerFirst(dir, n, m)
  BY <1>2, <1>4 DEF NewerOrder
<1>7. IsStrictOrder(NewerOrder(dir), A)
  BY <1>3, <1>4, <1>5, <1>6 DEF IsStrictOrder
<1> QED
  BY <1>1, <1>3, <1>4, <1>5, <1>6, <1>7

\* Any group of files has a first one.
LEMMA NewestExists ==
  ASSUME NEW dir, NEW A \in SUBSET Versions, Timed(dir, A), A # {}
  PROVE  \E n \in A : \A m \in A \ {n} : NewerFirst(dir, n, m)
<1>1. PICK n \in A : \A m \in A \ {n} : <<n, m>> \in NewerOrder(dir)
  BY NewerIsOrder, FirstExists
<1> QED
  BY <1>1, NewerIsOrder

\* Grouping keeps one file of every version, the newest, and no two.
LEMMA RetainedPerVersion ==
  ASSUME NEW dir, NEW verified \in SUBSET Versions, Timed(dir, verified)
  PROVE  /\ \A n, m \in RetainedVersions(dir, verified) :
              dir[n].doc.ver = dir[m].doc.ver => n = m
         /\ \A n \in verified :
              \E m \in RetainedVersions(dir, verified) :
                /\ dir[m].doc.ver = dir[n].doc.ver
                /\ m = n \/ NewerFirst(dir, m, n)
<1>1. \A n, m \in RetainedVersions(dir, verified) : dir[n].doc.ver = dir[m].doc.ver => n = m
  BY NewerIsOrder DEF RetainedVersions, Duplicate
<1>2. ASSUME NEW n \in verified
      PROVE  \E m \in RetainedVersions(dir, verified) :
               dir[m].doc.ver = dir[n].doc.ver /\ (m = n \/ NewerFirst(dir, m, n))
  <2> DEFINE A == {m \in verified : dir[m].doc.ver = dir[n].doc.ver}
  <2>1. A \in SUBSET Versions /\ Timed(dir, A) /\ n \in A
    BY DEF Timed
  <2> HIDE DEF A
  <2>2. PICK m \in A : \A l \in A \ {m} : NewerFirst(dir, m, l)
    BY <2>1, NewestExists
  <2>3. m \in verified /\ dir[m].doc.ver = dir[n].doc.ver
    BY DEF A
  <2>4. ~Duplicate(dir, verified, m)
    <3> SUFFICES ASSUME NEW l \in verified \ {m}, dir[l].doc.ver = dir[m].doc.ver,
                        NewerFirst(dir, l, m)
                 PROVE  FALSE
      BY DEF Duplicate
    <3>1. l \in A
      BY <2>3 DEF A
    <3> QED
      BY <2>2, <2>3, <3>1, NewerIsOrder
  <2> QED
    BY <2>1, <2>2, <2>3, <2>4 DEF RetainedVersions
<1> QED
  BY <1>1, <1>2

LEMMA IndexIsRank ==
  ASSUME NEW dir, NEW verified \in SUBSET Versions, Timed(dir, verified),
         NEW n \in RetainedVersions(dir, verified)
  PROVE  Index(dir, verified, n) = Rank(NewerOrder(dir), RetainedVersions(dir, verified), n)
<1> DEFINE R == RetainedVersions(dir, verified)
<1>1. R \in SUBSET verified /\ n \in verified
  BY DEF RetainedVersions
<1>2. {m \in R : m # n /\ NewerFirst(dir, m, n)} = Before(NewerOrder(dir), R, n)
  BY <1>1, NewerIsOrder DEF Before, NewerOrder
<1> QED
  BY <1>2 DEF Index, Rank

\* What cpPrune does not choose are the versions with an index below retention.
LEMMA KeptIsPrefix ==
  ASSUME NEW dir, NEW verified \in SUBSET Versions, Timed(dir, verified)
  PROVE  Kept(dir, verified) =
           {n \in RetainedVersions(dir, verified) :
              Rank(NewerOrder(dir), RetainedVersions(dir, verified), n) < Retention}
<1> DEFINE R == RetainedVersions(dir, verified)
<1>1. R \in SUBSET verified /\ R \in SUBSET Versions /\ Timed(dir, R)
  BY DEF RetainedVersions, Timed
<1>2. IsFiniteSet(R) /\ IsStrictOrder(NewerOrder(dir), R)
  BY <1>1, NewerIsOrder
<1> HIDE DEF R
<1>3. \A n \in R : Rank(NewerOrder(dir), R, n) \in Nat
  BY <1>2, RankMonotone
<1>4. \A n \in R : Index(dir, verified, n) = Rank(NewerOrder(dir), R, n)
  BY IndexIsRank DEF R
<1>5. \A n \in verified : n \in R <=> ~Duplicate(dir, verified, n)
  BY DEF R, RetainedVersions
<1>6. \A n \in verified : n \in Kept(dir, verified) <=> n \in R /\ Rank(NewerOrder(dir), R, n) < Retention
  <2> SUFFICES ASSUME NEW n \in verified
               PROVE  n \in Kept(dir, verified) <=> n \in R /\ Rank(NewerOrder(dir), R, n) < Retention
    OBVIOUS
  <2>1. n \in Kept(dir, verified) <=> n \in R /\ ~(Index(dir, verified, n) >= Retention)
    BY <1>5 DEF Kept, Removals, Surplus
  <2> QED
    BY <1>3, <1>4, <2>1, StoreAssumption
<1> QED
  BY <1>1, <1>6 DEF Kept, R

\* The three promises of retention about what cpPrune does not choose.
LEMMA KeptIsNewest ==
  ASSUME NEW dir, NEW verified \in SUBSET Versions, Timed(dir, verified)
  PROVE  /\ Cardinality(Kept(dir, verified)) = Cardinality(VersionsIn(dir, Kept(dir, verified)))
         /\ \/ Cardinality(Kept(dir, verified)) = Retention
            \/ /\ Cardinality(Kept(dir, verified)) < Retention
               /\ VersionsIn(dir, Kept(dir, verified)) = VersionsIn(dir, verified)
         /\ \A n \in verified \ Kept(dir, verified) :
              \/ \E m \in Kept(dir, verified) :
                   dir[m].doc.ver = dir[n].doc.ver /\ NewerFirst(dir, m, n)
              \/ \A m \in Kept(dir, verified) : NewerFirst(dir, m, n)
<1> DEFINE R == RetainedVersions(dir, verified)
           K == Kept(dir, verified)
           O == NewerOrder(dir)
<1>1. R \in SUBSET verified /\ R \in SUBSET Versions /\ Timed(dir, R)
  BY DEF RetainedVersions, Timed
<1>2. IsFiniteSet(R) /\ IsStrictOrder(O, R)
  BY <1>1, NewerIsOrder
<1>3. K = {n \in R : Rank(O, R, n) < Retention}
  BY KeptIsPrefix
<1>4. /\ \A n, m \in R : dir[n].doc.ver = dir[m].doc.ver => n = m
      /\ \A n \in verified : \E m \in R :
           dir[m].doc.ver = dir[n].doc.ver /\ (m = n \/ NewerFirst(dir, m, n))
  BY RetainedPerVersion
<1> HIDE DEF R, K, O
<1>5. Cardinality(K) = Cardinality(VersionsIn(dir, K))
  <2> DEFINE T == VersionsIn(dir, K)
             f == [n \in K |-> dir[n].doc.ver]
  <2>1. IsFiniteSet(K)
    BY <1>2, <1>3, FS_Subset
  <2>2. f \in [K -> T] /\ (\A t \in T : \E n \in K : f[n] = t)
    BY DEF VersionsIn
  <2>3. \A n, m \in K : f[n] = f[m] => n = m
    BY <1>3, <1>4
  <2> HIDE DEF f, T
  <2>4. f \in Surjection(K, T)
    BY <2>2, Fun_IsSurj
  <2>5. f \in Injection(K, T)
    BY <2>2, <2>3, Fun_IsInj
  <2>6. Cardinality(T) = Cardinality(K)
    BY <2>1, <2>4, <2>5, FS_Surjection
  <2> QED
    BY <2>6 DEF T
<1>6. \/ Cardinality(K) = Retention
      \/ Cardinality(K) < Retention /\ VersionsIn(dir, K) = VersionsIn(dir, verified)
  <2>1. Retention \in Nat
    BY StoreAssumption
  <2>2. Cardinality(K) = Retention \/ (K = R /\ Cardinality(R) < Retention)
    BY <1>2, <1>3, <2>1, FirstRanks
  <2>3. VersionsIn(dir, R) = VersionsIn(dir, verified)
    BY <1>1, <1>4 DEF VersionsIn
  <2> QED
    BY <2>2, <2>3
<1>7. \A n \in R \ K, m \in K : NewerFirst(dir, m, n)
  <2> SUFFICES ASSUME NEW n \in R \ K, NEW m \in K PROVE NewerFirst(dir, m, n)
    OBVIOUS
  <2>1. /\ Rank(O, R, n) \in Nat /\ Rank(O, R, m) \in Nat /\ m \in R
        /\ ~(Rank(O, R, n) < Retention) /\ Rank(O, R, m) < Retention
    BY <1>2, <1>3, RankMonotone
  <2>2. Rank(O, R, m) < Rank(O, R, n)
    BY <2>1, StoreAssumption
  <2>3. <<m, n>> \in O
    BY <1>2, <2>1, <2>2, RankMonotone
  <2> QED
    BY <2>3 DEF O, NewerOrder
<1>8. ASSUME NEW n \in verified \ K
      PROVE  \/ \E m \in K : dir[m].doc.ver = dir[n].doc.ver /\ NewerFirst(dir, m, n)
             \/ \A m \in K : NewerFirst(dir, m, n)
  <2>1. PICK r \in R : dir[r].doc.ver = dir[n].doc.ver /\ (r = n \/ NewerFirst(dir, r, n))
    BY <1>4
  <2>2. CASE r \in K
    BY <2>1, <2>2
  <2>3. CASE r \notin K
    <3>1. \A m \in K : NewerFirst(dir, m, r) /\ m \in verified
      BY <1>1, <1>3, <1>7, <2>3
    <3> QED
      BY <1>1, <2>1, <3>1, NewerIsOrder
  <2> QED
    BY <2>2, <2>3
<1> QED
  BY <1>5, <1>6, <1>8 DEF K

-------------------------------------------------------------------------------
(***************************************************************************)
(* The choices along a behaviour.                                          *)
(***************************************************************************)

\* While cpPrune removes files: the scan holds only files it verified, those
\* it did not choose are still there, and those it has passed are gone.
ScanInv ==
  pc = "remove" =>
    /\ CheckpointFiles(scan) = Loadable(scan)
    /\ pending \subseteq Removals(scan, Loadable(scan))
    /\ \A n \in Kept(scan, Loadable(scan)) : cp[n] = scan[n]
    /\ \A n \in Removals(scan, Loadable(scan)) \ pending : cp[n] # scan[n]

ChoiceInv == StructInv /\ RestoreIsBest /\ ScanInv

LEMMA LoadableTimed ==
  ASSUME NEW dir \in Directory
  PROVE  /\ Loadable(dir) \in SUBSET Versions
         /\ Timed(dir, Loadable(dir))
         /\ \A n \in Loadable(dir) : dir[n] \in Files /\ dir[n].doc \in Docs /\ dir[n] # NoFile
BY SentinelAssumption
   DEF Loadable, CheckpointFiles, IsCheckpointFilename, Timed, Directory, Files, Names

\* What cpPrune scanned are the files it verified.
LEMMA ScanIsVerified ==
  ASSUME cp \in Directory, NEW verified \in SUBSET Loadable(cp),
         scan' = [n \in Names |-> IF n \in verified THEN cp[n] ELSE NoFile]
  PROVE  CheckpointFiles(scan') = verified /\ Loadable(scan') = verified
<1>1. \A n \in verified : n \in Names /\ n # TempName /\ scan'[n] # NoFile /\ scan'[n].doc # Corrupt
  BY DEF Loadable, CheckpointFiles, IsCheckpointFilename
<1>2. \A n \in Names \ verified : scan'[n] = NoFile
  OBVIOUS
<1> QED
  BY <1>1, <1>2 DEF Loadable, CheckpointFiles, IsCheckpointFilename

\* The choice depends on the files of the scan only.
LEMMA RemovalsOfScan ==
  ASSUME NEW d, NEW e, NEW verified, \A n \in verified : d[n] = e[n]
  PROVE  Removals(d, verified) = Removals(e, verified)
<1>1. \A n, m \in verified : NewerFirst(d, n, m) <=> NewerFirst(e, n, m)
  BY DEF NewerFirst
<1>2. \A n \in verified : Duplicate(d, verified, n) <=> Duplicate(e, verified, n)
  BY <1>1 DEF Duplicate
<1>3. RetainedVersions(d, verified) = RetainedVersions(e, verified)
  BY <1>2 DEF RetainedVersions
<1>4. \A n \in verified : Index(d, verified, n) = Index(e, verified, n)
  <2> SUFFICES ASSUME NEW n \in verified PROVE Index(d, verified, n) = Index(e, verified, n)
    OBVIOUS
  <2>1. {m \in RetainedVersions(d, verified) : m # n /\ NewerFirst(d, m, n)}
          = {m \in RetainedVersions(e, verified) : m # n /\ NewerFirst(e, m, n)}
    BY <1>1, <1>3 DEF RetainedVersions
  <2> QED
    BY <2>1 DEF Index
<1> QED
  BY <1>2, <1>4 DEF Removals, Surplus

LEMMA ChoiceStep == ChoiceInv /\ [Next]_vars => ChoiceInv'
<1> SUFFICES ASSUME ChoiceInv, [Next]_vars PROVE ChoiceInv'
  OBVIOUS
<1>0. StructInv'
  BY StructStep DEF ChoiceInv
<1>1. CASE PrepareRestore
  <2>1. PICK readable \in SUBSET Loadable(cp) :
          \E good \in SUBSET Candidates(cp, readable, fw), n \in Versions :
            /\ FirstCandidate(cp, good, n)
            /\ config' = Synchronized(cp[n].doc, fw)
            /\ usable' = good
    BY <1>1 DEF PrepareRestore
  <2>2. PICK good \in SUBSET Candidates(cp, readable, fw), n \in Versions :
            /\ FirstCandidate(cp, good, n)
            /\ config' = Synchronized(cp[n].doc, fw)
            /\ usable' = good
    BY <2>1
  <2>3. good \in SUBSET Loadable(cp) /\ n \in good
    BY <2>2 DEF Candidates, FirstCandidate
  <2>4. cp' = cp /\ fw' = fw /\ pc' = "commitRestored"
    BY <1>1 DEF PrepareRestore
  <2>5. \A m \in good : cp[m].mtime \in Nat /\ cp[m].doc.ver \in Nat
    BY <2>3, LoadableTimed, VersionsNat DEF ChoiceInv, StructInv, TypeOK, Timed
  <2>6. \A m \in good : \/ cp[m].doc.ver < cp[n].doc.ver
                        \/ cp[m].doc.ver = cp[n].doc.ver /\ cp[m].mtime <= cp[n].mtime
    <3> SUFFICES ASSUME NEW m \in good, m # n
                 PROVE  \/ cp[m].doc.ver < cp[n].doc.ver
                        \/ cp[m].doc.ver = cp[n].doc.ver /\ cp[m].mtime <= cp[n].mtime
      BY <2>3, <2>5
    <3>1. CandidateBefore(cp, n, m)
      BY <2>2 DEF FirstCandidate
    <3> QED
      BY <2>3, <2>5, <3>1 DEF CandidateBefore, NewerFirst
  <2>7. RestoreIsBest'
    BY <2>2, <2>3, <2>4, <2>6 DEF RestoreIsBest
  <2> QED
    BY <1>0, <2>4, <2>7 DEF ChoiceInv, ScanInv
<1>2. CASE PruneScan
  <2>1. PICK verified \in SUBSET Loadable(cp) :
          /\ pending' = Removals(cp, verified)
          /\ scan' = [n \in Names |-> IF n \in verified THEN cp[n] ELSE NoFile]
    BY <1>2 DEF PruneScan
  <2>2. cp \in Directory /\ cp' = cp /\ pc' = "remove"
    BY <1>2 DEF PruneScan, ChoiceInv, StructInv, TypeOK
  <2>3. CheckpointFiles(scan') = verified /\ Loadable(scan') = verified
    BY <2>1, <2>2, ScanIsVerified
  <2>4. \A n \in verified : scan'[n] = cp[n]
    BY <2>1 DEF Loadable, CheckpointFiles
  <2>5. Removals(scan', verified) = Removals(cp, verified)
    BY <2>4, RemovalsOfScan
  <2>6. ScanInv'
    BY <2>1, <2>2, <2>3, <2>4, <2>5 DEF ScanInv, Kept, Removals, CheckpointFiles, Loadable
  <2> QED
    BY <1>0, <2>2, <2>6 DEF ChoiceInv, RestoreIsBest
<1>3. CASE PruneRemove
  <2>1. PICK n \in pending : cp' = [cp EXCEPT ![n] = NoFile] /\ pending' = pending \ {n}
    BY <1>3 DEF PruneRemove
  <2>2. pc = "remove" /\ pc' = "remove" /\ scan' = scan /\ cp \in Directory /\ scan \in Directory
    BY <1>3 DEF PruneRemove, ChoiceInv, StructInv, TypeOK
  <2> DEFINE verified == Loadable(scan)
             chosen == Removals(scan, verified)
  <2>3. /\ verified \in SUBSET Versions /\ (\A m \in verified : scan[m] # NoFile)
        /\ chosen \in SUBSET verified
    BY <2>2, LoadableTimed DEF Removals
  <2>4. n \in chosen /\ n \in Names
    BY <2>2, <2>3 DEF ChoiceInv, ScanInv, Names
  <2>5. cp'[n] = NoFile /\ \A m \in Names \ {n} : cp'[m] = cp[m]
    BY <2>1, <2>2, <2>4 DEF Directory
  <2>6. \A m \in Kept(scan, verified) : cp'[m] = scan[m]
    BY <2>2, <2>3, <2>4, <2>5 DEF ChoiceInv, ScanInv, Kept, Names
  <2>7. \A m \in chosen \ pending' : cp'[m] # scan[m]
    BY <2>1, <2>2, <2>3, <2>5 DEF ChoiceInv, ScanInv, Names
  <2>8. ScanInv'
    BY <2>1, <2>2, <2>6, <2>7 DEF ChoiceInv, ScanInv, Kept, Removals, CheckpointFiles, Loadable
  <2> QED
    BY <1>0, <2>2, <2>8 DEF ChoiceInv, RestoreIsBest
<1>4. CASE UNCHANGED vars
  BY <1>0, <1>4
     DEF vars, ChoiceInv, RestoreIsBest, ScanInv, Kept, Removals, CheckpointFiles, Loadable
<1>5. CASE Next /\ ~PrepareRestore /\ ~PruneScan /\ ~PruneRemove
  <2>1. pc' \notin {"commitRestored", "remove"}
    <3>1. ASSUME NEW f \in Versions, Boot(f) PROVE pc' \in {"capture", "sync", "restore"}
      <4>1. canon.ver \in Nat /\ f \in Nat
        BY VersionsNat DEF ChoiceInv, StructInv, TypeOK
      <4> QED
        BY <3>1, <4>1 DEF Boot, Inspect
    <3> QED
      BY <1>5, <3>1
         DEF Next, StartupStep, CaptureWrite, CaptureReplace, CaptureReplaceFail, Synchronize,
             Commit, CommitRestored, PrepareRestoreNone, PruneDone, Edit, Stop, Exit, Damage, Copy
  <2> QED
    BY <1>0, <2>1 DEF ChoiceInv, RestoreIsBest, ScanInv
<1> QED
  BY <1>1, <1>2, <1>3, <1>4, <1>5

LEMMA ChoiceAlways == Spec => []ChoiceInv
<1>1. Init => ChoiceInv
  BY StructInit DEF Init, ChoiceInv, RestoreIsBest, ScanInv
<1> QED
  BY <1>1, ChoiceStep, PTL DEF Spec

\* Whatever files there are, damaged, copied or of equal times, and whichever
\* of them load and synchronize this time: what cpPrepareRestore returns is
\* made from the highest version of them, and from its newest file.
THEOREM RestoresBest == Spec => []RestoreIsBest
BY ChoiceAlways, PTL DEF ChoiceInv

\* For any retention, zero included, any times and any files: at every point of
\* cpPrune what it leaves are that many versions, or all, one file each, and
\* nothing it takes was preferable to something that stays.
THEOREM PruneKeeps == Spec => []PruneKeepsNewest
<1>1. ChoiceInv => PruneKeepsNewest
  <2> SUFFICES ASSUME ChoiceInv, pc = "remove" PROVE PruneKeepsNewest
    BY DEF PruneKeepsNewest
  <2> DEFINE verified == Loadable(scan)
             left == {n \in verified : cp[n] = scan[n]} \ pending
  <2>1. scan \in Directory
    BY DEF ChoiceInv, StructInv, TypeOK
  <2>2. verified \in SUBSET Versions /\ Timed(scan, verified)
    BY <2>1, LoadableTimed
  <2>3. left = Kept(scan, verified)
    BY DEF ChoiceInv, ScanInv, Kept, Removals
  <2>4. /\ Cardinality(left) = Cardinality(VersionsIn(scan, left))
        /\ \/ Cardinality(left) = Retention
           \/ Cardinality(left) < Retention /\ VersionsIn(scan, left) = VersionsIn(scan, verified)
        /\ \A n \in verified \ left :
             \/ \E m \in left : scan[m].doc.ver = scan[n].doc.ver /\ NewerFirst(scan, m, n)
             \/ \A m \in left : NewerFirst(scan, m, n)
    BY <2>2, <2>3, KeptIsNewest
  <2> QED
    BY <2>4 DEF PruneKeepsNewest, VersionsIn
<1> QED
  BY <1>1, ChoiceAlways, PTL

-------------------------------------------------------------------------------
(***************************************************************************)
(* Rolling back under a coarse clock.                                      *)
(***************************************************************************)

\* No checkpoint is later than the one an upgrade has just captured.
LatestInv ==
  timing # "back" /\ pc \in {"sync", "commit"} /\ canon.ver < fw =>
    \A n \in Versions : cp[n] # NoFile => cp[n].mtime <= cp[canon.ver].mtime

\* Some checkpoint the older firmware can use is at least as late as every one
\* it cannot use, but for the current version's.
AvailInv ==
  undo # NoDoc /\ ~touched /\ timing # "back" =>
    /\ undo.ver < canon.ver
    /\ \E c \in Versions :
         /\ c <= undo.ver /\ cp[c] # NoFile /\ c \notin pending
         /\ \A m \in Versions \ {canon.ver} :
              undo.ver < m /\ cp[m] # NoFile => cp[m].mtime <= cp[c].mtime

CoarseInv == Inv /\ LatestInv /\ AvailInv

\* cpPrune spares the newest of the checkpoints the older firmware can use:
\* only the current version's file can come before it.
LEMMA PruneSparesOne ==
  ASSUME Retention >= 2, CoarseInv, undo # NoDoc, ~touched, timing # "back",
         NEW verified \in SUBSET Loadable(cp)
  PROVE  \E c \in Versions :
           /\ c <= undo.ver /\ cp[c] # NoFile /\ c \notin Removals(cp, verified)
           /\ \A m \in Versions \ {canon.ver} :
                undo.ver < m /\ cp[m] # NoFile => cp[m].mtime <= cp[c].mtime
<1> DEFINE u == undo.ver
           A == {n \in verified : n <= u}
<1>0. /\ cp \in Directory /\ undo \in Docs /\ canon \in Docs
      /\ u \in Nat /\ u \in Versions /\ canon.ver \in Nat /\ canon.ver \in Versions
  BY VersionsNat DEF CoarseInv, Inv, StructInv, TypeOK
<1>1. /\ verified \in SUBSET Versions
      /\ Timed(cp, verified)
      /\ \A n \in verified : cp[n] # NoFile /\ cp[n].doc.ver = n /\ n \in Nat
  <2>1. Loadable(cp) \in SUBSET Versions /\ Timed(cp, Loadable(cp))
        /\ \A n \in Loadable(cp) : cp[n] # NoFile
    BY <1>0, LoadableTimed
  <2> QED
    BY <2>1, VersionsNat DEF Timed, CoarseInv, Inv, NamesInv
<1>2. \A n \in Versions : cp[n] # NoFile => cp[n].mtime \in Nat
  BY <1>0 DEF Directory, Files, Names
<1>3. PICK c \in Versions :
         /\ c <= u /\ cp[c] # NoFile
         /\ \A m \in Versions \ {canon.ver} :
              u < m /\ cp[m] # NoFile => cp[m].mtime <= cp[c].mtime
  BY DEF CoarseInv, AvailInv
<1> HIDE DEF u
<1>4. CASE c \notin verified
  BY <1>3, <1>4 DEF Removals, u
<1>5. CASE c \in verified
  <2>1. c \in A /\ A \in SUBSET verified /\ A \in SUBSET Versions /\ Timed(cp, A)
    BY <1>1, <1>3, <1>5 DEF Timed
  <2>2. PICK b \in A : \A m \in A \ {b} : NewerFirst(cp, b, m)
    <3> HIDE DEF A
    <3> QED
      BY <2>1, NewestExists
  <2>3. /\ b \in verified /\ b \in Versions /\ b \in Nat /\ b <= u /\ cp[b] # NoFile
        /\ cp[b].mtime \in Nat /\ cp[c].mtime \in Nat
    BY <1>1, <1>2, <1>3, <2>1
  <2>4. cp[c].mtime <= cp[b].mtime
    <3>1. CASE b = c
      BY <2>3, <3>1
    <3>2. CASE b # c
      <4>1. NewerFirst(cp, b, c)
        BY <2>1, <2>2, <3>2
      <4> QED
        BY <2>3, <4>1 DEF NewerFirst
    <3> QED
      BY <3>1, <3>2
  <2>5. \A m \in Versions \ {canon.ver} : u < m /\ cp[m] # NoFile => cp[m].mtime <= cp[b].mtime
    BY <1>2, <1>3, <2>3, <2>4
  <2>6. \A m \in verified \ {b, canon.ver} : ~NewerFirst(cp, m, b)
    <3> SUFFICES ASSUME NEW m \in verified \ {b, canon.ver}, NewerFirst(cp, m, b) PROVE FALSE
      OBVIOUS
    <3>0. m \in Nat /\ m \in Versions /\ cp[m] # NoFile /\ cp[m].mtime \in Nat
      BY <1>1, <1>2
    <3>1. CASE m <= u
      <4>1. NewerFirst(cp, b, m)
        BY <2>2, <3>1
      <4> QED
        BY <1>1, <2>3, <4>1, NewerIsOrder
    <3>2. CASE ~(m <= u)
      <4>1. u < m
        BY <1>0, <3>0, <3>2
      <4>2. cp[m].mtime <= cp[b].mtime
        BY <2>5, <3>0, <4>1
      <4> QED
        BY <1>0, <2>3, <3>0, <4>1, <4>2 DEF NewerFirst
    <3> QED
      BY <3>1, <3>2
  <2>7. ~Duplicate(cp, verified, b)
    BY <1>1, <2>3 DEF Duplicate
  <2>8. ~Surplus(cp, verified, b)
    <3> DEFINE newer == {m \in RetainedVersions(cp, verified) : m # b /\ NewerFirst(cp, m, b)}
    <3>1. newer \in SUBSET {canon.ver}
      BY <2>6 DEF RetainedVersions
    <3>2. IsFiniteSet({canon.ver}) /\ Cardinality({canon.ver}) = 1
      BY FS_Singleton
    <3> HIDE DEF newer
    <3>3. Cardinality(newer) \in Nat /\ Cardinality(newer) <= 1
      BY <3>1, <3>2, FS_Subset, FS_CardinalityType
    <3>4. Index(cp, verified, b) = Cardinality(newer)
      BY DEF Index, newer
    <3> QED
      BY <3>3, <3>4, StoreAssumption DEF Surplus
  <2>9. b \notin Removals(cp, verified)
    BY <2>7, <2>8 DEF Removals
  <2> QED
    BY <2>3, <2>5, <2>9 DEF u
<1> QED
  BY <1>4, <1>5

LEMMA CoarseStep ==
  ASSUME Retention >= 2
  PROVE  CoarseInv /\ [Next]_vars => CoarseInv'
<1> SUFFICES ASSUME CoarseInv, [Next]_vars PROVE CoarseInv'
  OBVIOUS
<1>0. Inv' /\ Inv
  BY UndoStep DEF CoarseInv
<1> USE <1>0, StoreAssumption, SentinelAssumption, TempNameFresh
    DEF CoarseInv, Inv, StructInv, TypeOK, TimesInv, FlowInv, CaptureInv, Docs, Files, Directory,
        EmptyDirectory, Names, LatestInv, AvailInv, PendingInv, Exit, vars
<1>1. CASE CaptureWrite
  BY <1>1 DEF CaptureWrite, Timing
<1>3. CASE CaptureReplaceFail
  BY <1>3 DEF CaptureReplaceFail
<1>4. CASE Synchronize
  BY <1>4 DEF Synchronize, Synchronized
<1>6. CASE CommitRestored
  BY <1>6 DEF CommitRestored
<1>7. CASE PrepareRestoreNone
  BY <1>7 DEF PrepareRestoreNone
<1>8. CASE PrepareRestore
  BY <1>8 DEF PrepareRestore
<1>9. CASE PruneRemove
  BY <1>9 DEF PruneRemove
<1>10. CASE PruneDone
  BY <1>10 DEF PruneDone
<1>11. CASE Edit
  BY <1>11 DEF Edit
<1>12. CASE Stop
  BY <1>12 DEF Stop
<1>14. ASSUME NEW f \in Versions, Boot(f) PROVE CoarseInv'
  BY <1>14 DEF Boot, Inspect
<1>15. ASSUME NEW n \in Versions, Damage(n) PROVE CoarseInv'
  BY <1>15 DEF Damage
<1>16. ASSUME NEW n \in Versions, NEW m \in Versions, Copy(n, m) PROVE CoarseInv'
  BY <1>16 DEF Copy
<1>17. CASE UNCHANGED vars
  BY <1>17
<1>2. CASE CaptureReplace
  <2> DEFINE v == canon.ver
             new == [doc |-> canon, mtime |-> clock]
  <2>1. /\ pc = "captureReplace" /\ pc' = "sync" /\ config = canon /\ cp[TempName] = new
        /\ v \in Versions /\ v # TempName /\ v \in Nat /\ fw \in Nat /\ v < fw
        /\ new # NoFile /\ new.mtime = clock
        /\ UNCHANGED <<canon, clock, timing, fw, config, pending, scan, edits, usable, undo, touched>>
    BY <1>2, VersionsNat DEF CaptureReplace
  <2>2. cp'[v] = new /\ \A n \in Versions \ {v} : cp'[n] = cp[n]
    BY <1>2, <2>1 DEF CaptureReplace
  <2> HIDE DEF v, new
  <2>3. LatestInv'
    BY <2>1, <2>2 DEF v
  <2>4. AvailInv'
    <3> SUFFICES ASSUME undo # NoDoc, ~touched, timing # "back" PROVE AvailInv'
      BY <2>1
    <3>1. undo.ver \in Nat /\ undo.ver < v
      BY VersionsNat DEF v
    <3>2. PICK c \in Versions :
            /\ c <= undo.ver /\ cp[c] # NoFile /\ c \notin pending
            /\ \A m \in Versions \ {v} : undo.ver < m /\ cp[m] # NoFile => cp[m].mtime <= cp[c].mtime
      BY DEF v
    <3>3. c # v
      BY <2>1, <3>1, <3>2, VersionsNat
    <3>4. cp'[c] = cp[c]
      BY <2>2, <3>3
    <3> QED
      BY <2>1, <2>2, <3>1, <3>2, <3>4 DEF v
  <2> QED
    BY <2>3, <2>4
<1>5. CASE Commit
  <2>1. /\ pc = "commit" /\ pc' = "prune" /\ canon' = config /\ config.ver = fw
        /\ canon.ver \in Nat /\ fw \in Nat /\ canon.ver <= fw /\ canon.ver \in Versions
        /\ canon \in Docs /\ canon # NoDoc /\ pending = {}
        /\ UNCHANGED <<cp, clock, timing, fw, config, pending, scan, edits, usable, touched>>
    BY <1>5, VersionsNat DEF Commit
  <2>2. CASE canon.ver < fw
    <3>1. undo' = canon
      BY <1>5, <2>1, <2>2 DEF Commit
    <3> QED
      BY <2>1, <2>2, <3>1
  <2>3. CASE canon.ver = fw
    <3>1. undo' = undo /\ canon'.ver = canon.ver
      BY <1>5, <2>1, <2>3 DEF Commit
    <3> QED
      BY <2>1, <2>3, <3>1
  <2> QED
    BY <2>1, <2>2, <2>3
<1>13. CASE PruneScan
  <2>1. PICK verified \in SUBSET Loadable(cp) : pending' = Removals(cp, verified)
    BY <1>13 DEF PruneScan
  <2>2. pc' = "remove" /\ UNCHANGED <<canon, cp, timing, undo, touched>>
    BY <1>13 DEF PruneScan
  <2>3. LatestInv'
    BY <2>2
  <2>4. AvailInv'
    <3> SUFFICES ASSUME undo # NoDoc, ~touched, timing # "back" PROVE AvailInv'
      BY <2>2
    <3>1. \E c \in Versions :
            /\ c <= undo.ver /\ cp[c] # NoFile /\ c \notin Removals(cp, verified)
            /\ \A m \in Versions \ {canon.ver} :
                 undo.ver < m /\ cp[m] # NoFile => cp[m].mtime <= cp[c].mtime
      BY PruneSparesOne
    <3> QED
      BY <2>1, <2>2, <3>1
  <2> QED
    BY <2>3, <2>4
<1> QED
  BY <1>1, <1>2, <1>3, <1>4, <1>5, <1>6, <1>7, <1>8, <1>9, <1>10, <1>11, <1>12, <1>13, <1>14, <1>15, <1>16, <1>17 DEF Next, StartupStep

\* With two retained versions, and as long as the clock is not set back, the
\* firmware the last upgrade came from always finds a checkpoint it can use,
\* however many captures share one time and whatever was interrupted.
THEOREM RollbackStaysAvailable ==
  ASSUME Retention >= 2
  PROVE  Spec => []RollbackAvailable
<1>1. CoarseInv => RollbackAvailable
  <2> SUFFICES ASSUME CoarseInv, undo # NoDoc, ~touched, timing # "back"
               PROVE  Candidates(cp, Loadable(cp), undo.ver) # {}
    BY DEF RollbackAvailable
  <2>1. PICK c \in Versions : c <= undo.ver /\ cp[c] # NoFile
    BY DEF CoarseInv, AvailInv
  <2>2. cp[c].doc \in Docs /\ cp[c].doc.ver = c
    BY <2>1 DEF CoarseInv, Inv, NamesInv
  <2>3. c \in Loadable(cp)
    BY <2>1, <2>2, SentinelAssumption, VersionsNat
       DEF Loadable, CheckpointFiles, IsCheckpointFilename, Names
  <2> QED
    BY <2>1, <2>2, <2>3 DEF Candidates
<1>2. Init => CoarseInv
  BY UndoInit DEF Init, CoarseInv, LatestInv, AvailInv
<1>3. CoarseInv /\ [Next]_vars => CoarseInv'
  BY CoarseStep
<1> QED
  BY <1>1, <1>2, <1>3, PTL DEF Spec
===============================================================================
