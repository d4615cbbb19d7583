------------------------------ MODULE ReplaceFile ------------------------------
(***************************************************************************)
(* writeTemporary and replaceFile of checkpoint_store.cpp, both branches:  *)
(* how cpCapture and cpCommit replace one destination file.  One writer    *)
(* process (concurrent writers are unsupported), which may die at any      *)
(* step and start again, and any number of reader processes.               *)
(*                                                                         *)
(* POSIX: stat the permission source, create a private temporary, write,   *)
(* fchmod, close, rename.  Windows: copy the permission source under the   *)
(* temporary's name, which gives it the attributes, truncate the copy (or  *)
(* create the temporary when there is no source), write, close, move.  A   *)
(* mode stands for the permission bits there and for the security          *)
(* attributes here; Private for 0600 and for a new file's default.         *)
(*                                                                         *)
(* Files are inodes: dest and tmp are the directory entries of the         *)
(* destination and of its temporary siblings, a reader keeps the inode it  *)
(* opened after the name is replaced.  A temporary's name is               *)
(* <<ticks, sequence>>: the sequence number starts again at 0 in a new     *)
(* process and the clock reading is arbitrary, so a name may already be    *)
(* taken by what a dead process left.                                      *)
(***************************************************************************)
EXTENDS Integers, Sequences

CONSTANTS Platforms,    \* builds: a subset of {"posix", "windows"}
          Docs,         \* documents to write, as byte sequences
          Bytes,        \* the bytes they consist of
          Modes,        \* permission modes
          Private,      \* mode 0600
          CanonMode,    \* mode of the canonical file, source of a new checkpoint's
          Ticks,        \* readings of the steady clock
          MaxAttempts,  \* attempts at a free temporary name (100 in the code)
          MaxSeq,       \* bound: temporary names one process may generate
          Inodes, NoInode,
          Readers,
          Absent, NoDoc \* as in AtomicFile

ASSUME ReplaceAssumption ==
  /\ Platforms \subseteq {"posix", "windows"}
  /\ Docs \subseteq Seq(Bytes)
  /\ Private \in Modes
  /\ CanonMode \in Modes
  /\ MaxAttempts \in Nat \ {0}
  /\ MaxSeq \in Nat
  /\ NoInode \notin Inodes
  /\ NoDoc \notin Docs
  /\ Absent \notin [bytes : Docs, mode : Modes]

VARIABLES
  platform,  \* the build; never changes
  dest,      \* inode of the destination, or NoInode
  tmp,       \* inode of each temporary name, or NoInode
  data,      \* contents of each inode
  mode,      \* permission mode of each inode
  pc,        \* where the writer is
  bytes,     \* the argument `bytes'
  source,    \* the argument `permission_source': "dest" or "canonical"
  finalMode, \* final_mode
  attempt,   \* attempts made
  seq,       \* g_temp_sequence
  cand,      \* candidate: the temporary's name, or <<>>
  fd,        \* descriptor: the inode open for writing
  offset,    \* bytes written
  result,    \* what the last operation returned
  litter,    \* history: temporaries left by a crash or by a failed removal
  rfd,       \* each reader's open inode
  buf,       \* what it has read so far
  got        \* the last file it read to the end

locals == <<bytes, source, finalMode, attempt, cand, fd, offset>>
writerVars == <<locals, pc, seq, result>>
fileVars == <<dest, tmp, data, mode, litter>>
readerVars == <<rfd, buf, got>>
vars == <<platform, writerVars, fileVars, readerVars>>

Temps == Ticks \X (0 .. MaxSeq - 1)

TypeOK ==
  /\ platform \in Platforms
  /\ dest \in Inodes \cup {NoInode}
  /\ tmp \in [Temps -> Inodes \cup {NoInode}]
  /\ data \in [Inodes -> Seq(Bytes)]
  /\ mode \in [Inodes -> Modes]
  /\ pc \in {"idle", "stat", "open", "copy", "truncate", "write", "close", "rename", "return",
            "cleanup", "down"}
  /\ bytes \in Docs \cup {NoDoc}
  /\ pc \notin {"idle", "down"} => bytes \in Docs
  /\ source \in {"dest", "canonical"}
  /\ finalMode \in Modes
  /\ attempt \in 0 .. MaxAttempts - 1
  /\ seq \in Nat
  /\ cand \in Temps \cup {<<>>}
  /\ fd \in Inodes \cup {NoInode}
  /\ offset \in Nat
  /\ result \in {"none", "ok", "error"}
  /\ litter \in SUBSET Temps
  /\ rfd \in [Readers -> Inodes \cup {NoInode}]
  /\ buf \in [Readers -> Seq(Bytes)]
  /\ got \in [Readers -> Seq(Bytes) \cup {NoDoc}]

FreeInodes ==
  {i \in Inodes : /\ i # dest
                  /\ \A c \in Temps : tmp[c] # i
                  /\ \A r \in Readers : rfd[r] # i}

Init ==
  /\ platform \in Platforms
  /\ dest \in Inodes \cup {NoInode}
  /\ tmp = [c \in Temps |-> NoInode]
  /\ \E d \in Docs : data = [i \in Inodes |-> IF i = dest THEN d ELSE <<>>]
  /\ \E m \in Modes : mode = [i \in Inodes |-> IF i = dest THEN m ELSE Private]
  /\ pc = "idle"
  /\ bytes = NoDoc
  /\ source = "dest"
  /\ finalMode = Private
  /\ attempt = 0
  /\ seq = 0
  /\ cand = <<>>
  /\ fd = NoInode
  /\ offset = 0
  /\ result = "none"
  /\ litter = {}
  /\ rfd = [r \in Readers |-> NoInode]
  /\ buf = [r \in Readers |-> <<>>]
  /\ got = [r \in Readers |-> NoDoc]

-------------------------------------------------------------------------------
(***************************************************************************)
(* The writer.                                                             *)
(***************************************************************************)

\* The operation returns: its locals are gone.
DropLocals ==
  /\ bytes' = NoDoc
  /\ source' = "dest"
  /\ finalMode' = Private
  /\ attempt' = 0
  /\ cand' = <<>>
  /\ fd' = NoInode
  /\ offset' = 0

Return(res) ==
  /\ pc' = "idle"
  /\ result' = res
  /\ DropLocals

\* Mutant: the mode always comes from the canonical file.
PermissionSource_Canonical(op) == "canonical"

\* cpCommit hands writeTemporary the destination as permission source;
\* cpCapture the destination if it exists, else the canonical file.
PermissionSource(op) ==
  IF op = "commit" \/ dest # NoInode THEN "dest" ELSE "canonical"

Begin(d, op) ==
  /\ pc = "idle"
  /\ seq + MaxAttempts <= MaxSeq      \* bound, see MaxSeq
  /\ pc' = IF platform = "posix" THEN "stat" ELSE "open"
  /\ bytes' = d
  /\ source' = PermissionSource(op)
  /\ result' = "none"
  /\ UNCHANGED <<platform, finalMode, attempt, cand, fd, offset, seq, fileVars, readerVars>>

\* A missing permission source is no error: the new file is private.
StatMode ==
  CASE source = "canonical" -> CanonMode
    [] source = "dest" /\ dest # NoInode -> mode[dest]
    [] source = "dest" /\ dest = NoInode -> Private

SourceExists == source = "canonical" \/ dest # NoInode

Stat ==
  /\ pc = "stat"
  /\ finalMode' = StatMode
  /\ pc' = "open"
  /\ UNCHANGED <<platform, bytes, source, attempt, cand, fd, offset, seq, result, fileVars,
                 readerVars>>

\* Any other error of stat.
StatFail ==
  /\ pc = "stat"
  /\ Return("error")
  /\ UNCHANGED <<platform, seq, fileVars, readerVars>>

\* Mutant: open creates the file with the final mode at once.
OpenNew_FinalMode(t) ==
  LET c == <<t, seq>> IN
  /\ pc = "open"
  /\ platform = "windows" => ~SourceExists
  /\ tmp[c] = NoInode
  /\ \E i \in FreeInodes :
       /\ tmp' = [tmp EXCEPT ![c] = i]
       /\ data' = [data EXCEPT ![i] = <<>>]
       /\ mode' = [mode EXCEPT ![i] = finalMode]
       /\ fd' = i
  /\ cand' = c
  /\ seq' = seq + 1
  /\ pc' = "write"
  /\ UNCHANGED <<platform, bytes, source, finalMode, attempt, offset, result, dest, litter,
                 readerVars>>

\* open(O_CREAT | O_EXCL) of a name nobody has; on Windows CREATE_NEW, when
\* there is no source to copy.
OpenNew(t) ==
  LET c == <<t, seq>> IN
  /\ pc = "open"
  /\ platform = "windows" => ~SourceExists
  /\ tmp[c] = NoInode
  /\ \E i \in FreeInodes :
       /\ tmp' = [tmp EXCEPT ![c] = i]
       /\ data' = [data EXCEPT ![i] = <<>>]
       /\ mode' = [mode EXCEPT ![i] = Private]
       /\ fd' = i
  /\ cand' = c
  /\ seq' = seq + 1
  /\ pc' = "write"
  /\ UNCHANGED <<platform, bytes, source, finalMode, attempt, offset, result, dest, litter,
                 readerVars>>

\* Mutant: one attempt too many.
OpenExists_Unbounded(t) ==
  /\ pc = "open"
  /\ tmp[<<t, seq>>] # NoInode
  /\ attempt < MaxAttempts
  /\ seq' = seq + 1
  /\ attempt' = attempt + 1
  /\ UNCHANGED <<platform, bytes, source, finalMode, cand, fd, offset, pc, result, fileVars,
                 readerVars>>

\* EEXIST, ERROR_FILE_EXISTS: the loop goes on with the next name.
OpenExists(t) ==
  /\ pc = "open"
  /\ tmp[<<t, seq>>] # NoInode
  /\ attempt + 1 < MaxAttempts
  /\ seq' = seq + 1
  /\ attempt' = attempt + 1
  /\ UNCHANGED <<platform, bytes, source, finalMode, cand, fd, offset, pc, result, fileVars,
                 readerVars>>

\* The name is taken at the last attempt, or any other error of open,
\* fs::exists, CopyFileW or CREATE_NEW.
OpenFail ==
  /\ pc = "open"
  /\ seq' = seq + 1
  /\ Return("error")
  /\ UNCHANGED <<platform, fileVars, readerVars>>

\* Windows: CopyFileW begins; the new file has the source's attributes.
CopySource(t) ==
  LET c == <<t, seq>> IN
  /\ pc = "open" /\ platform = "windows"
  /\ SourceExists
  /\ tmp[c] = NoInode
  /\ \E i \in FreeInodes :
       /\ tmp' = [tmp EXCEPT ![c] = i]
       /\ data' = [data EXCEPT ![i] = <<>>]
       /\ mode' = [mode EXCEPT ![i] = StatMode]
  /\ finalMode' = StatMode
  /\ cand' = c
  /\ seq' = seq + 1
  /\ pc' = "copy"
  /\ UNCHANGED <<platform, bytes, source, attempt, fd, offset, result, dest, litter, readerVars>>

\* It ends: the temporary holds the old document or the canonical one, whose
\* bytes are the ones to capture.
CopyDone ==
  /\ pc = "copy"
  /\ data' = [data EXCEPT ![tmp[cand]] = IF source = "dest" THEN data[dest] ELSE bytes]
  /\ pc' = "truncate"
  /\ UNCHANGED <<platform, locals, seq, result, dest, tmp, mode, litter, readerVars>>

\* It fails, and leaves no file.
CopyFail ==
  /\ pc = "copy"
  /\ tmp' = [tmp EXCEPT ![cand] = NoInode]
  /\ Return("error")
  /\ UNCHANGED <<platform, seq, dest, data, mode, litter, readerVars>>

\* Mutant: the copy is opened without being truncated.
Truncate_Keep ==
  /\ pc = "truncate"
  /\ fd' = tmp[cand]
  /\ pc' = "write"
  /\ UNCHANGED <<platform, bytes, source, finalMode, attempt, cand, offset, seq, result,
                 dest, tmp, data, mode, litter, readerVars>>

\* CreateFileW(TRUNCATE_EXISTING).
Truncate ==
  /\ pc = "truncate"
  /\ data' = [data EXCEPT ![tmp[cand]] = <<>>]
  /\ fd' = tmp[cand]
  /\ pc' = "write"
  /\ UNCHANGED <<platform, bytes, source, finalMode, attempt, cand, offset, seq, result,
                 dest, tmp, mode, litter, readerVars>>

\* write accepts n >= 1 of the remaining bytes.  (EINTR changes nothing and
\* the loop calls write again: a stuttering step.)
Write ==
  /\ pc = "write"
  /\ \E n \in 1 .. Len(bytes) - offset :
       /\ data' = [data EXCEPT ![fd] = @ \o SubSeq(bytes, offset + 1, offset + n)]
       /\ offset' = offset + n
  /\ UNCHANGED <<platform, bytes, source, finalMode, attempt, cand, fd, pc, seq, result,
                 dest, tmp, mode, litter, readerVars>>

\* All bytes are written: fchmod to the mode found by stat.  On Windows the
\* temporary has had the right mode from the start.
Fchmod ==
  /\ pc = "write"
  /\ offset = Len(bytes)
  /\ mode' = IF platform = "posix" THEN [mode EXCEPT ![fd] = finalMode] ELSE mode
  /\ pc' = "close"
  /\ UNCHANGED <<platform, locals, seq, result, dest, tmp, data, litter, readerVars>>

Close ==
  /\ pc = "close"
  /\ pc' = "rename"
  /\ fd' = NoInode
  /\ UNCHANGED <<platform, bytes, source, finalMode, attempt, cand, offset, seq, result,
                 fileVars, readerVars>>

\* Mutant: a failed rename returns without removing the temporary.
StepFail_NoRemove ==
  /\ pc \in {"truncate", "write", "close", "rename"}
  /\ IF pc = "rename"
       THEN /\ Return("error")
            /\ UNCHANGED seq
       ELSE /\ pc' = "cleanup"
            /\ fd' = NoInode
            /\ UNCHANGED <<bytes, source, finalMode, attempt, cand, offset, seq, result>>
  /\ UNCHANGED <<platform, fileVars, readerVars>>

\* Mutant: an error of write or close is not looked at.
StepFail_Ignored ==
  /\ pc \in {"truncate", "write", "close", "rename"}
  /\ pc' = IF pc = "rename" THEN "cleanup" ELSE "rename"
  /\ fd' = NoInode
  /\ UNCHANGED <<platform, bytes, source, finalMode, attempt, cand, offset, seq, result,
                 fileVars, readerVars>>

\* An error of the truncating open, write (or a write of nothing), fchmod,
\* close or rename: the descriptor is closed and the temporary is to be removed.
StepFail ==
  /\ pc \in {"truncate", "write", "close", "rename"}
  /\ pc' = "cleanup"
  /\ fd' = NoInode
  /\ UNCHANGED <<platform, bytes, source, finalMode, attempt, cand, offset, seq, result,
                 fileVars, readerVars>>

\* replaceFile: rename (MoveFileExW) moves the temporary's inode over the destination.
Rename ==
  /\ pc = "rename"
  /\ dest' = tmp[cand]
  /\ tmp' = [tmp EXCEPT ![cand] = NoInode]
  /\ cand' = <<>>
  /\ pc' = "return"
  /\ UNCHANGED <<platform, bytes, source, finalMode, attempt, fd, offset, seq, result,
                 data, mode, litter, readerVars>>

ReturnOk ==
  /\ pc = "return"
  /\ Return("ok")
  /\ UNCHANGED <<platform, seq, fileVars, readerVars>>

\* Mutant: the whole write is tried again.
RemoveTemporary_Retry ==
  /\ pc = "cleanup"
  /\ tmp' = [tmp EXCEPT ![cand] = NoInode]
  /\ pc' = "open"
  /\ seq' = cand[2] /\ cand' = <<>> /\ offset' = 0
  /\ UNCHANGED <<platform, bytes, source, finalMode, attempt, fd, result, dest, data, mode, litter,
                 readerVars>>

\* removeTemporary: an error of remove is ignored and leaves the file.
RemoveTemporary ==
  /\ pc = "cleanup"
  /\ \/ /\ tmp' = [tmp EXCEPT ![cand] = NoInode]
        /\ UNCHANGED litter
     \/ /\ litter' = litter \cup {cand}
        /\ UNCHANGED tmp
  /\ Return("error")
  /\ UNCHANGED <<platform, seq, dest, data, mode, readerVars>>

\* The process dies; the temporary it was writing, if any, stays.
Crash ==
  /\ pc # "down"
  /\ pc' = "down"
  /\ result' = "none"
  /\ litter' = litter \cup ({cand} \cap Temps)
  /\ DropLocals
  /\ UNCHANGED <<platform, seq, dest, tmp, data, mode, readerVars>>

\* A new process: g_temp_sequence is 0 again.
Restart ==
  /\ pc = "down"
  /\ pc' = "idle"
  /\ seq' = 0
  /\ UNCHANGED <<platform, locals, result, fileVars, readerVars>>

-------------------------------------------------------------------------------
(***************************************************************************)
(* Readers: readFileBytes, or any other process that loads the file.       *)
(***************************************************************************)

ReaderOpen(r) ==
  /\ rfd[r] = NoInode
  /\ dest # NoInode
  /\ rfd' = [rfd EXCEPT ![r] = dest]
  /\ UNCHANGED <<platform, buf, got, writerVars, fileVars>>

ReaderRead(r) ==
  /\ rfd[r] # NoInode
  /\ \E n \in 1 .. Len(data[rfd[r]]) - Len(buf[r]) :
       buf' = [buf EXCEPT ![r] =
                 @ \o SubSeq(data[rfd[r]], Len(@) + 1, Len(@) + n)]
  /\ UNCHANGED <<platform, rfd, got, writerVars, fileVars>>

ReaderEnd(r) ==
  /\ rfd[r] # NoInode
  /\ Len(buf[r]) = Len(data[rfd[r]])
  /\ got' = [got EXCEPT ![r] = buf[r]]
  /\ buf' = [buf EXCEPT ![r] = <<>>]
  /\ rfd' = [rfd EXCEPT ![r] = NoInode]
  /\ UNCHANGED <<platform, writerVars, fileVars>>

-------------------------------------------------------------------------------
WriterStep ==
  \/ Stat \/ StatFail
  \/ \E t \in Ticks : OpenNew(t) \/ OpenExists(t) \/ CopySource(t)
  \/ OpenFail \/ CopyDone \/ CopyFail \/ Truncate
  \/ Write \/ Fchmod \/ Close \/ StepFail \/ Rename \/ ReturnOk \/ RemoveTemporary

Next ==
  \/ \E d \in Docs, op \in {"commit", "capture"} : Begin(d, op)
  \/ WriterStep
  \/ Crash \/ Restart
  \/ \E r \in Readers : ReaderOpen(r) \/ ReaderRead(r) \/ ReaderEnd(r)

Spec == Init /\ [][Next]_vars

\* A call that has begun runs on unless the process dies.
FairSpec == Spec /\ WF_vars(WriterStep)

-------------------------------------------------------------------------------
(***************************************************************************)
(* Properties.                                                             *)
(***************************************************************************)

\* The destination, whenever it exists, holds one whole document, whatever
\* write accepted, wherever the process died and whatever earlier processes
\* left behind (docs/checkpoint-recovery.md:135).
DestWhole == dest # NoInode => data[dest] \in Docs

\* A reader that got to the end of the file has one whole document, even when
\* replacements happened between its reads.
ReaderWhole == \A r \in Readers : got[r] \in Docs \cup {NoDoc}

\* Nobody ever gets a partial or mixed document, from the destination or from a
\* read that began before a replacement and ended after it.
WholeDocuments == DestWhole /\ ReaderWhole

\* On POSIX a temporary with any mode but 0600 is completely written: a document is
\* never exposed to others while it is partial (fchmod comes after the writes).
PartialIsPrivate ==
  platform = "posix" => \A c \in Temps :
    tmp[c] # NoInode /\ mode[tmp[c]] # Private => data[tmp[c]] \in Docs

\* Every temporary is the one being written, or was left by a crash or by a
\* removal that failed: no error path forgets to remove its temporary.
NoLeak == \A c \in Temps : tmp[c] # NoInode => c = cand \/ c \in litter

\* A call returns, or the process dies: no retry loop runs for ever.
Terminates == pc \notin {"idle", "down"} ~> pc \in {"idle", "down"}

\* The refinement mapping to AtomicFile.
absFile ==
  IF dest = NoInode THEN Absent ELSE [bytes |-> data[dest], mode |-> mode[dest]]

absPhase ==
  CASE pc = "return" -> "replaced"
    [] pc \in {"idle", "down"} -> pc
    [] OTHER -> "busy"

absSnap == [r \in Readers |-> IF rfd[r] = NoInode THEN NoDoc ELSE data[rfd[r]]]

Atomic == INSTANCE AtomicFile
            WITH file <- absFile, phase <- absPhase, job <- bytes, snap <- absSnap

\* writeTemporary followed by replaceFile implements AtomicFile: the
\* destination changes at rename only, to the whole document, with the mode it
\* had; a call that returns an error has not changed it.
ImplementsAtomicFile == Atomic!Spec
===============================================================================
