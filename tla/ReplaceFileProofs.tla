--------------------------- MODULE ReplaceFileProofs ---------------------------
(***************************************************************************)
(* ReplaceFile, for every set of documents, modes, clock readings, inodes  *)
(* and readers and every number of attempts: its invariants, and that it   *)
(* implements AtomicFile.                                                  *)
(***************************************************************************)
EXTENDS ReplaceFile, SequenceTheorems, TLAPS

\* The writer's locals: what each program point may assume of them.
LocalsInv ==
  /\ pc \in {"stat", "open"} => seq + (MaxAttempts - attempt) <= MaxSeq
  /\ pc \in {"idle", "stat", "down"} => attempt = 0
  /\ pc \in {"idle", "stat", "open", "copy", "truncate", "down"} => offset = 0
  /\ pc \in {"copy", "truncate", "write", "close", "rename", "cleanup"} <=> cand # <<>>
  /\ pc \in {"stat", "open"} /\ dest # NoInode => source = "dest"
  /\ pc \in {"copy", "truncate"} /\ source = "dest" => dest # NoInode
  /\ platform = "windows" => pc # "stat"
  /\ platform = "posix" => pc \notin {"copy", "truncate"}
  /\ platform = "windows" /\ pc \in {"idle", "open", "down"} => finalMode = Private

\* No inode has two names, and no reader has a temporary open.
NamesInv ==
  /\ \A c \in Temps : tmp[c] # NoInode => tmp[c] # dest
  /\ \A c, e \in Temps : tmp[c] # NoInode /\ tmp[c] = tmp[e] => c = e
  /\ \A c \in Temps, r \in Readers : rfd[r] # NoInode => tmp[c] # rfd[r]

\* The temporary holds what has been written of the document so far.
TempInv ==
  /\ cand # <<>> => tmp[cand] # NoInode
  /\ pc \in {"write", "close"} => fd = tmp[cand]
  /\ pc = "write" => /\ offset <= Len(bytes)
                     /\ data[fd] = SubSeq(bytes, 1, offset)
                     /\ mode[fd] = IF platform = "posix" THEN Private ELSE finalMode
  /\ pc \in {"copy", "truncate"} => mode[tmp[cand]] = finalMode
  /\ pc \in {"close", "rename"} => /\ data[tmp[cand]] = bytes
                                   /\ mode[tmp[cand]] = finalMode

\* The mode found by stat, or copied with the source, is still the destination's when rename comes.
ModeInv ==
  /\ pc \in {"copy", "truncate", "write", "close", "rename"} /\ dest # NoInode
       => finalMode = mode[dest]
  /\ platform = "posix" /\ pc = "open" /\ dest # NoInode => finalMode = mode[dest]

\* A reader has read a prefix of the document it opened.
ReaderInv ==
  \A r \in Readers :
    /\ rfd[r] = NoInode => buf[r] = <<>>
    /\ rfd[r] # NoInode => /\ data[rfd[r]] \in Docs
                           /\ Len(buf[r]) <= Len(data[rfd[r]])
                           /\ buf[r] = SubSeq(data[rfd[r]], 1, Len(buf[r]))

IndInv ==
  /\ TypeOK
  /\ LocalsInv
  /\ NamesInv
  /\ TempInv
  /\ ModeInv
  /\ ReaderInv
  /\ DestWhole
  /\ ReaderWhole
  /\ PartialIsPrivate
  /\ NoLeak

-------------------------------------------------------------------------------
\* The bytes written so far and the bytes written now.
LEMMA PrefixExtend ==
  ASSUME NEW S, NEW s \in Seq(S), NEW k \in Nat, NEW n \in Nat, k + n <= Len(s)
  PROVE  /\ SubSeq(s, 1, k) \o SubSeq(s, k + 1, k + n) = SubSeq(s, 1, k + n)
         /\ SubSeq(s, 1, k) \in Seq(S)
         /\ Len(SubSeq(s, 1, k)) = k
         /\ SubSeq(s, k + 1, k + n) \in Seq(S)
  OBVIOUS

LEMMA PrefixWhole ==
  ASSUME NEW S, NEW s \in Seq(S)
  PROVE  /\ SubSeq(s, 1, Len(s)) = s
         /\ SubSeq(s, 1, 0) = <<>>
  OBVIOUS

\* `no candidate' is not the name of a temporary.
LEMMA NoTempName == <<>> \notin Temps
  BY DEF Temps

LEMMA InitInd == Init => IndInv
  BY ReplaceAssumption, PrefixWhole DEF Init, IndInv, TypeOK, LocalsInv, NamesInv, TempInv,
     ModeInv, ReaderInv, DestWhole, ReaderWhole, PartialIsPrivate, NoLeak, Temps

LEMMA StepInd == IndInv /\ [Next]_vars => IndInv'
<1> SUFFICES ASSUME IndInv, [Next]_vars PROVE IndInv'
  OBVIOUS
<1> USE ReplaceAssumption DEF IndInv, TypeOK, LocalsInv, NamesInv, TempInv, ModeInv, ReaderInv,
     DestWhole, ReaderWhole, PartialIsPrivate, NoLeak,
     vars, writerVars, locals, fileVars, readerVars, DropLocals, Return
<1>1. CASE Stat
  BY <1>1 DEF Stat, StatMode
<1>2. CASE StatFail
  BY <1>2 DEF StatFail
<1>3. CASE OpenFail
  BY <1>3 DEF OpenFail
<1>4. CASE Write
  <2>1. PICK n \in 1 .. Len(bytes) - offset :
          /\ data' = [data EXCEPT ![fd] = @ \o SubSeq(bytes, offset + 1, offset + n)]
          /\ offset' = offset + n
    BY <1>4 DEF Write
  <2>2. bytes \in Seq(Bytes) /\ bytes' = bytes /\ pc = "write" /\ pc' = "write"
    BY <1>4 DEF Write
  <2>3. /\ data[fd] \o SubSeq(bytes, offset + 1, offset + n) = SubSeq(bytes, 1, offset + n)
        /\ SubSeq(bytes, 1, offset + n) \in Seq(Bytes)
    <3>1. offset + n <= Len(bytes)
      BY <2>2
    <3>2. data[fd] = SubSeq(bytes, 1, offset)
      BY <2>2
    <3>3. offset \in Nat /\ n \in Nat /\ offset + n \in Nat /\ (offset + n) + 0 <= Len(bytes)
      BY <2>2, <3>1
    <3> QED
      BY <2>2, <3>1, <3>2, <3>3, PrefixExtend
  <2>4. /\ fd \in Inodes
        /\ data' = [data EXCEPT ![fd] = SubSeq(bytes, 1, offset + n)]
    BY <2>1, <2>2, <2>3
  <2>5. /\ dest # fd
        /\ \A c \in Temps : c # cand => tmp[c] # fd
        /\ \A r \in Readers : rfd[r] # fd
    BY <2>2, <2>4
  <2> QED
    <3>1. UNCHANGED <<platform, bytes, source, finalMode, attempt, cand, fd, pc, seq, result,
                      dest, tmp, mode, litter, rfd, buf, got>>
      BY <1>4 DEF Write
    <3>2. TypeOK'
      BY <2>1, <2>2, <2>3, <2>4, <3>1
    <3>3. LocalsInv' /\ NamesInv' /\ ModeInv' /\ ReaderWhole' /\ NoLeak'
      BY <2>1, <2>2, <3>1
    <3>4. TempInv'
      <4>1. /\ data'[fd'] = SubSeq(bytes', 1, offset')
            /\ offset' <= Len(bytes')
        <5>1. data'[fd] = SubSeq(bytes, 1, offset + n)
          BY <2>4
        <5>2. Len(bytes) \in Nat /\ offset \in Nat
          BY <2>2
        <5>3. offset + n <= Len(bytes)
          BY <5>2
        <5> QED
          BY <2>1, <3>1, <5>1, <5>3
      <4>2. pc' = "write" /\ cand' # <<>> /\ tmp'[cand'] # NoInode /\ fd' = tmp'[cand']
        BY <2>2, <3>1
      <4>3. mode'[fd'] = IF platform' = "posix" THEN Private ELSE finalMode'
        BY <2>2, <3>1
      <4> QED
        BY <4>1, <4>2, <4>3
    <3>5. ReaderInv' /\ DestWhole'
      BY <2>4, <2>5, <3>1
    <3>6. PartialIsPrivate'
      BY <2>2, <2>4, <2>5, <3>1
    <3> QED
      BY <3>2, <3>3, <3>4, <3>5, <3>6
<1>5. CASE Fchmod
  <2>1. bytes \in Seq(Bytes) /\ data[fd] = bytes /\ fd \in Inodes
    BY <1>5, PrefixWhole DEF Fchmod
  <2>2. dest # fd
    BY <1>5, <2>1 DEF Fchmod
  <2> QED
    BY <1>5, <2>1, <2>2 DEF Fchmod
<1>6. CASE Close
  BY <1>6 DEF Close
<1>7. CASE StepFail
  BY <1>7 DEF StepFail
<1>8. CASE Rename
  BY <1>8 DEF Rename
<1>9. CASE ReturnOk
  BY <1>9 DEF ReturnOk
<1>10. CASE RemoveTemporary
  <2>1. /\ cand \in Temps /\ tmp[cand] # NoInode
        /\ pc' = "idle" /\ cand' = <<>> /\ attempt' = 0 /\ offset' = 0 /\ fd' = NoInode
        /\ bytes' = NoDoc /\ source' = "dest" /\ finalMode' = Private /\ result' = "error"
        /\ UNCHANGED <<platform, seq, dest, data, mode, rfd, buf, got>>
    BY <1>10 DEF RemoveTemporary
  <2>2. CASE tmp' = [tmp EXCEPT ![cand] = NoInode] /\ litter' = litter
    BY <2>1, <2>2
  <2>3. CASE litter' = litter \cup {cand} /\ tmp' = tmp
    BY <2>1, <2>3
  <2> QED
    BY <1>10, <2>2, <2>3 DEF RemoveTemporary
<1>11. CASE Crash
  BY <1>11 DEF Crash
<1>12. CASE Restart
  BY <1>12 DEF Restart
<1>13. ASSUME NEW d \in Docs, NEW op \in {"commit", "capture"}, Begin(d, op) PROVE IndInv'
  BY <1>13 DEF Begin, PermissionSource
<1>14. ASSUME NEW t \in Ticks, OpenNew(t) PROVE IndInv'
  <2> DEFINE c == <<t, seq>>
  <2>1. c \in Temps /\ c # <<>> /\ tmp[c] = NoInode
    BY <1>14 DEF OpenNew, Temps
  <2>2. PICK i \in FreeInodes :
          /\ tmp' = [tmp EXCEPT ![c] = i]
          /\ data' = [data EXCEPT ![i] = <<>>]
          /\ mode' = [mode EXCEPT ![i] = Private]
          /\ fd' = i
    BY <1>14 DEF OpenNew
  <2>3. /\ i \in Inodes /\ i # dest
        /\ \A e \in Temps : tmp[e] # i
        /\ \A r \in Readers : rfd[r] # i
    BY DEF FreeInodes
  <2>4. /\ pc = "open" /\ pc' = "write" /\ cand' = c /\ seq' = seq + 1 /\ offset' = 0
        /\ UNCHANGED <<platform, bytes, source, finalMode, attempt, result, dest, litter,
                       rfd, buf, got>>
        /\ bytes \in Seq(Bytes)
        /\ platform = "windows" => dest = NoInode /\ finalMode = Private
    BY <1>14 DEF OpenNew, SourceExists
  <2>5. SubSeq(bytes, 1, 0) = <<>> /\ <<>> \in Seq(Bytes)
    BY <2>4, PrefixWhole
  <2> HIDE DEF c
  <2>6. TypeOK'
    BY <2>1, <2>2, <2>3, <2>4, <2>5
  <2>7. LocalsInv' /\ ModeInv' /\ ReaderWhole'
    BY <2>1, <2>2, <2>3, <2>4
  <2>8. NamesInv'
    BY <2>1, <2>2, <2>3, <2>4
  <2>9. TempInv'
    BY <2>1, <2>2, <2>3, <2>4, <2>5
  <2>10. ReaderInv' /\ DestWhole'
    BY <2>2, <2>3, <2>4
  <2>11. NoLeak'
    <3>1. cand = <<>> /\ \A e \in Temps : tmp[e] # NoInode => e \in litter
      BY <2>4, NoTempName
    <3> QED
      BY <2>1, <2>2, <2>4, <3>1
  <2>12. PartialIsPrivate'
    BY <2>1, <2>2, <2>3, <2>4
  <2> QED
    BY <2>6, <2>7, <2>8, <2>9, <2>10, <2>11, <2>12
<1>15. ASSUME NEW t \in Ticks, OpenExists(t) PROVE IndInv'
  BY <1>15 DEF OpenExists, FreeInodes, Temps
<1>16. ASSUME NEW r \in Readers, ReaderOpen(r) PROVE IndInv'
  BY <1>16 DEF ReaderOpen
<1>17. ASSUME NEW r \in Readers, ReaderRead(r) PROVE IndInv'
  BY <1>17 DEF ReaderRead
<1>18. ASSUME NEW r \in Readers, ReaderEnd(r) PROVE IndInv'
  <2>1. buf[r] = data[rfd[r]] /\ buf[r] \in Docs
    <3>1. /\ rfd[r] # NoInode /\ Len(buf[r]) = Len(data[rfd[r]])
      BY <1>18 DEF ReaderEnd
    <3>2. data[rfd[r]] \in Docs /\ buf[r] = SubSeq(data[rfd[r]], 1, Len(buf[r]))
      BY <3>1
    <3>3. data[rfd[r]] \in Seq(Bytes)
      BY <3>2
    <3>4. SubSeq(data[rfd[r]], 1, Len(data[rfd[r]])) = data[rfd[r]]
      BY <3>3, PrefixWhole
    <3> QED
      BY <3>1, <3>2, <3>4
  <2> QED
    BY <1>18, <2>1 DEF ReaderEnd
<1>19. CASE UNCHANGED vars
  BY <1>19
<1>20. ASSUME NEW t \in Ticks, CopySource(t) PROVE IndInv'
  <2> DEFINE c == <<t, seq>>
  <2>1. c \in Temps /\ c # <<>> /\ tmp[c] = NoInode
    BY <1>20 DEF CopySource, Temps
  <2>2. PICK i \in FreeInodes :
          /\ tmp' = [tmp EXCEPT ![c] = i]
          /\ data' = [data EXCEPT ![i] = <<>>]
          /\ mode' = [mode EXCEPT ![i] = StatMode]
    BY <1>20 DEF CopySource
  <2>3. /\ i \in Inodes /\ i # dest
        /\ \A e \in Temps : tmp[e] # i
        /\ \A r \in Readers : rfd[r] # i
    BY DEF FreeInodes
  <2>4. /\ pc = "open" /\ pc' = "copy" /\ cand' = c /\ seq' = seq + 1 /\ offset' = 0
        /\ platform = "windows" /\ finalMode' = StatMode
        /\ UNCHANGED <<platform, bytes, source, attempt, fd, result, dest, litter, rfd, buf, got>>
    BY <1>20 DEF CopySource
  <2>5. /\ StatMode \in Modes
        /\ dest # NoInode => StatMode = mode[dest]
        /\ source = "dest" => dest # NoInode
    BY <1>20, <2>4 DEF CopySource, StatMode, SourceExists
  <2> HIDE DEF c
  <2>6. TypeOK'
    BY <2>1, <2>2, <2>3, <2>4, <2>5
  <2>7. LocalsInv' /\ ReaderWhole'
    BY <2>1, <2>2, <2>3, <2>4, <2>5
  <2>8. NamesInv'
    BY <2>1, <2>2, <2>3, <2>4
  <2>9. TempInv' /\ ModeInv'
    BY <2>1, <2>2, <2>3, <2>4, <2>5
  <2>10. ReaderInv' /\ DestWhole'
    BY <2>2, <2>3, <2>4
  <2>11. NoLeak'
    <3>1. cand = <<>> /\ \A e \in Temps : tmp[e] # NoInode => e \in litter
      BY <2>4, NoTempName
    <3> QED
      BY <2>1, <2>2, <2>4, <3>1
  <2>12. PartialIsPrivate'
    BY <2>4
  <2> QED
    BY <2>6, <2>7, <2>8, <2>9, <2>10, <2>11, <2>12
<1>21. CASE CopyDone \/ Truncate
  <2>1. /\ cand \in Temps /\ tmp[cand] \in Inodes /\ tmp[cand] # dest
        /\ platform = "windows"
        /\ \A r \in Readers : rfd[r] # tmp[cand]
        /\ \A e \in Temps : e # cand => tmp[e] # tmp[cand]
    BY <1>21 DEF CopyDone, Truncate
  <2>2. CASE CopyDone
    <3>1. PICK d \in Seq(Bytes) : data' = [data EXCEPT ![tmp[cand]] = d]
      BY <2>1, <2>2 DEF CopyDone
    <3> QED
      BY <2>1, <2>2, <3>1 DEF CopyDone
  <2>3. CASE Truncate
    <3>1. /\ bytes \in Seq(Bytes) /\ pc = "truncate" /\ pc' = "write"
          /\ data' = [data EXCEPT ![tmp[cand]] = <<>>] /\ fd' = tmp[cand]
          /\ offset = 0 /\ mode[tmp[cand]] = finalMode
          /\ UNCHANGED <<platform, bytes, source, finalMode, attempt, cand, offset, seq, result,
                         dest, tmp, mode, litter, rfd, buf, got>>
      BY <2>3 DEF Truncate
    <3>2. SubSeq(bytes, 1, 0) = <<>> /\ <<>> \in Seq(Bytes) /\ 0 <= Len(bytes)
      BY <3>1, PrefixWhole
    <3>3. TypeOK' /\ LocalsInv' /\ NamesInv' /\ ModeInv' /\ NoLeak' /\ ReaderWhole'
      BY <2>1, <3>1, <3>2
    <3>4. TempInv'
      BY <2>1, <3>1, <3>2
    <3>5. ReaderInv' /\ DestWhole' /\ PartialIsPrivate'
      BY <2>1, <3>1
    <3> QED
      BY <3>3, <3>4, <3>5
  <2> QED
    BY <1>21, <2>2, <2>3
<1>22. CASE CopyFail
  BY <1>22 DEF CopyFail
<1> HIDE DEF IndInv, vars
<1> QED
  BY <1>1, <1>2, <1>3, <1>4, <1>5, <1>6, <1>7, <1>8, <1>9, <1>10, <1>11, <1>12, <1>13, <1>14,
     <1>15, <1>16, <1>17, <1>18, <1>19, <1>20, <1>21, <1>22 DEF Next, WriterStep

\* Whatever happens, the files, the writer and the readers have their types,
\* the destination and everything read from it is one whole document, a
\* partial file is private and no temporary is forgotten.
THEOREM Safety == Spec => [](TypeOK /\ WholeDocuments /\ PartialIsPrivate /\ NoLeak)
<1>1. IndInv => TypeOK /\ WholeDocuments /\ PartialIsPrivate /\ NoLeak
  BY DEF IndInv, WholeDocuments
<1> QED
  BY <1>1, InitInd, StepInd, PTL DEF Spec

-------------------------------------------------------------------------------
(***************************************************************************)
(* The refinement.  Every step of the writer but Begin, Rename, the return *)
(* and the crash leaves the abstract state alone; Rename is Replace.       *)
(***************************************************************************)

LEMMA InitRefines == Init => Atomic!Init
  BY ReplaceAssumption DEF Init, Atomic!Init, Atomic!Files, absFile, absPhase, absSnap

LEMMA StepRefines == IndInv /\ [Next]_vars => [Atomic!Next]_(Atomic!vars)
<1> SUFFICES ASSUME IndInv, [Next]_vars PROVE [Atomic!Next]_(Atomic!vars)
  OBVIOUS
<1> USE ReplaceAssumption DEF absFile, absPhase, absSnap, Atomic!vars,
     vars, writerVars, locals, fileVars, readerVars, DropLocals, Return
<1>1. ASSUME NEW d \in Docs, NEW op \in {"commit", "capture"}, Begin(d, op)
      PROVE  Atomic!Begin(d)
  BY <1>1 DEF Begin, Atomic!Begin
<1>2. CASE Stat \/ OpenFail \/ StatFail \/ RemoveTemporary
  BY <1>2 DEF Stat, OpenFail, StatFail, RemoveTemporary, Atomic!Next, Atomic!Fail
<1>3. CASE Close \/ StepFail \/ (\E t \in Ticks : OpenExists(t))
  BY <1>3 DEF Close, StepFail, OpenExists
<1>4. ASSUME NEW t \in Ticks, OpenNew(t) PROVE UNCHANGED Atomic!vars
  BY <1>4 DEF OpenNew, FreeInodes, IndInv, TypeOK
<1>5. CASE Write
  BY <1>5 DEF Write, IndInv, TypeOK, NamesInv, TempInv, LocalsInv
<1>6. CASE Fchmod
  BY <1>6 DEF Fchmod, IndInv, TypeOK, NamesInv, TempInv, LocalsInv
<1>7. CASE Rename
  BY <1>7 DEF Rename, Atomic!Replace, Atomic!Next, IndInv, TypeOK, TempInv, LocalsInv, ModeInv
<1>8. CASE ReturnOk
  BY <1>8 DEF ReturnOk, Atomic!Succeed, Atomic!Next
<1>9. CASE Crash \/ Restart
  BY <1>9 DEF Crash, Restart, Atomic!Crash, Atomic!Restart, Atomic!Next, IndInv, TypeOK
<1>10. ASSUME NEW r \in Readers, ReaderOpen(r) PROVE Atomic!ReadOpen(r)
  <2>1. /\ rfd[r] = NoInode /\ dest # NoInode
        /\ rfd' = [rfd EXCEPT ![r] = dest] /\ rfd \in [Readers -> Inodes \cup {NoInode}]
        /\ UNCHANGED <<buf, got, writerVars, fileVars>>
    BY <1>10 DEF ReaderOpen, IndInv, TypeOK
  <2>2. absFile # Absent /\ absFile.bytes = data[dest]
    BY <2>1 DEF IndInv, TypeOK, DestWhole
  <2>3. absSnap' = [absSnap EXCEPT ![r] = data[dest]]
    BY <2>1
  <2> QED
    BY <2>1, <2>2, <2>3 DEF Atomic!ReadOpen
<1>11. ASSUME NEW r \in Readers, ReaderRead(r) PROVE UNCHANGED Atomic!vars
  BY <1>11 DEF ReaderRead
<1>12. ASSUME NEW r \in Readers, ReaderEnd(r) PROVE Atomic!ReadDone(r)
  BY <1>12, PrefixWhole DEF ReaderEnd, Atomic!ReadDone, IndInv, TypeOK, ReaderInv
<1>13. CASE UNCHANGED vars
  BY <1>13
<1>14. ASSUME NEW t \in Ticks, CopySource(t) PROVE UNCHANGED Atomic!vars
  BY <1>14 DEF CopySource, FreeInodes, IndInv, TypeOK
<1>15. CASE CopyDone \/ Truncate
  BY <1>15 DEF CopyDone, Truncate, IndInv, TypeOK, NamesInv, TempInv, LocalsInv
<1>16. CASE CopyFail
  BY <1>16 DEF CopyFail, Atomic!Fail, Atomic!Next
<1> QED
  BY <1>1, <1>2, <1>3, <1>4, <1>5, <1>6, <1>7, <1>8, <1>9, <1>10, <1>11, <1>12, <1>13, <1>14,
     <1>15, <1>16
     DEF Next, WriterStep, Atomic!Next

\* writeTemporary followed by replaceFile implements AtomicFile, for every
\* value of the constants: the destination is replaced as a whole or not at
\* all, and the result says which.
THEOREM Refinement == Spec => ImplementsAtomicFile
  BY InitInd, StepInd, InitRefines, StepRefines, PTL DEF Spec, ImplementsAtomicFile, Atomic!Spec
===============================================================================
