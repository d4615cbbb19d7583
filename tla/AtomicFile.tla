------------------------------ MODULE AtomicFile ------------------------------
(***************************************************************************)
(* What checkpoint_store.cpp promises about one destination file (the      *)
(* canonical file, or one checkpoint): an operation either replaces the    *)
(* whole file or leaves it as it was, it says truthfully which of the two  *)
(* happened, an existing file keeps its permission mode, a process that    *)
(* dies leaves the old or the new file, and a reader that has opened the   *)
(* file gets the document that was there when it opened it.                *)
(*                                                                         *)
(* ReplaceFile (writeTemporary + replaceFile) implements this              *)
(* specification.                                                          *)
(***************************************************************************)
CONSTANTS Docs,     \* complete documents, as byte sequences
          Modes,    \* permission modes
          Readers,  \* processes that read the destination
          Absent,   \* there is no destination file
          NoDoc     \* a reader that has no document

VARIABLES file,    \* the destination: Absent or [bytes, mode]
          phase,   \* "idle", "busy", "replaced" or "down"
          job,     \* the document being written
          result,  \* what the last operation returned
          snap,    \* what each reader's open file holds
          got      \* what each reader has read to the end

vars == <<file, phase, job, result, snap, got>>

Files == [bytes : Docs, mode : Modes]

Init ==
  /\ file \in {Absent} \cup Files
  /\ phase = "idle"
  /\ job = NoDoc
  /\ result = "none"
  /\ snap = [r \in Readers |-> NoDoc]
  /\ got = [r \in Readers |-> NoDoc]

Begin(d) ==
  /\ phase = "idle"
  /\ phase' = "busy"
  /\ job' = d
  /\ result' = "none"
  /\ UNCHANGED <<file, snap, got>>

Replace ==
  /\ phase = "busy"
  /\ \E m \in Modes :
       /\ file # Absent => m = file.mode
       /\ file' = [bytes |-> job, mode |-> m]
  /\ phase' = "replaced"
  /\ UNCHANGED <<job, result, snap, got>>

Succeed ==
  /\ phase = "replaced"
  /\ phase' = "idle"
  /\ result' = "ok"
  /\ job' = NoDoc
  /\ UNCHANGED <<file, snap, got>>

Fail ==
  /\ phase = "busy"
  /\ phase' = "idle"
  /\ result' = "error"
  /\ job' = NoDoc
  /\ UNCHANGED <<file, snap, got>>

Crash ==
  /\ phase # "down"
  /\ phase' = "down"
  /\ result' = "none"
  /\ job' = NoDoc
  /\ UNCHANGED <<file, snap, got>>

Restart ==
  /\ phase = "down"
  /\ phase' = "idle"
  /\ UNCHANGED <<file, job, result, snap, got>>

ReadOpen(r) ==
  /\ snap[r] = NoDoc
  /\ file # Absent
  /\ snap' = [snap EXCEPT ![r] = file.bytes]
  /\ UNCHANGED <<file, phase, job, result, got>>

ReadDone(r) ==
  /\ snap[r] # NoDoc
  /\ got' = [got EXCEPT ![r] = snap[r]]
  /\ snap' = [snap EXCEPT ![r] = NoDoc]
  /\ UNCHANGED <<file, phase, job, result>>

Next ==
  \/ \E d \in Docs : Begin(d)
  \/ Replace \/ Succeed \/ Fail \/ Crash \/ Restart
  \/ \E r \in Readers : ReadOpen(r) \/ ReadDone(r)

Spec == Init /\ [][Next]_vars
===============================================================================
