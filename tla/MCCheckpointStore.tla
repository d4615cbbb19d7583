-------------------------- MODULE MCCheckpointStore --------------------------
(***************************************************************************)
(* Three versions: the smallest number with a firmware between the one an  *)
(* upgrade came from and the one it went to.                               *)
(***************************************************************************)
EXTENDS CheckpointStore

MCVersions == 1 .. 3
===============================================================================
