---------------------------- MODULE MCReplaceFile ----------------------------
(***************************************************************************)
(* Instances of ReplaceFile for TLC: documents of one and of two bytes, so *)
(* that a write may be short and a read torn; more temporary names than    *)
(* attempts, so that what dead processes left can use up the attempts.     *)
(***************************************************************************)
EXTENDS ReplaceFile, TLC

MCDocs == {<<1, 2>>, <<3>>}
MCBytes == 1 .. 3

Symmetry == Permutations(Inodes)
===============================================================================
