--------------------------- MODULE CheckpointOptions ---------------------------
(***************************************************************************)
(* cpCreate and validateOptions of checkpoint_store.cpp: the two paths of  *)
(* the options, made canonical as far as they exist, and the check that    *)
(* the canonical file is not kept in the checkpoint directory.             *)
(*                                                                         *)
(* A path is absolute or not, its names, and whether a separator ends it;  *)
(* std::filesystem compares paths by these three.  A file system is the    *)
(* directories and files that exist and its symbolic links, all by their   *)
(* places, sequences of names from the root.                               *)
(***************************************************************************)
EXTENDS Integers, Sequences, SequencesExt, FiniteSetsExt

CONSTANT Cwd   \* the place of the current directory

Path(abs, names, slash) == [abs |-> abs, names |-> names, slash |-> slash]

Parent(place) == IF place = <<>> THEN <<>> ELSE Front(place)

\* One step of path resolution, through a link where there is one.
Step(fs, place, name) ==
  CASE name = "."  -> place
    [] name = ".." -> Parent(place)
    [] OTHER -> LET next == Append(place, name)
                IN  IF next \in DOMAIN fs.links THEN fs.links[next] ELSE next

Resolve(fs, from, names) == FoldLeft(LAMBDA place, name : Step(fs, place, name), from, names)

Start(p) == IF p.abs THEN <<>> ELSE Cwd

\* How many leading names of the path exist.
Existing(fs, p) ==
  LET At(n) == Resolve(fs, Start(p), SubSeq(p.names, 1, n))
  IN  Max({n \in 0..Len(p.names) :
             /\ \A k \in 1..n-1 : At(k) \in fs.dirs
             /\ n > 0 => At(n) \in fs.dirs \cup fs.files})

\* lexically_normal on names.
Normal(names) ==
  FoldLeft(LAMBDA acc, name : CASE name = "."  -> acc
                                [] name = ".." /\ acc # <<>> -> Front(acc)
                                [] OTHER -> Append(acc, name),
           <<>>, names)

\* std::filesystem::weakly_canonical: canonical() of the leading part that
\* exists, the rest appended to it, and the whole normalised as text.  A
\* relative path of which nothing exists stays relative; behind a missing name
\* a final separator, dot or dot-dot leaves a separator at the end.
WeaklyCanonical(fs, p) ==
  LET n      == Existing(fs, p)
      rest   == SubSeq(p.names, n + 1, Len(p.names))
      head   == IF n = 0 /\ ~p.abs THEN <<>>
                ELSE Resolve(fs, Start(p), SubSeq(p.names, 1, n))
      normal == Normal(head \o rest)
  IN  Path(p.abs \/ n > 0, normal,
           /\ rest # <<>> /\ normal # <<>>
           /\ p.slash \/ Last(rest) \in {".", ".."})

\* parent_path, or the current directory "." where that is empty.
ParentOrCurrent(p) == Path(p.abs, Front(p.names), FALSE)

StorageError == [code |-> "StorageError"]

IsEmpty(p) == ~p.abs /\ p.names = <<>>

\* Mutant: the canonical file's path is compared as it was given.
ValidateOptions_AsGiven(fs, canonical, directory) ==
  LET d == WeaklyCanonical(fs, directory)
  IN  IF IsEmpty(canonical) \/ IsEmpty(directory) THEN StorageError
      ELSE IF ParentOrCurrent(canonical) = d THEN StorageError
      ELSE [code |-> "Ok", canonical |-> canonical, directory |-> d]

ValidateOptions(fs, canonical, directory) ==
  LET c == WeaklyCanonical(fs, canonical)
      d == WeaklyCanonical(fs, directory)
  IN  IF IsEmpty(canonical) \/ IsEmpty(directory) THEN StorageError
      ELSE IF ParentOrCurrent(c) = d THEN StorageError
      ELSE [code |-> "Ok", canonical |-> c, directory |-> d]
-------------------------------------------------------------------------------
\* The place a path leads to, whatever of it exists yet.
Place(fs, p) == Resolve(fs, Start(p), p.names)

\* The canonical file would be kept in the checkpoint directory.
Inside(fs, canonical, directory) ==
  Parent(Place(fs, canonical)) = Place(fs, directory)
===============================================================================
