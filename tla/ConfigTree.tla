------------------------------ MODULE ConfigTree ------------------------------
(***************************************************************************)
(* A configuration tree as the runtime sees it: a function from the paths  *)
(* of object members to what is stored there.  Arrays are atomic for the   *)
(* repair, so an array is a leaf like a scalar; Obj marks an object.  The  *)
(* root is an object and has no entry.  The order of members is left out.  *)
(***************************************************************************)
EXTENDS Integers, Sequences

CONSTANTS Keys,    \* member names
          Paths,   \* the paths that occur
          Leaves,  \* scalars and arrays
          Obj

\* q names an ancestor of p.
Above(q, p) == Len(q) < Len(p) /\ SubSeq(p, 1, Len(q)) = q

ASSUME TreeAssumption == /\ Obj \notin Leaves
                         /\ Paths \subseteq Seq(Keys) \ {<<>>}
                         /\ \A p \in Paths : \A n \in 1..Len(p) : SubSeq(p, 1, n) \in Paths

\* Everything above a node is an object of the same tree.
Rooted(t) ==
  \A p \in DOMAIN t : \A q \in Paths :
     Above(q, p) => q \in DOMAIN t /\ t[q] = Obj

Trees == {t \in UNION {[S -> Leaves \cup {Obj}] : S \in SUBSET Paths} : Rooted(t)}

\* Mutant: the defaults are copied under a value of another shape too.
Missing_Coerce(t, d) == DOMAIN d \ DOMAIN t

\* A key of the defaults that the tree lacks is filled in when nothing above
\* it stands in the way: every ancestor the tree has is an object there too.
Missing(t, d) ==
  {p \in DOMAIN d \ DOMAIN t : \A q \in DOMAIN t : Above(q, p) => t[q] = Obj}

Fill(t, d) == [p \in DOMAIN t \cup Missing(t, d) |->
                 IF p \in DOMAIN t THEN t[p] ELSE d[p]]

\* Every default is there, or hidden under something that is not an object.
Complete(t, d) ==
  \A p \in DOMAIN d :
     \/ p \in DOMAIN t
     \/ \E q \in DOMAIN t : Above(q, p) /\ t[q] # Obj

\* t still says everything that s said.
Extends(t, s) == DOMAIN s \subseteq DOMAIN t /\ \A p \in DOMAIN s : t[p] = s[p]
===============================================================================
