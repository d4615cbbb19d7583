------------------------------- MODULE ModelValue -------------------------------
(***************************************************************************)
(* The value of a ConfigModel, and that the arena implements ValueTree.    *)
(***************************************************************************)
EXTENDS ConfigModel

\* The value of the subtree at id.
RECURSIVE BuildValue(_, _)
BuildValue(a, id) ==
  LET n == a.nodes[id]
  IN  [type |-> n.type, scalar |-> n.scalar,
       kids |-> [k \in DOMAIN n.kids |-> [key |-> n.kids[k].key,
                                          value |-> BuildValue(a, n.kids[k].id)]]]

\* What the model is: while assignContents frees the old children the new
\* contents are already certain, though not yet in their place.
Seen ==
  IF aside = NoArena /\ pc = "clear"
  THEN [arena EXCEPT !.nodes[at] = [@ EXCEPT !.scalar = arena.nodes[chain].scalar,
                                             !.kids = arena.nodes[chain].kids]]
  ELSE Model

\* The call that has not been answered yet.
Open ==
  IF result # "none" THEN NoCall
  ELSE [op |-> IF aside # NoArena THEN "fromValue"
               ELSE IF pc \in {"remove", "nodeAt"} THEN pc ELSE "set",
        path |-> call.path, value |-> call.value]

\* The arena implements the value tree: each write is all or nothing and does
\* what its own path and value ask for, with the same answer, whatever memory
\* runs out in the middle.
Value == INSTANCE ValueTree WITH value <- BuildValue(Seen, Root), result <- result,
                                 request <- Open
ImplementsValueTree == Value!Spec
===============================================================================
