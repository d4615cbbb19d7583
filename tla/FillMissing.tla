------------------------------ MODULE FillMissing ------------------------------
(***************************************************************************)
(* fillMissing of config_runtime.cpp as it is written, a walk over the     *)
(* keys of the defaults that descends where both trees hold an object.     *)
(* The runtime's model uses the closed form Fill of ConfigTree instead.    *)
(*                                                                         *)
(* The state of the walk is the model so far, whether anything was added,  *)
(* and the keys still to look at, of the call at work and of the calls     *)
(* around it.  The order of members is left out, so any of them is next.   *)
(***************************************************************************)
EXTENDS ConfigTree

\* defaultsNode.keys(), with the path in front.
ChildPaths(d, path) == {Append(path, k) : k \in Keys} \cap DOMAIN d

StartWalk(m, d) == [model |-> m, added |-> FALSE, todo |-> ChildPaths(d, <<>>)]

\* model.set(p, *defaults.getValue(p)) where the model has nothing at p.
CopySubtree(m, d, p) ==
  [q \in DOMAIN m \cup {q \in DOMAIN d : q = p \/ Above(p, q)} |->
     IF q \in DOMAIN m THEN m[q] ELSE d[q]]

\* Mutant: the shape of the model's own child is not looked at.
Descends_Coerce(m, d, p) == d[p] = Obj

Descends(m, d, p) == d[p] = Obj /\ m[p] = Obj

\* One key of the loop: it is copied, descended into or left untouched.
VisitKey(w, d, p) ==
  IF p \notin DOMAIN w.model
  THEN [model |-> CopySubtree(w.model, d, p), added |-> TRUE, todo |-> w.todo \ {p}]
  ELSE IF Descends(w.model, d, p)
       THEN [w EXCEPT !.todo = (@ \ {p}) \cup ChildPaths(d, p)]
       ELSE [w EXCEPT !.todo = @ \ {p}]
===============================================================================
