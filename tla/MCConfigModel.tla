----------------------------- MODULE MCConfigModel -----------------------------
(***************************************************************************)
(* A key, a key below it and the first two indices of an array below it:   *)
(* paths of up to three segments, so that a write can append, replace,     *)
(* create one or two containers, traverse the wrong type and leave a hole. *)
(***************************************************************************)
EXTENDS ModelValue

K(k) == [kind |-> "key", key |-> k]
I(i) == [kind |-> "index", index |-> i]

MCPaths == {<<K("a")>>, <<K("a"), K("b")>>, <<K("a"), I(0)>>, <<K("a"), I(1)>>,
            <<K("a"), I(0), K("b")>>, <<K("a"), K("b"), I(1)>>}

Leaf(type, s) == [type |-> type, scalar |-> s, kids |-> <<>>]
Node(type, kids) == [type |-> type, scalar |-> NoScalar, kids |-> kids]
Member(k, v) == [key |-> k, value |-> v]

MCValues ==
  {Leaf("Int", 1),
   Node("Object", <<>>),
   Node("Object", <<Member("b", Leaf("Int", 2))>>),
   Node("Array", <<Member(NoKey, Leaf("Int", 2))>>),
   Node("Object", <<Member("bad", Leaf("Int", 1))>>)}

MCHandlePaths == {<<K("a"), I(0)>>}

\* With the values inside them.
MCConfigValues == MCValues \cup {Leaf("Int", 2)}
MCKeys == {"a", "b", "c", "bad", NoKey}
MCScalars == {1, 2, NoScalar}

\* The runs about handles write fewer values and hold a handle to anything.
MCFewValues ==
  {Leaf("Int", 1), Node("Object", <<Member("b", Leaf("Int", 2))>>)}
MCFewPaths == {<<K("a")>>, <<K("a"), K("b")>>, <<K("c"), I(0)>>}
MCFewHandlePaths == MCFewPaths \cup {<<>>}
===============================================================================
