---------------------------- MODULE MCConfigRuntime ----------------------------
(***************************************************************************)
(* Three version ids, any of which may stay unregistered, and the three    *)
(* forward migrations.  A key and one below it: the smallest trees in      *)
(* which a default is missing at the top or under an object, the user has  *)
(* a value of their own, or a value of another shape hides a default.      *)
(***************************************************************************)
EXTENDS ConfigRuntime

MCVersions == 1 .. 3
MCPairs == {<<1, 2>>, <<2, 3>>, <<1, 3>>}
MCKeys == {"a", "b"}
MCPaths == {<<"a">>, <<"a", "b">>}

\* Version 1 has a flat key; later versions turn it into an object.
MCDefaults ==
  [v \in MCVersions |->
     IF v = 1 THEN [p \in {<<"a">>} |-> "x"]
     ELSE [p \in MCPaths |-> IF p = <<"a">> THEN Obj ELSE "x"]]
===============================================================================
