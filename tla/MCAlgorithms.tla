----------------------------- MODULE MCAlgorithms -----------------------------
(***************************************************************************)
(* Paths: a key byte, two digits and the reserved bytes, with "[10]" the   *)
(* largest index and "[11]" beyond it.  Bytes: the boundaries of the       *)
(* table of well-formed UTF-8.  Numbers: 6 bits of Int in quarters, a      *)
(* float of 2, a double of 4 and a long double of 8 bits precision.        *)
(* Trees: two keys, three levels.  Options: the directory d and the file c *)
(* in it and beside it may exist, with links l to d and k to the c in it.  *)
(***************************************************************************)
EXTENDS Algorithms

MCFormats ==
  [F \in {"float", "double", "long double"} |->
     CASE F = "float"       -> [precision |-> 2, min |-> 1, max |-> 7]
       [] F = "double"      -> [precision |-> 4, min |-> 0, max |-> 5]
       [] F = "long double" -> [precision |-> 8, min |-> 0, max |-> 2]]

MCXmlBytes == {9, 13, 45, 65, 128, 143, 144, 159, 160, 191, 193, 195,
               224, 237, 239, 240, 244, 248}

MCFileSystems ==
  {[dirs  |-> {<<>>, Cwd} \cup (IF d THEN {<<"w", "d">>} ELSE {}),
    files |-> IF c THEN {<<"w", "c">>} \cup (IF d THEN {<<"w", "d", "c">>} ELSE {}) ELSE {},
    links |-> IF d THEN [p \in {<<"w", "l">>} \cup (IF c THEN {<<"w", "k">>} ELSE {}) |->
                           IF p = <<"w", "l">> THEN <<"w", "d">> ELSE <<"w", "d", "c">>]
                   ELSE <<>>] : c, d \in BOOLEAN}

\* Ways to a directory, from the current one or from the root.
MCWays == Texts({".", "..", "d", "l"}, 2)
MCCanonicalPaths ==
  {Path(abs, (IF abs THEN Cwd ELSE <<>>) \o Append(q, f), FALSE) :
     abs \in BOOLEAN, q \in MCWays, f \in {"c", "k"}}
  \cup {Path(FALSE, <<>>, FALSE)}
MCDirectoryPaths ==
  {Path(FALSE, q, slash /\ q # <<>>) : q \in MCWays, slash \in BOOLEAN}
  \cup {Path(TRUE, Cwd \o q, slash) : q \in MCWays, slash \in BOOLEAN}

MCCwd == <<"w">>

MCFewPaths == {<<"a">>}
MCPaths == {<<"a">>, <<"b">>, <<"a", "a">>, <<"a", "b">>, <<"a", "a", "b">>}
===============================================================================
