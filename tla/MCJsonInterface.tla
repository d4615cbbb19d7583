---------------------------- MODULE MCJsonInterface ----------------------------
(***************************************************************************)
(* Documents for JsonInterface: every root of at most two members over     *)
(* MCMembers, and of three over a few of them.                             *)
(***************************************************************************)
EXTENDS JsonInterface

J(kind, val) == [kind |-> kind, val |-> val, kids |-> <<>>]
M(k, v) == [key |-> k, value |-> v]
Obj(kids) == [kind |-> "object", val |-> NoScalar, kids |-> kids]
Arr(vs) == [kind |-> "array", val |-> NoScalar,
            kids |-> [i \in DOMAIN vs |-> M(NoKey, vs[i])]]

s == J("plain", "s")
v(n) == J("unsigned", n)

MCScalars == {s, J("negative", -1), J("float", "f"), J("overflow", "o"),
              v(MaxVersion), v(MaxVersion + 1), v(MaxInt + 1)}
MCNested == {Arr(<<>>), Arr(<<s>>), Arr(<<s, s>>), Arr(<<Arr(<<>>)>>), Arr(<<Arr(<<s>>)>>),
             Arr(<<Arr(<<Arr(<<>>)>>)>>), Obj(<<>>), Obj(<<M("a", s)>>),
             Obj(<<M("a", s), M("a", v(1))>>), Obj(<<M("bad", s)>>),
             Obj(<<M(VersionKey, v(1)), M("a", Obj(<<>>))>>),
             Obj(<<M("a", Obj(<<M("b", s)>>))>>), Obj(<<M("a", Obj(<<M("b", Obj(<<>>))>>))>>)}
MCMembers == {M(k, d) : k \in {"a", "b", "bad", VersionKey}, d \in MCScalars \cup MCNested}
MCFew == {M("a", s), M("a", Arr(<<>>)), M("b", Arr(<<s>>)), M("b", Obj(<<M("a", s)>>)),
          M(VersionKey, v(1)), M("c", v(MaxInt))}

MCDocs == MCScalars \cup MCNested
            \cup {Obj(ms) : ms \in UNION {[1 .. n -> MCMembers] : n \in 0 .. 2}}
            \cup {Obj(ms) : ms \in UNION {[1 .. n -> MCFew] : n \in 3 .. 4}}
MCCuts == {s, Obj(<<M("a", Obj(<<M("b", Arr(<<s>>))>>)), M(VersionKey, v(1))>>)}

L(type, x) == [type |-> type, scalar |-> x, kids |-> <<>>]
N(type, kids) == [type |-> type, scalar |-> NoScalar, kids |-> kids]
MCModels ==
  {N("Object", <<M(k, x), M("b", y)>>) :
     k \in {"a", VersionKey},
     x \in {L("String", "s"), L("Int", -1), L("Int", MaxInt), L("Double", "f")},
     y \in {L("Double", NonFinite), L("String", BadText),
            N("Array", <<>>), N("Array", <<M(NoKey, L("Int", 0)), M(NoKey, L("Int", 1))>>),
            N("Object", <<M(VersionKey, L("Int", 1))>>)}}
MCConfigs == [version : {0, MaxVersion}, model : MCModels]
===============================================================================
