---------------------------- MODULE MCXmlInterface ----------------------------
(***************************************************************************)
(* Documents and configurations for XmlInterface: every root over          *)
(* MCRootAttrs with at most two children of MCNodes, and what may stand    *)
(* beside the root.                                                        *)
(***************************************************************************)
EXTENDS XmlInterface

type(t) == <<Attribute("type", <<t>>)>>
plain(n, t) == Element(n, <<>>, <<Text(t)>>)
typed(n, ty, t) == Element(n, type(ty), <<Text(t)>>)
sp == Text(<<"sp">>)
x == Text(<<"x">>)

MCRootAttrs ==
  LET some == {Attribute("version", t) :
                 t \in {<<"1">>, <<"0", "1">>, <<"1", "1">>, <<"1", "9">>, <<>>, <<"-", "1">>}}
              \cup {Attribute("type", <<"object">>), Attribute("type", <<"array">>),
                    Attribute("other", <<"x">>)}
  IN  UNION {[1 .. n -> some] : n \in 0 .. 2} \cup {<<a, Attribute("version", <<"1">>), a>> : a \in some}

MCScalars ==
  {plain("a", t) : t \in {<<>>, <<"x">>, <<"sp">>, <<"cr">>, <<"true">>}}
  \cup {typed("a", "int", t) : t \in {<<"1", "0">>, <<"1", "1">>, <<"-", "1", "1">>, <<"-", "0">>,
                                      <<"-", "1", "9">>, <<"sp", "1">>, <<>>, <<"-">>, <<"0", "9">>}}
  \cup {typed("a", "double", t) : t \in {<<"0", "1">>, <<"frac">>, <<"inf">>, <<"x">>}}
  \cup {typed("a", "bool", t) : t \in {<<"true">>, <<"false">>, <<"1">>, <<"sp", "true">>}}
  \cup {typed("a", "null", t) : t \in {<<>>, <<"sp">>}}
  \cup {Element("a", <<>>, <<Text(<<"x">>), Text(<<"lf">>)>>),
        Element("a", type("int"), <<Text(<<"1">>), Text(<<"0">>)>>),
        Element("a", type("string"), <<x>>), Element("a", type("null"), <<>>),
        Element("a", <<Attribute("other", <<"x">>)>>, <<x>>),
        Element("a", type("int") \o type("int"), <<Text(<<"1">>)>>)}

b == plain("b", <<"x">>)
item == plain("item", <<"x">>)
MCNested ==
  {Element("a", <<>>, kids) :
     kids \in {<<b>>, <<sp, b>>, <<x, b>>, <<b, b>>, <<b, item>>, <<plain("a.b", <<"x">>)>>,
               <<plain("a:b", <<"x">>)>>, <<Element("b", <<>>, <<b>>)>>,
               <<Element("b", <<>>, <<Element("b", type("object"), <<>>)>>)>>}}
  \cup {Element("a", type(ty), kids) :
          ty \in {"object", "array"},
          kids \in {<<>>, <<sp>>, <<x>>, <<item>>, <<sp, item, sp, item>>, <<item, item, item>>, <<b>>,
                    <<Element("item", type("array"), <<item>>)>>,
                    <<Element("item", type("array"), <<Element("item", type("object"), <<>>)>>)>>}}
  \cup {Element("a", type("int"), <<Text(<<"1">>), b>>)}

MCNodes == MCScalars \cup MCNested \cup {sp, x, plain("version", <<"1">>), b, plain("1st", <<"x">>)}

good == <<Attribute("version", <<"1">>)>>
root(kids) == Element("config", good, kids)

MCDocs ==
  {NoDoc}
  \cup {<<Element("config", as, <<b>>)>> : as \in MCRootAttrs}
  \cup {<<root(kids)>> : kids \in UNION {[1 .. n -> MCNodes] : n \in 0 .. 2}}
  \cup {<<root(<<n, b, item>>)>> : n \in MCNodes}
  \cup {<<>>, <<sp>>, <<x>>, <<sp, root(<<>>), sp>>, <<x, root(<<>>)>>, <<root(<<>>), x>>,
        <<root(<<b>>), root(<<>>)>>, <<Element("b", good, <<b>>)>>}

L(ty, v) == Value(ty, v)
N(ty, kids) == [type |-> ty, scalar |-> NoScalar, kids |-> kids]
K(k, v) == [key |-> k, value |-> v]

MCLeaves ==
  {L("Null", NoScalar), L("Bool", TRUE), L("Bool", FALSE), L("Int", MaxInt), L("Int", -MaxInt - 1),
   L("Int", 0), L("Double", <<"1">>), L("Double", <<"frac">>), L("Double", <<"inf">>),
   L("String", <<>>), L("String", <<"sp">>), L("String", <<"cr">>), L("String", <<"x", "lf">>),
   L("String", <<"1">>), N("Object", <<>>), N("Array", <<>>)}
MCModels ==
  {N("Object", <<>>)}
  \cup {N("Object", <<K(k, v), K("b", w)>>) : k \in {"a", "item", "1st"}, v, w \in MCLeaves}
  \cup {N("Object", <<K("a", N(ty, <<K(IF ty = "Array" THEN NoKey ELSE "version", v)>>))>>) :
          ty \in {"Object", "Array"}, v \in MCLeaves}
MCConfigs == [version : {0, MaxVersion}, model : MCModels]
===============================================================================
