------------------------------ MODULE XmlInterface ------------------------------
(***************************************************************************)
(* XmlInterface of xml_interface.cpp: load and save.                       *)
(*                                                                         *)
(* pugixml's document is a sequence of nodes.  A node is an element        *)
(* [kind, name, attrs, text, kids] or a run of character data (its kind is *)
(* "text", only its text counts).  A text is a sequence of pieces: one     *)
(* character each, or a word the parsers below know ("true", "inf" ...).   *)
(* A value is [type, scalar, kids], as in ConfigModel.                     *)
(*                                                                         *)
(* Memory may run out in the C++ library, which throws, and in pugixml,    *)
(* which says so by a parse status, an empty handle or a false return.     *)
(***************************************************************************)
EXTENDS Integers, Sequences
LOCAL Ext == INSTANCE SequencesExt

CONSTANTS Docs,          \* documents to load
          Configs,       \* configurations the application makes itself
          MaxDepth,      \* kMaxTreeDepth
          MaxNodes,      \* limits_.maxNodes
          MaxVersion,    \* kMaxVersion
          MaxInt,        \* the greatest std::int64_t
          MaxParts,      \* bound: parts of a saved document whose allocation may fail
          ElementNames,  \* what isValidElementName accepts
          Addressable,   \* what isPathAddressable accepts
          Whitespace,    \* pieces that isXmlWhitespace accepts
          Forbidden,     \* pieces that isXmlRepresentable refuses
          NoKey, NoScalar, NoDoc, NoConfig, NoVersion

ASSUME XmlAssumption == /\ MaxDepth \in Nat /\ MaxNodes \in Nat
                        /\ MaxVersion \in Nat /\ MaxInt \in Nat /\ MaxParts \in Nat

VARIABLES pc,          \* where load is, or what the application has done
          dom,         \* pugixml's document
          built,       \* what the conversion made of it
          result,      \* what the last load or save returned
          config,      \* the application's configuration, if it has one
          doc,         \* history: the document being loaded, NoDoc if malformed
          unreadable,  \* its text is longer than maxInputBytes, or there is no buffer
          saved,       \* history: the configuration whose text is being loaded
          lost         \* history: memory ran out in the call

vars == <<pc, dom, built, result, config, doc, unreadable, saved, lost>>

Text(t) == [kind |-> "text", name |-> NoKey, attrs |-> <<>>, text |-> t, kids |-> <<>>]
Element(n, as, kids) ==
  [kind |-> "element", name |-> n, attrs |-> as, text |-> <<>>, kids |-> kids]
Attribute(n, t) == [name |-> n, text |-> t]
Value(type, x) == [type |-> type, scalar |-> x, kids |-> <<>>]

IsXmlWhitespace(t) == \A i \in DOMAIN t : t[i] \in Whitespace

\* Mutant: a carriage return is let through.
IsXmlRepresentable_Any(t) == TRUE

IsXmlRepresentable(t) == \A i \in DOMAIN t : t[i] \notin Forbidden

Elements(nodes) == SelectSeq(nodes, LAMBDA n : n.kind = "element")
HasElementChildren(e) == Elements(e.kids) # <<>>

-------------------------------------------------------------------------------
(* Numbers as text.                                                        *)

DigitChars == <<"0", "1", "2", "3", "4", "5", "6", "7", "8", "9">>

\* Decimal digits and nothing else.
IsDecimal(t) == t # <<>> /\ \A i \in DOMAIN t : t[i] \in Ext!ToSet(DigitChars)
Decimal(t) == Ext!FoldLeft(LAMBDA n, c : 10 * n + Ext!SelectInSeq(DigitChars, LAMBDA d : d = c) - 1, 0, t)

\* std::to_string of a natural number.
RECURSIVE Digits(_)
Digits(n) ==
  LET last == DigitChars[(n % 10) + 1]
  IN  IF n < 10 THEN <<last>> ELSE Append(Digits(n \div 10), last)

IntText(n) == IF n < 0 THEN <<"-">> \o Digits(-n) ELSE Digits(n)

Error(code) == [code |-> code, value |-> Value("Null", NoScalar), nodes |-> 0]
Ok(v, nodes) == [code |-> "ok", value |-> v, nodes |-> nodes]

\* The carrier: digits only, leading zeros allowed.
ParseVersionCarrier(t) ==
  IF IsDecimal(t) /\ Decimal(t) <= MaxVersion THEN Decimal(t) ELSE NoVersion

ParseBoolText(t, nodes) ==
  IF t \in {<<"true">>, <<"false">>} THEN Ok(Value("Bool", t[1] = "true"), nodes)
  ELSE Error("ParseError")

\* std::from_chars takes a minus sign and the whole text, no blanks, no plus.
ParseIntText(t, nodes) ==
  LET minus == t # <<>> /\ t[1] = "-"
      digits == IF minus THEN Tail(t) ELSE t
      n == IF minus THEN -Decimal(digits) ELSE Decimal(digits)
  IN  IF IsDecimal(digits) /\ n \in -MaxInt - 1 .. MaxInt
      THEN Ok(Value("Int", n), nodes) ELSE Error("ParseError")

\* A double is named by its shortest text.  "inf" is a literal of from_chars.
FromCharsDouble(t) ==
  IF IsDecimal(t) THEN Digits(Decimal(t))
  ELSE IF t \in {<<"frac">>, <<"inf">>} THEN t ELSE NoScalar

IsFinite(x) == x # <<"inf">>

ParseDoubleText(t, nodes) ==
  LET x == FromCharsDouble(t)
  IN  IF x # NoScalar /\ IsFinite(x) THEN Ok(Value("Double", x), nodes)
      ELSE Error("ParseError")

-------------------------------------------------------------------------------
(* load: from pugixml's document to a ConfigValue.                         *)

\* Mutant: the document is not parsed as a fragment.
ParseFlags_NoFragment == {"ws_pcdata"}

\* Beyond pugixml's default: keep character data that is only white space,
\* and what stands outside the root.
ParseFlags == {"ws_pcdata", "fragment"}

\* pugixml: the nodes it keeps of a well-formed text, under those flags.
RECURSIVE Keep(_, _)
Keep(nodes, top) ==
  LET Kept(n) == n.kind = "element" \/ (/\ top => "fragment" \in ParseFlags
                                        /\ IsXmlWhitespace(n.text) => "ws_pcdata" \in ParseFlags)
      some == SelectSeq(nodes, Kept)
  IN  [i \in DOMAIN some |-> [some[i] EXCEPT !.kids = Keep(@, FALSE)]]

TooDeep(depth) == depth > MaxDepth

\* NodeBudget::consume fails when this many nodes are counted.
Exhausted(nodes) == nodes = MaxNodes

\* Mutant: pugixml's idea of a name is good enough.
MemberNameAccepted_PathOnly(key) == key \in Addressable

MemberNameAccepted(key) == key \in Addressable /\ key \in ElementNames

HasKey(v, key) == \E i \in DOMAIN v.kids : v.kids[i].key = key

\* scalarText: pcdata and CDATA together (the caller excludes child elements).
ScalarText(e) == Ext!FlattenSeq([i \in DOMAIN e.kids |-> e.kids[i].text])

RECURSIVE ParseValue(_, _, _)

\* The body of the loops of parseObjectMembers and parseArrayItems, whose
\* result so far is acc; key is NoKey in an array.
AddChild(acc, child, accepted, key, depth) ==
  LET parsed == ParseValue(child, depth + 1, acc.nodes)
  IN  IF child.kind = "text"
      THEN IF IsXmlWhitespace(child.text) THEN acc ELSE Error("ParseError")
      ELSE IF ~accepted THEN Error("ParseError")
      ELSE IF parsed.code # "ok" THEN parsed
      ELSE Ok([acc.value EXCEPT !.kids = Append(@, [key |-> key, value |-> parsed.value])],
              parsed.nodes)

ParseObjectMembers(e, depth, nodes) ==
  Ext!FoldLeft(LAMBDA acc, child :
                 IF acc.code # "ok" THEN acc
                 ELSE AddChild(acc, child,
                               MemberNameAccepted(child.name) /\ ~HasKey(acc.value, child.name),
                               child.name, depth),
               Ok(Value("Object", NoScalar), nodes), e.kids)

ParseArrayItems(e, depth, nodes) ==
  Ext!FoldLeft(LAMBDA acc, child :
                 IF acc.code # "ok" THEN acc
                 ELSE AddChild(acc, child, child.name = "item", NoKey, depth),
               Ok(Value("Array", NoScalar), nodes), e.kids)

\* The type attribute is the only one, and comes once.
ParseValue(e, depth, nodes) ==
  LET type == IF e.attrs = <<>> THEN <<"">> ELSE e.attrs[1].text
      t == ScalarText(e)
  IN  IF TooDeep(depth) \/ Exhausted(nodes) THEN Error("ParseError")
      ELSE IF Len(e.attrs) > 1 \/ \E i \in DOMAIN e.attrs : e.attrs[i].name # "type"
      THEN Error("ParseError")
      ELSE CASE type = <<"object">> \/ (e.attrs = <<>> /\ HasElementChildren(e)) ->
                  ParseObjectMembers(e, depth, nodes + 1)
             [] type = <<"array">> -> ParseArrayItems(e, depth, nodes + 1)
             [] e.attrs = <<>> /\ ~HasElementChildren(e) ->
                  IF IsXmlRepresentable(t) THEN Ok(Value("String", t), nodes + 1)
                  ELSE Error("ParseError")
             [] type \in {<<"null">>, <<"bool">>, <<"int">>, <<"double">>}
                /\ HasElementChildren(e) -> Error("ParseError")
             [] type = <<"null">> /\ ~HasElementChildren(e) ->
                  IF t = <<>> THEN Ok(Value("Null", NoScalar), nodes + 1)
                  ELSE Error("ParseError")
             [] type = <<"bool">> /\ ~HasElementChildren(e) -> ParseBoolText(t, nodes + 1)
             [] type = <<"int">> /\ ~HasElementChildren(e) -> ParseIntText(t, nodes + 1)
             [] type = <<"double">> /\ ~HasElementChildren(e) -> ParseDoubleText(t, nodes + 1)
             [] OTHER -> Error("ParseError")

\* load's loop over the attributes of the root, in their order.
RootAttribute(acc, a) ==
  IF acc.code # "ok" THEN acc
  ELSE CASE a.name = "version" /\ acc.version # NoVersion -> [acc EXCEPT !.code = "ParseError"]
         [] a.name = "version" /\ acc.version = NoVersion ->
              [acc EXCEPT !.version = ParseVersionCarrier(a.text),
                          !.code = IF ParseVersionCarrier(a.text) = NoVersion
                                   THEN "InvalidVersion" ELSE "ok"]
         [] a.name = "type" /\ ~acc.sawType /\ a.text = <<"object">> ->
              [acc EXCEPT !.sawType = TRUE]
         [] OTHER -> [acc EXCEPT !.code = "ParseError"]

\* What load makes of pugixml's document: [code, version, value].
Convert(nodes) ==
  LET roots == Elements(nodes)
      root == roots[1]
      attrs == Ext!FoldLeft(RootAttribute,
                            [code |-> "ok", version |-> NoVersion, sawType |-> FALSE], root.attrs)
      members == ParseObjectMembers(root, 0, 1)
      Outcome(code) == [code |-> code, version |-> attrs.version, value |-> members.value]
      Refused(code) == [code |-> code, version |-> NoVersion, value |-> Value("Null", NoScalar)]
  IN  IF \/ Len(roots) # 1
         \/ \E i \in DOMAIN nodes : ~IsXmlWhitespace(nodes[i].text)
         \/ root.name # "config"
      THEN Refused("ParseError")
      ELSE IF attrs.code # "ok" THEN Refused(attrs.code)
      ELSE IF attrs.version = NoVersion THEN Refused("InvalidVersion")
      ELSE IF Exhausted(0) THEN Refused("ParseError")
      ELSE IF members.code # "ok" THEN Refused(members.code)
      ELSE Outcome("ok")

-------------------------------------------------------------------------------
(* The steps of load.                                                      *)

NotBuilt == [code |-> "none", version |-> NoVersion, value |-> Value("Null", NoScalar)]

Begin(d) ==
  /\ pc' = "read"
  /\ doc' = d
  /\ unreadable' \in BOOLEAN
  /\ config' = NoConfig /\ lost' = FALSE
  /\ UNCHANGED <<dom, built, result>>

LoadDoc(d) == pc = "idle" /\ Begin(d) /\ saved' = NoConfig

\* load returns without a configuration.
Fail(code) ==
  /\ pc' = "loaded" /\ result' = code
  /\ dom' = <<>> /\ built' = NotBuilt
  /\ UNCHANGED <<config, doc, unreadable, saved>>

ReadBounded ==
  /\ pc = "read"
  /\ \/ unreadable /\ Fail("ParseError")
     \/ /\ ~unreadable
        /\ pc' = "parse"
        /\ UNCHANGED <<dom, built, result, config, doc, unreadable, saved>>
  /\ UNCHANGED lost

\* load_buffer_inplace; every status but ok is a parse error, status_out_of_memory too.
ParseBuffer ==
  /\ pc = "parse"
  /\ \/ doc = NoDoc /\ Fail("ParseError") /\ UNCHANGED lost
     \/ Fail("ParseError") /\ lost' = TRUE
     \/ /\ doc # NoDoc
        /\ dom' = Keep(doc, TRUE)
        /\ pc' = "convert"
        /\ UNCHANGED <<built, result, config, doc, unreadable, saved, lost>>

ConvertDocument ==
  /\ pc = "convert"
  /\ LET c == Convert(dom)
     IN  \/ c.code # "ok" /\ Fail(c.code)
         \/ /\ c.code = "ok"
            /\ built' = c
            /\ pc' = "model"
            /\ UNCHANGED <<dom, result, config, doc, unreadable, saved>>
  /\ UNCHANGED lost

\* validateTree, as fromValue calls it.
RECURSIVE ValidateTree(_, _)
ValidateTree(v, depth) ==
  /\ depth <= MaxDepth
  /\ \A i \in DOMAIN v.kids : /\ v.type = "Object" => v.kids[i].key \in Addressable
                              /\ ValidateTree(v.kids[i].value, depth + 1)

FromValue ==
  /\ pc = "model"
  /\ \/ ~ValidateTree(built.value, 0) /\ Fail("ParseError")
     \/ /\ ValidateTree(built.value, 0)
        /\ pc' = "loaded" /\ result' = "ok"
        /\ config' = [version |-> built.version, model |-> built.value]
        /\ dom' = <<>> /\ built' = NotBuilt
        /\ UNCHANGED <<doc, unreadable, saved>>
  /\ UNCHANGED lost

\* std::bad_alloc is rethrown.
LoadBadAlloc == pc \in {"read", "parse", "convert", "model"} /\ Fail("bad_alloc") /\ lost' = TRUE

-------------------------------------------------------------------------------
(* save.  A saved document is built of parts: elements, attributes and     *)
(* texts, numbered in the order they are made.  A part takes up to three   *)
(* allocations (its handle, its name, its value), each checked; when one   *)
(* fails the part is missing.  f is the part that fails, 0 for none.       *)

Made(n, f) == n # f

\* Mutant: an empty handle or a false return is not looked at.
CheckAlloc_Ignored(made) == "ok"

CheckAlloc(made) == IF made THEN "ok" ELSE "bad_alloc"

\* The first that is not "ok", in the order the code checks.
FirstError(codes) ==
  IF \E i \in DOMAIN codes : codes[i] # "ok"
  THEN Head(SelectSeq(codes, LAMBDA c : c # "ok")) ELSE "ok"

\* The type an element is marked with, if any.
TypeAttribute(v) ==
  CASE v.type = "Null" -> <<"null">>
    [] v.type = "Bool" -> <<"bool">>
    [] v.type = "Int" -> <<"int">>
    [] v.type = "Double" -> <<"double">>
    [] v.type = "Array" -> <<"array">>
    [] v.type = "Object" /\ v.kids = <<>> -> <<"object">>
    [] OTHER -> <<>>

\* The text of a scalar's element.
ElementText(v) ==
  CASE v.type = "Bool" -> IF v.scalar THEN <<"true">> ELSE <<"false">>
    [] v.type = "Int" -> IntText(v.scalar)
    [] v.type \in {"Double", "String"} -> v.scalar
    [] OTHER -> <<>>

Representable(v) == /\ v.type = "Double" => IsFinite(v.scalar)
                    /\ v.type = "String" => IsXmlRepresentable(v.scalar)

RECURSIVE AppendValueElement(_, _, _, _)

\* appendMembers and appendItems, after n parts: [code, nodes, n].
AppendChildren(v, n, f) ==
  Ext!FoldLeft(LAMBDA acc, kid :
                 LET added == AppendValueElement(IF v.type = "Array" THEN "item" ELSE kid.key,
                                                 kid.value, acc.n, f)
                 IN  IF acc.code # "ok" THEN acc
                     ELSE [added EXCEPT !.nodes = acc.nodes \o @],
               [code |-> "ok", nodes |-> <<>>, n |-> n], v.kids)

AppendValueElement(name, v, n, f) ==
  LET type == TypeAttribute(v)
      text == ElementText(v)
      n1 == n + 1
      n2 == IF type = <<>> THEN n1 ELSE n1 + 1
      n3 == IF text = <<>> THEN n2 ELSE n2 + 1
      below == AppendChildren(v, n3, f)
      attrs == IF type # <<>> /\ Made(n2, f) THEN <<Attribute("type", type)>> ELSE <<>>
      inner == IF text # <<>> /\ Made(n3, f) THEN <<Text(text)>> ELSE below.nodes
  IN  IF name \notin ElementNames
      THEN [code |-> "SerializationError", nodes |-> <<>>, n |-> n]
      ELSE [code |-> FirstError(<<CheckAlloc(Made(n1, f)),
                                  IF Representable(v) THEN "ok" ELSE "SerializationError",
                                  CheckAlloc(type = <<>> \/ Made(n2, f)),
                                  CheckAlloc(text = <<>> \/ Made(n3, f)),
                                  below.code>>),
            nodes |-> IF Made(n1, f) THEN <<Element(name, attrs, inner)>> ELSE <<>>,
            n |-> below.n]

\* The root, its version, the members.
Document(c, f) ==
  LET members == AppendChildren(c.model, 2, f)
      attrs == IF Made(2, f) THEN <<Attribute("version", Digits(c.version))>> ELSE <<>>
  IN  [code |-> FirstError(<<CheckAlloc(Made(1, f)), CheckAlloc(Made(2, f)), members.code>>),
       nodes |-> IF Made(1, f) THEN <<Element("config", attrs, members.nodes)>> ELSE <<>>,
       n |-> members.n]

\* pugixml: what a later parse sees of the text it writes.  Elements are
\* indented, character data is not, and a carriage return, which it writes as
\* it is, is read as a line feed.
Blank == Text(<<"sp">>)
Written(t) == [i \in DOMAIN t |-> IF t[i] = "cr" THEN "lf" ELSE t[i]]

RECURSIVE Indented(_)
Indented(nodes) ==
  IF Elements(nodes) = <<>>
  THEN [i \in DOMAIN nodes |-> [nodes[i] EXCEPT !.text = Written(@)]]
  ELSE Ext!FlattenSeq([i \in DOMAIN nodes |->
                         <<Blank, [nodes[i] EXCEPT !.kids = Indented(@)]>>]) \o <<Blank>>

\* The application has a configuration of its own making.
Make(c) ==
  /\ pc = "idle"
  /\ pc' = "made"
  /\ config' = c
  /\ UNCHANGED <<dom, built, result, doc, unreadable, saved, lost>>

\* save.  It may also run out of the C++ library's memory, and the stream may
\* fail; then it leaves any part of the text.
Save(f) ==
  LET d == Document(config, f)
  IN  /\ pc \in {"loaded", "made"} /\ config # NoConfig
      /\ pc' = "saved"
      /\ \/ result' = "bad_alloc" /\ lost' = TRUE /\ UNCHANGED <<doc, saved>>
         \/ /\ result' = IF d.code = "ok" THEN "SerializationError" ELSE d.code
            /\ lost' = IF d.code = "ok" THEN f \in 1 .. d.n ELSE d.code = "bad_alloc"
            /\ UNCHANGED <<doc, saved>>
         \/ /\ d.code = "ok"
            /\ result' = "ok" /\ doc' = Indented(d.nodes) /\ saved' = config
            /\ lost' = (f \in 1 .. d.n)
      /\ UNCHANGED <<dom, built, config, unreadable>>

\* The text that was saved is loaded again.
LoadSaved == pc = "saved" /\ result = "ok" /\ Begin(doc) /\ UNCHANGED saved

-------------------------------------------------------------------------------
Init ==
  /\ pc = "idle" /\ dom = <<>> /\ built = NotBuilt
  /\ result = "ok" /\ config = NoConfig
  /\ doc = NoDoc /\ unreadable = FALSE /\ saved = NoConfig /\ lost = FALSE

\* The application drops what it has; an XmlInterface keeps nothing from one
\* call to the next.
Drop ==
  /\ pc \in {"loaded", "saved"}
  /\ pc' = "idle" /\ result' = "ok" /\ config' = NoConfig
  /\ doc' = NoDoc /\ unreadable' = FALSE /\ saved' = NoConfig /\ lost' = FALSE
  /\ UNCHANGED <<dom, built>>

Next ==
  \/ \E d \in Docs : LoadDoc(d)
  \/ ReadBounded \/ ParseBuffer \/ ConvertDocument \/ FromValue \/ LoadBadAlloc
  \/ \E c \in Configs : Make(c)
  \/ \E f \in 0 .. MaxParts : Save(f)
  \/ LoadSaved \/ Drop

Spec == Init /\ [][Next]_vars

-------------------------------------------------------------------------------
(* Properties, and what they compare with: the document as a whole.        *)

\* The nodes of a value, or of an element without its character data.
RECURSIVE Count(_)
Count(v) == Ext!FoldLeft(LAMBDA n, kid : n + Count(kid.value), 1, v.kids)

RECURSIVE CountElements(_)
CountElements(nodes) ==
  Ext!FoldLeft(LAMBDA n, e : n + (IF e.kind = "element" THEN 1 ELSE 0) + CountElements(e.kids),
               0, nodes)

Carriers(e) == {i \in DOMAIN e.attrs : e.attrs[i].name = "version"}
CarrierText(e) == e.attrs[CHOOSE i \in Carriers(e) : TRUE].text
GoodCarrier(e) == /\ \E i \in Carriers(e) : Carriers(e) = {i}
                  /\ IsDecimal(CarrierText(e)) /\ Decimal(CarrierText(e)) <= MaxVersion

TypeNamed == [object |-> "Object", array |-> "Array", string |-> "String", null |-> "Null",
              bool |-> "Bool", int |-> "Int", double |-> "Double"]

\* How an element is to be read, by its attributes and its children.
Reading(e) ==
  CASE e.attrs = <<>> -> IF HasElementChildren(e) THEN "object" ELSE "string"
    [] \E r \in DOMAIN TypeNamed \ {"string"} : e.attrs = <<Attribute("type", <<r>>)>> ->
         e.attrs[1].text[1]
    [] OTHER -> "none"

\* The scalar that the text of an element says, NoScalar if it says none.
Says(reading, t) ==
  CASE reading = "string" -> {x \in {t} : IsXmlRepresentable(t)}
    [] reading = "null" -> {x \in {NoScalar} : t = <<>>}
    [] reading = "bool" -> {b \in BOOLEAN : t = IF b THEN <<"true">> ELSE <<"false">>}
    [] reading = "int" -> {n \in -MaxInt - 1 .. MaxInt :
                             \E k \in 0 .. Len(t) :
                               LET zeros == [i \in 1 .. k |-> "0"]
                               IN  \/ n >= 0 /\ t = zeros \o Digits(n)
                                   \/ n <= 0 /\ t = <<"-">> \o zeros \o Digits(-n)}
    [] reading = "double" -> {FromCharsDouble(t)} \ {NoScalar, <<"inf">>}
    [] OTHER -> {}

\* At this depth the element has a value.
RECURSIVE Meaningful(_, _)
Meaningful(e, depth) ==
  LET children == Elements(e.kids)
  IN  /\ depth <= MaxDepth
      /\ \A i \in DOMAIN children : Meaningful(children[i], depth + 1)
      /\ IF Reading(e) \in {"object", "array"}
         THEN \A i \in DOMAIN e.kids : IsXmlWhitespace(e.kids[i].text)
         ELSE children = <<>> /\ Says(Reading(e), ScalarText(e)) # {}
      /\ Reading(e) = "array" => \A i \in DOMAIN children : children[i].name = "item"
      /\ Reading(e) = "object" =>
           \A i \in DOMAIN children :
              /\ children[i].name \in Addressable \cap ElementNames
              /\ \A j \in DOMAIN children : children[i].name = children[j].name => i = j

RECURSIVE ValueOf(_)
ValueOf(e) ==
  LET children == Elements(e.kids)
      reading == Reading(e)
  IN  [type |-> TypeNamed[reading],
       scalar |-> IF reading \in {"object", "array"} THEN NoScalar
                  ELSE CHOOSE x \in Says(reading, ScalarText(e)) : TRUE,
       kids |-> [i \in DOMAIN children |->
                   [key |-> IF reading = "array" THEN NoKey ELSE children[i].name,
                    value |-> ValueOf(children[i])]]]

\* The root read as a member: its version taken off, an object whether or not
\* it says so.
Body(e) == [e EXCEPT !.attrs = IF \E i \in DOMAIN @ : @[i].name # "version"
                               THEN SelectSeq(@, LAMBDA a : a.name # "version")
                               ELSE <<Attribute("type", <<"object">>)>>]

Acceptable(d) ==
  LET roots == Elements(d)
  IN  /\ Len(roots) = 1
      /\ \A i \in DOMAIN d : IsXmlWhitespace(d[i].text)
      /\ roots[1].name = "config"
      /\ GoodCarrier(roots[1])
      /\ Reading(Body(roots[1])) = "object"
      /\ Meaningful(Body(roots[1]), 0)
      /\ CountElements(d) <= MaxNodes

\* load accepts a document exactly when, as a whole, it is one: one <config>
\* root and nothing but blanks beside it, one well-formed version, a text that
\* says a scalar of its type in every scalar element, no name twice in an
\* object, only items in an array, within the depth and the node limit.  It
\* then has the document's value and version, and blames the version only when
\* the carrier is at fault.
LoadIsExact ==
  pc = "loaded" /\ ~lost =>
    /\ result = "ok" <=> (doc # NoDoc /\ ~unreadable /\ Acceptable(doc))
    /\ result = "ok" => LET root == Elements(doc)[1]
                        IN  config = [version |-> Decimal(CarrierText(root)),
                                      model |-> ValueOf(Body(root))]
    /\ (result = "InvalidVersion" /\ doc # NoDoc) => ~GoodCarrier(Elements(doc)[1])

\* fromValue never refuses what the conversion built: the two depth checks and
\* the two key checks agree (the branch the code calls unreachable).
FromValueAccepts == pc = "model" => ValidateTree(built.value, 0)

\* Every document load accepts can be saved again (xml_interface.cpp:161 and
\* :179): names and texts pass the same tests on the way in and on the way out.
LoadedIsSavable == pc = "loaded" /\ result = "ok" => Document(config, 0).code = "ok"

\* What the conversion lets through is not refused by anything later, neither by
\* fromValue nor, once loaded, by save.
LoadIsFinal == FromValueAccepts /\ LoadedIsSavable

\* What save writes for a configuration within the node limit, load reads back
\* as the same configuration, if the text is not too long: the indentation, an
\* empty object next to an empty string, blanks as a string, an item or a
\* version as a member's name.
RoundTrip ==
  (pc = "loaded" /\ saved # NoConfig /\ ~unreadable /\ ~lost
     /\ Count(saved.model) <= MaxNodes) => result = "ok" /\ config = saved

\* When memory runs out in save, at whatever part of the document, save says
\* so: it never reports success for a truncated document.
SaveMemory == pc = "saved" /\ lost => result = "bad_alloc"

\* Memory exhaustion in load propagates as std::bad_alloc and never becomes a
\* configuration error (xml_interface.cpp:682).
LoadMemory == pc = "loaded" /\ lost => result = "bad_alloc"
===============================================================================
